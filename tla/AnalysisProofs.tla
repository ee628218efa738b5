--------------------------- MODULE AnalysisProofs ---------------------------
(***************************************************************************)
(* Proofs about AnalysisCache, for any number of callers, days and         *)
(* retries: nothing that is called final rests on prices of the trading    *)
(* hours, however many calls are under way when the market closes; about   *)
(* AnalysisRules, for whatever the sources answer: what the plan of an     *)
(* analysis may rest on; and about DailyAvwap, for any bars, archives and  *)
(* answers of the sources: what the averages an analysis and the Daily     *)
(* Radar show rest on.                                                     *)
(***************************************************************************)
EXTENDS AnalysisCache, AnalysisRules, DailyAvwap,
    FiniteSetTheorems, SequenceTheorems, WellFoundedInduction, TLAPS

-----------------------------------------------------------------------------
(* The inductive invariant *)

Rows     == [final : BOOLEAN, data : Data, replay : BOOLEAN]
Requests == [pc : {"idle"}]
            \cup [pc : {"retry", "hit"}, start : Times, persist : BOOLEAN, row : Rows, day : Days]
            \cup [pc : {"raw"}, start : Times, persist : BOOLEAN]
            \cup [pc : {"backfill", "crawl", "save", "capture", "store"}, start : Times,
                  persist : BOOLEAN, reuse : BOOLEAN, data : Data \cup {None}, tries : Nat]
            \cup [pc : {"answered"}, start : Times, persist : BOOLEAN, final : BOOLEAN, data : Data]
AtRest   == {"idle", "answered"}

Typed == /\ setting \in Settings /\ now \in Times
         /\ cache \in [Days -> Rows \cup {None}]
         /\ raw \in [Days -> [data : Data, fetched : Times] \cup {None}]
         /\ sample \in [Days -> Data \cup {None}]
         /\ call \in [Callers -> Requests]

KnownData(data) == data \in (0 .. now) \cup {NoData}
ClosingData(d) == ClosingOf(d) \cup {NoData}

\* A stored row: what its sample is captured from is closing data, and until its
\* day is over so is all that is final.
RowIsSound(d, row) ==
    /\ KnownData(row.data)
    /\ row.replay => row.final /\ row.data \in ClosingData(d)
    /\ row.final /\ d >= Day(now) => row.data \in ClosingData(d)
RowsAreSound == /\ \A d \in Days : cache[d] # None => RowIsSound(d, cache[d])
                /\ \A d \in Days : raw[d] # None => KnownData(raw[d].data)
                /\ \A d \in Days : sample[d] # None => KnownData(sample[d]) /\ sample[d] \in ClosingData(d)

\* A call under way is of today; the row that answers it served it, and data it
\* fetched itself are no older than the call.
UnderWay(r) ==
    /\ r.pc \notin AtRest => r.start <= now /\ Day(r.start) = Day(now)
    /\ r.pc \in {"retry", "hit"} =>
          /\ r.persist /\ r.day = Day(r.start) /\ RowIsSound(r.day, r.row)
          /\ Closed(r.start) => r.row.final
    /\ r.pc \in {"backfill", "crawl"} =>
          IF r.reuse THEN ~r.persist /\ KnownData(r.data) ELSE r.data = None
    /\ r.pc \in {"save", "capture", "store"} =>
          /\ KnownData(r.data)
          /\ IF r.reuse THEN ~r.persist ELSE r.data = NoData \/ r.data >= r.start
    /\ r.pc = "answered" /\ r.persist /\ Closed(r.start) =>
          r.final /\ r.data \in ClosingData(Day(r.start))
CallsAreSound == \A c \in Callers : UnderWay(call[c])

IInv == Typed /\ RowsAreSound /\ CallsAreSound

-----------------------------------------------------------------------------
(* Half days *)

\* A time is the open or the closed half of its day.
LEMMA HalfDays ==
    ASSUME NEW t \in Nat
    PROVE  /\ Day(t) \in Nat /\ Closed(t) \in BOOLEAN
           /\ Closed(t) => t = 2 * Day(t) + 1
           /\ ~Closed(t) => t = 2 * Day(t)
BY DEF Day, Closed

\* A time fetched since the close of today is of the close of today.
LEMMA SinceClose ==
    ASSUME NEW s \in Nat, NEW t \in Nat, NEW u \in Nat, s <= t, t <= u, Day(s) = Day(u), Closed(s)
    PROVE  Day(t) = Day(s) /\ Closed(t)
<1>1. s = 2 * Day(s) + 1 /\ u <= 2 * Day(s) + 1 /\ Day(s) \in Nat
  BY HalfDays
<1>2. t = s
  BY <1>1
<1> QED
  BY <1>2

\* The bounds of a setting.
LEMMA SettingFacts ==
    ASSUME setting \in Settings
    PROVE  /\ MaxTime \in Nat /\ MaxRetries \in Nat /\ Active \subseteq Callers
           /\ Persisting \subseteq BOOLEAN
           /\ \A t \in Times : t \in Nat /\ t <= MaxTime /\ Day(t) \in Days
           /\ \A d \in Days : d \in Nat
<1>1. MaxTime \in Nat /\ MaxRetries \in Nat /\ Active \subseteq Callers /\ Persisting \subseteq BOOLEAN
  BY SettingsAssumption DEF MaxTime, MaxRetries, Active, Persisting
<1>2. ASSUME NEW t \in Times PROVE t \in Nat /\ t <= MaxTime /\ Day(t) \in Days
  <2>1. t \in Nat /\ t <= MaxTime
    BY <1>1 DEF Times
  <2>2. Day(t) <= Day(MaxTime) /\ Day(t) \in Nat /\ Day(MaxTime) \in Nat
    BY <1>1, <2>1 DEF Day
  <2> QED
    BY <2>1, <2>2 DEF Days
<1>3. \A d \in Days : d \in Nat
  <2>1. Day(MaxTime) \in Nat
    BY <1>1, HalfDays
  <2> QED
    BY <2>1 DEF Days
<1> QED
  BY <1>1, <1>2, <1>3

\* The invariant implies what the runs check.
LEMMA IInvIsEnough == IInv => FinalIsClosing
<1> SUFFICES ASSUME IInv PROVE FinalIsClosing
  OBVIOUS
<1>1. Day(now) \in Days /\ Day(now) \in Nat /\ now \in Nat
  BY SettingFacts DEF IInv, Typed
<1>2. TypeOK
  BY DEF IInv, Typed, RowsAreSound, RowIsSound, KnownData, TypeOK
<1>3. FinalTodayIsClosing
  BY <1>1 DEF IInv, RowsAreSound, RowIsSound, FinalTodayIsClosing, ClosingData
<1>4. ClosedCallsGetClosingData
  BY DEF IInv, CallsAreSound, UnderWay, ClosedCallsGetClosingData, ClosingData
<1>5. SampleIsClosing
  BY DEF IInv, RowsAreSound, SampleIsClosing, ClosingData
<1> QED
  BY <1>2, <1>3, <1>4, <1>5 DEF FinalIsClosing

\* It holds at the start.
LEMMA InitIInv == Init => IInv
<1> SUFFICES ASSUME Init PROVE IInv
  OBVIOUS
<1>1. setting \in Settings /\ 0 \in Times
  BY SettingFacts DEF Init, Times
<1>2. Typed
  BY <1>1 DEF Init, Typed, Idle, Requests
<1>3. RowsAreSound
  BY DEF Init, RowsAreSound
<1>4. CallsAreSound
  BY DEF Init, CallsAreSound, UnderWay, Idle, AtRest
<1> QED
  BY <1>2, <1>3, <1>4 DEF IInv

-----------------------------------------------------------------------------
(* It is inductive *)

\* Half a day passes; at midnight no call is under way.
LEMMA TickStep == IInv /\ Tick => IInv'
<1> SUFFICES ASSUME IInv, Tick PROVE IInv'
  OBVIOUS
<1>1. /\ now \in Nat /\ now' = now + 1 /\ now' \in Times /\ now' \in Nat
      /\ UNCHANGED <<setting, cache, raw, sample, call>>
      /\ Closed(now) => \A c \in Callers : call[c].pc \in AtRest
  BY SettingFacts DEF IInv, Typed, Tick, Times, AtRest
<1>2. Day(now) <= Day(now') /\ (~Closed(now) => Day(now') = Day(now)) /\ now <= now'
  BY <1>1, HalfDays DEF Day, Closed
<1>3. /\ Times' = Times /\ Days' = Days /\ Data' = Data /\ Rows' = Rows /\ Requests' = Requests
      /\ \A d : ClosingOf(d)' = ClosingOf(d)
  BY <1>1 DEF Times, Days, Data, Rows, Requests, MaxTime, ClosingOf
<1>4. \A data : KnownData(data) => KnownData(data)'
  BY <1>1, <1>2 DEF KnownData
<1>5. ASSUME NEW d \in Nat, NEW row, RowIsSound(d, row) PROVE RowIsSound(d, row)'
  <2>1. d >= Day(now)' => d >= Day(now)
    BY <1>1, <1>2, HalfDays
  <2> QED
    BY <1>3, <1>4, <1>5, <2>1 DEF RowIsSound, ClosingData
<1>6. Typed'
  BY <1>1, <1>3 DEF IInv, Typed
<1>7. RowsAreSound'
  BY <1>1, <1>3, <1>4, <1>5, SettingFacts DEF IInv, Typed, RowsAreSound, ClosingData
<1>8. CallsAreSound'
  <2> SUFFICES ASSUME NEW c \in Callers PROVE UnderWay(call[c])'
    BY <1>1 DEF CallsAreSound
  <2> DEFINE r == call[c]
  <2>1. UnderWay(r) /\ r \in Requests /\ r' = r
    BY <1>1 DEF IInv, CallsAreSound, Typed
  <2>2. r.pc \notin AtRest => r.start <= now' /\ Day(r.start) = Day(now')
    <3> SUFFICES ASSUME r.pc \notin AtRest PROVE r.start <= now' /\ Day(r.start) = Day(now')
      OBVIOUS
    <3>1. r.start \in Times /\ r.start <= now /\ Day(r.start) = Day(now)
      BY <2>1 DEF UnderWay, Requests, AtRest
    <3>2. r.start \in Nat
      BY <3>1, SettingFacts DEF IInv, Typed
    <3>3. ~Closed(now)
      BY <1>1
    <3> QED
      BY <1>1, <1>2, <3>1, <3>2, <3>3
  <2>3. r.pc \in {"retry", "hit"} => r.day \in Nat
    BY <2>1, SettingFacts DEF Requests, IInv, Typed
  <2> QED
    BY <1>3, <1>4, <1>5, <2>1, <2>2, <2>3 DEF UnderWay, ClosingData, AtRest
<1> QED
  BY <1>6, <1>7, <1>8 DEF IInv

\* A step of one call: what it stores and what becomes of it is sound.
LEMMA CallStep ==
    ASSUME IInv, UNCHANGED <<setting, now>>, NEW c \in Callers, NEW new \in Requests,
           call' = [call EXCEPT ![c] = new], UnderWay(new),
           cache' \in [Days -> Rows \cup {None}],
           raw' \in [Days -> [data : Data, fetched : Times] \cup {None}],
           sample' \in [Days -> Data \cup {None}],
           \A d \in Days : cache'[d] # None => RowIsSound(d, cache'[d]),
           \A d \in Days : raw'[d] # None => KnownData(raw'[d].data),
           \A d \in Days : sample'[d] # None => KnownData(sample'[d]) /\ sample'[d] \in ClosingData(d)
    PROVE  IInv'
<1>1. /\ Times' = Times /\ Days' = Days /\ Data' = Data /\ Rows' = Rows /\ Requests' = Requests
      /\ \A d : ClosingOf(d)' = ClosingOf(d)
  BY DEF Times, Days, Data, Rows, Requests, MaxTime, ClosingOf
<1>2. call' \in [Callers -> Requests] /\ \A b \in Callers : call'[b] = IF b = c THEN new ELSE call[b]
  BY DEF IInv, Typed
<1>3. Typed'
  BY <1>1, <1>2 DEF IInv, Typed
<1>4. RowsAreSound'
  BY <1>1 DEF RowsAreSound, RowIsSound, KnownData, ClosingData
<1>5. CallsAreSound'
  <2> SUFFICES ASSUME NEW b \in Callers PROVE UnderWay(call[b])'
    BY DEF CallsAreSound
  <2>1. UnderWay(call'[b])
    BY <1>2 DEF IInv, CallsAreSound
  <2> QED
    BY <1>1, <2>1 DEF UnderWay, RowIsSound, KnownData, ClosingData, AtRest
<1> QED
  BY <1>3, <1>4, <1>5 DEF IInv

\* Nothing is stored.
LEMMA QuietStep ==
    ASSUME IInv, UNCHANGED <<setting, now, cache, raw, sample>>, NEW c \in Callers,
           NEW new \in Requests, call' = [call EXCEPT ![c] = new], UnderWay(new)
    PROVE  IInv'
BY CallStep DEF IInv, Typed, RowsAreSound

\* The day and the half day of the clock.
LEMMA NowFacts ==
    ASSUME IInv
    PROVE  /\ setting \in Settings /\ now \in Times /\ now \in Nat
           /\ Day(now) \in Days /\ Day(now) \in Nat
           /\ \A d \in Days : d \in Nat
           /\ KnownData(now) /\ now \in Data /\ NoData \in Data /\ KnownData(NoData)
           /\ \A data : KnownData(data) => data \in Data
           /\ Closed(now) => now \in ClosingOf(Day(now))
           /\ \A t \in Times : t \in Nat
<1>1. /\ setting \in Settings /\ now \in Times /\ now \in Nat /\ MaxTime \in Nat /\ now <= MaxTime
      /\ Day(now) \in Days /\ Day(now) \in Nat /\ \A d \in Days : d \in Nat
      /\ \A t \in Times : t \in Nat
  BY SettingFacts DEF IInv, Typed
<1>2. \A data : KnownData(data) => data \in Data
  BY <1>1 DEF KnownData, Data, Times
<1> QED
  BY <1>1, <1>2 DEF KnownData, Data, ClosingOf

LEMMA ManagedRefreshStep == IInv /\ ManagedRefresh => IInv'
<1> SUFFICES ASSUME IInv, ManagedRefresh PROVE IInv'
  OBVIOUS
<1>1. /\ UNCHANGED <<setting, now, cache, sample, call>>
      /\ raw' = [raw EXCEPT ![Day(now)] = RawRow(now)]
  BY DEF ManagedRefresh
<1>2. /\ raw' \in [Days -> [data : Data, fetched : Times] \cup {None}]
      /\ \A d \in Days : raw'[d] # None => KnownData(raw'[d].data)
  BY <1>1, NowFacts DEF IInv, Typed, RowsAreSound, RawRow
<1>3. /\ Times' = Times /\ Days' = Days /\ Data' = Data /\ Rows' = Rows /\ Requests' = Requests
      /\ \A d : ClosingOf(d)' = ClosingOf(d)
  BY <1>1 DEF Times, Days, Data, Rows, Requests, MaxTime, ClosingOf
<1> QED
  BY <1>1, <1>2, <1>3
  DEF IInv, Typed, RowsAreSound, CallsAreSound, UnderWay, RowIsSound, KnownData, ClosingData, AtRest

LEMMA BeginStep ==
    ASSUME IInv, NEW c \in Callers, NEW persist \in BOOLEAN, Begin(c, persist)
    PROVE  IInv'
<1> DEFINE row == cache[Day(now)]
<1>1. CASE persist /\ Serves(row, now)
  <2> DEFINE new == [pc |-> IF row.final THEN "retry" ELSE "hit", start |-> now,
                     persist |-> persist, row |-> row, day |-> Day(now)]
  <2>1. call' = [call EXCEPT ![c] = new] /\ UNCHANGED <<setting, now, cache, raw, sample>>
    BY <1>1 DEF Begin
  <2>2. row \in Rows /\ RowIsSound(Day(now), row) /\ (Closed(now) => row.final)
    BY <1>1, NowFacts DEF Serves, IInv, Typed, RowsAreSound
  <2>3. new \in Requests
    BY <2>2, NowFacts DEF Requests
  <2>4. UnderWay(new)
    BY <1>1, <2>2, NowFacts DEF UnderWay, AtRest
  <2> HIDE DEF new
  <2> QED
    BY <2>1, <2>3, <2>4, QuietStep
<1>2. CASE ~(persist /\ Serves(row, now))
  <2> DEFINE new == [pc |-> "raw", start |-> now, persist |-> persist]
  <2>1. call' = [call EXCEPT ![c] = new] /\ UNCHANGED <<setting, now, cache, raw, sample>>
    BY <1>2 DEF Begin
  <2>2. new \in Requests /\ UnderWay(new)
    BY NowFacts DEF Requests, UnderWay, AtRest
  <2> HIDE DEF new
  <2> QED
    BY <2>1, <2>2, QuietStep
<1> QED
  BY <1>1, <1>2

LEMMA RetryCaptureStep ==
    ASSUME IInv, NEW c \in Callers, RetryCapture(c)
    PROVE  IInv'
<1> DEFINE r == call[c]
           new == [r EXCEPT !.pc = "hit"]
<1>1. r \in Requests /\ UnderWay(r) /\ r.pc = "retry"
  BY DEF IInv, Typed, CallsAreSound, RetryCapture
<1>2. /\ r.row \in Rows /\ r.day \in Days /\ RowIsSound(r.day, r.row)
  BY <1>1 DEF Requests, UnderWay
<1>3. call' = [call EXCEPT ![c] = new] /\ UNCHANGED <<setting, now, cache, raw>>
  BY DEF RetryCapture
<1>4. new \in Requests /\ UnderWay(new)
  BY <1>1 DEF Requests, UnderWay, AtRest
<1>5. sample' = sample \/ sample' = [sample EXCEPT ![r.day] = IF @ = None /\ r.row.replay THEN r.row.data ELSE @]
  BY DEF RetryCapture
<1>6. /\ sample' \in [Days -> Data \cup {None}]
      /\ \A d \in Days : sample'[d] # None => KnownData(sample'[d]) /\ sample'[d] \in ClosingData(d)
  BY <1>2, <1>5, NowFacts DEF IInv, Typed, RowsAreSound, RowIsSound, Rows
<1> HIDE DEF new
<1> QED
  BY <1>3, <1>4, <1>6, CallStep DEF IInv, Typed, RowsAreSound

LEMMA HitStep ==
    ASSUME IInv, NEW c \in Callers, Hit(c)
    PROVE  IInv'
<1> DEFINE r == call[c]
           new == [pc |-> "answered", start |-> r.start, persist |-> r.persist,
                   final |-> r.row.final, data |-> r.row.data]
<1>1. r \in Requests /\ UnderWay(r) /\ r.pc = "hit"
  BY DEF IInv, Typed, CallsAreSound, Hit
<1>2. /\ r.row \in Rows /\ r.day = Day(r.start) /\ RowIsSound(r.day, r.row) /\ r.start \in Times
      /\ r.persist \in BOOLEAN /\ Day(r.start) = Day(now) /\ (Closed(r.start) => r.row.final)
  BY <1>1 DEF Requests, UnderWay, AtRest
<1>3. call' = [call EXCEPT ![c] = new] /\ UNCHANGED <<setting, now, cache, raw, sample>>
  BY DEF Hit, Answer
<1>4. new \in Requests
  BY <1>2 DEF Requests, Rows
<1>5. UnderWay(new)
  <2>1. r.day >= Day(now)
    BY <1>2, NowFacts
  <2> QED
    BY <1>2, <2>1 DEF UnderWay, AtRest, RowIsSound
<1> HIDE DEF new
<1> QED
  BY <1>3, <1>4, <1>5, QuietStep

LEMMA ReadRawStep ==
    ASSUME IInv, NEW c \in Callers, ReadRaw(c)
    PROVE  IInv'
<1> DEFINE r == call[c]
           new(reuse) == [pc |-> "backfill", start |-> r.start, persist |-> r.persist, reuse |-> reuse,
                          data |-> IF reuse THEN raw[Day(now)].data ELSE None, tries |-> 0]
<1>1. r \in Requests /\ UnderWay(r) /\ r.pc = "raw"
  BY DEF IInv, Typed, CallsAreSound, ReadRaw
<1>2. /\ r.start \in Times /\ r.persist \in BOOLEAN /\ r.start <= now /\ Day(r.start) = Day(now)
  BY <1>1 DEF Requests, UnderWay, AtRest
<1>3. PICK reuse \in BOOLEAN : /\ reuse => ~r.persist /\ Recent(raw[Day(now)])
                               /\ call' = [call EXCEPT ![c] = new(reuse)]
  BY DEF ReadRaw
<1>4. reuse => KnownData(raw[Day(now)].data)
  BY <1>3, NowFacts DEF Recent, IInv, RowsAreSound
<1>5. new(reuse) \in Requests
  BY <1>2, <1>4, NowFacts DEF Requests
<1>6. UnderWay(new(reuse))
  BY <1>2, <1>3, <1>4 DEF UnderWay, AtRest
<1> HIDE DEF new
<1> QED
  BY <1>3, <1>5, <1>6, QuietStep DEF ReadRaw

LEMMA FailStep ==
    ASSUME IInv, NEW c \in Callers, Fail(c)
    PROVE  IInv'
<1>1. Idle \in Requests /\ UnderWay(Idle)
  BY DEF Idle, Requests, UnderWay, AtRest
<1> QED
  BY <1>1, QuietStep DEF Fail

\* What is known of a call that works.
LEMMA WorkingFacts ==
    ASSUME IInv, NEW c \in Callers, call[c].pc \in {"backfill", "crawl", "save", "capture", "store"}
    PROVE  /\ call[c] \in [pc : {"backfill", "crawl", "save", "capture", "store"}, start : Times,
                           persist : BOOLEAN, reuse : BOOLEAN, data : Data \cup {None}, tries : Nat]
           /\ call[c].start \in Nat /\ call[c].start <= now /\ Day(call[c].start) = Day(now)
           /\ UnderWay(call[c])
<1>1. call[c] \in Requests /\ UnderWay(call[c])
  BY DEF IInv, Typed, CallsAreSound
<1>2. call[c] \in [pc : {"backfill", "crawl", "save", "capture", "store"}, start : Times,
                   persist : BOOLEAN, reuse : BOOLEAN, data : Data \cup {None}, tries : Nat]
  BY <1>1 DEF Requests
<1> QED
  BY <1>1, <1>2, NowFacts DEF UnderWay, AtRest

\* Fresh data of a call that began after the close are closing data.
LEMMA FreshIsClosing ==
    ASSUME IInv, NEW c \in Callers, call[c].pc \in {"save", "capture", "store"},
           ~call[c].reuse, Closed(call[c].start)
    PROVE  call[c].data \in ClosingData(Day(now))
<1> DEFINE r == call[c]
<1>1. /\ r.start \in Nat /\ Day(r.start) = Day(now) /\ KnownData(r.data)
      /\ r.data = NoData \/ r.data >= r.start
  BY WorkingFacts DEF UnderWay
<1>2. CASE r.data = NoData
  BY <1>2 DEF ClosingData
<1>3. CASE r.data # NoData
  <2>1. r.data \in Nat /\ r.data <= now /\ r.start <= r.data /\ now \in Nat /\ r.data \in Times
    BY <1>1, <1>3, NowFacts, SettingFacts DEF KnownData, Times, IInv, Typed
  <2>2. Day(r.data) = Day(now) /\ Closed(r.data)
    BY <1>1, <2>1, SinceClose
  <2> QED
    BY <2>1, <2>2 DEF ClosingData, ClosingOf
<1> QED
  BY <1>2, <1>3

\* The nightly values make a row of a day that is over final, nothing else.
LEMMA BackfillYesterdayStep ==
    ASSUME IInv, NEW c \in Callers, BackfillYesterday(c)
    PROVE  IInv'
<1> DEFINE r == call[c]
           new == [r EXCEPT !.pc = "crawl"]
<1>1. r.pc = "backfill" /\ UNCHANGED <<setting, now, raw, sample>> /\ call' = [call EXCEPT ![c] = new]
  BY DEF BackfillYesterday
<1>2. new \in Requests /\ UnderWay(new)
  BY <1>1, WorkingFacts DEF Requests, UnderWay, AtRest
<1>3. PICK fetched \in BOOLEAN :
        cache' = [d \in Days |-> IF fetched /\ d = Yesterday /\ cache[d] # None
                                 THEN [cache[d] EXCEPT !.final = TRUE] ELSE cache[d]]
  BY DEF BackfillYesterday
<1>4. ASSUME NEW d \in Days
      PROVE  cache'[d] \in Rows \cup {None} /\ (cache'[d] # None => RowIsSound(d, cache'[d]))
  <2>1. cache[d] \in Rows \cup {None} /\ (cache[d] # None => RowIsSound(d, cache[d]))
    BY DEF IInv, Typed, RowsAreSound
  <2>2. CASE fetched /\ d = Yesterday /\ cache[d] # None
    <3>1. cache'[d] = [cache[d] EXCEPT !.final = TRUE] /\ cache[d] \in Rows /\ RowIsSound(d, cache[d])
      BY <1>3, <2>1, <2>2
    <3>2. ~(d >= Day(now))
      BY <2>2, NowFacts DEF Yesterday
    <3> QED
      BY <3>1, <3>2 DEF Rows, RowIsSound
  <2>3. CASE ~(fetched /\ d = Yesterday /\ cache[d] # None)
    BY <1>3, <2>1, <2>3
  <2> QED
    BY <2>2, <2>3
<1>5. cache' \in [Days -> Rows \cup {None}]
  BY <1>3, <1>4
<1> HIDE DEF new
<1> QED
  BY <1>1, <1>2, <1>4, <1>5, CallStep DEF IInv, Typed, RowsAreSound

\* What a call fetches now is no older than the call.
LEMMA CrawlStep ==
    ASSUME IInv, NEW c \in Callers, Crawl(c)
    PROVE  IInv'
<1> DEFINE r == call[c]
<1>1. /\ r.pc = "crawl" /\ UNCHANGED <<setting, now, cache, raw, sample>>
      /\ IF r.reuse THEN ~r.persist /\ KnownData(r.data) ELSE r.data = None
      /\ r.start \in Nat /\ r.start <= now /\ Day(r.start) = Day(now) /\ r.tries \in Nat
  BY WorkingFacts DEF Crawl, UnderWay
<1>2. CASE call' = [call EXCEPT ![c].pc = "save", ![c].data = IF @ = None THEN now ELSE @]
  <2> DEFINE new == [r EXCEPT !.pc = "save", !.data = IF r.data = None THEN now ELSE r.data]
  <2>1. call' = [call EXCEPT ![c] = new]
    BY <1>2 DEF IInv, Typed
  <2>2. new.data \in Data /\ KnownData(new.data) /\ (~r.reuse => new.data = now)
    BY <1>1, WorkingFacts, NowFacts
  <2>3. new \in Requests
    BY <1>1, <2>2, WorkingFacts DEF Requests
  <2>4. UnderWay(new)
    BY <1>1, <2>2, WorkingFacts, NowFacts DEF UnderWay, AtRest
  <2> HIDE DEF new
  <2> QED
    BY <1>1, <2>1, <2>3, <2>4, QuietStep
<1>3. CASE r.data = None /\ call' = [call EXCEPT ![c].tries = @ + 1]
  <2> DEFINE new == [r EXCEPT !.tries = r.tries + 1]
  <2>1. call' = [call EXCEPT ![c] = new]
    BY <1>3 DEF IInv, Typed
  <2>2. new \in Requests
    BY <1>1, WorkingFacts DEF Requests
  <2>3. UnderWay(new)
    BY <1>1, <1>3, WorkingFacts DEF UnderWay, AtRest
  <2> HIDE DEF new
  <2> QED
    BY <1>1, <2>1, <2>2, <2>3, QuietStep
<1>4. CASE r.data = None /\ call' = [call EXCEPT ![c].pc = "save", ![c].data = NoData]
  <2> DEFINE new == [r EXCEPT !.pc = "save", !.data = NoData]
  <2>1. call' = [call EXCEPT ![c] = new]
    BY <1>4 DEF IInv, Typed
  <2>2. new \in Requests
    BY <1>1, WorkingFacts, NowFacts DEF Requests
  <2>3. UnderWay(new)
    BY <1>1, <1>4, WorkingFacts, NowFacts DEF UnderWay, AtRest
  <2> HIDE DEF new
  <2> QED
    BY <1>1, <2>1, <2>2, <2>3, QuietStep
<1> QED
  BY <1>2, <1>3, <1>4 DEF Crawl

\* What a call of today stores as final rests on closing data of today.
LEMMA SaveStep ==
    ASSUME IInv, NEW c \in Callers, Save(c)
    PROVE  IInv'
<1> DEFINE r == call[c]
           new == [r EXCEPT !.pc = "capture"]
           final == Closed(r.start)
           row == Analysis(final, r.data, final)
<1>1. /\ r.pc = "save" /\ UNCHANGED <<setting, now, raw, sample>> /\ call' = [call EXCEPT ![c] = new]
      /\ IF r.persist THEN cache' = [cache EXCEPT ![Day(now)] = row] ELSE UNCHANGED cache
  BY DEF Save
<1>2. new \in Requests /\ UnderWay(new)
  BY <1>1, WorkingFacts DEF Requests, UnderWay, AtRest
<1>3. ASSUME r.persist PROVE row \in Rows /\ RowIsSound(Day(now), row)
  <2>1. ~r.reuse /\ KnownData(r.data) /\ r.data \in Data /\ final \in BOOLEAN
    BY <1>1, <1>3, WorkingFacts, NowFacts, HalfDays DEF UnderWay
  <2>2. final => r.data \in ClosingData(Day(now))
    BY <1>1, <2>1, FreshIsClosing
  <2> QED
    BY <2>1, <2>2 DEF Analysis, Rows, RowIsSound
<1> HIDE DEF row, new
<1>4. /\ cache' \in [Days -> Rows \cup {None}]
      /\ \A d \in Days : cache'[d] # None => RowIsSound(d, cache'[d])
  BY <1>1, <1>3 DEF IInv, Typed, RowsAreSound
<1> QED
  BY <1>1, <1>2, <1>4, CallStep DEF IInv, Typed, RowsAreSound

LEMMA CaptureStep ==
    ASSUME IInv, NEW c \in Callers, Capture(c)
    PROVE  IInv'
<1> DEFINE r == call[c]
           new == [r EXCEPT !.pc = "store"]
<1>1. r.pc = "capture" /\ UNCHANGED <<setting, now, cache, raw>> /\ call' = [call EXCEPT ![c] = new]
  BY DEF Capture
<1>2. new \in Requests /\ UnderWay(new)
  BY <1>1, WorkingFacts DEF Requests, UnderWay, AtRest
<1>3. \/ sample' = sample
      \/ /\ r.persist /\ Closed(r.start)
         /\ sample' = [sample EXCEPT ![Day(now)] = IF @ = None THEN r.data ELSE @]
  BY DEF Capture
<1>4. ASSUME r.persist, Closed(r.start)
      PROVE  KnownData(r.data) /\ r.data \in Data /\ r.data \in ClosingData(Day(now))
  <2>1. ~r.reuse /\ KnownData(r.data) /\ r.data \in Data
    BY <1>1, <1>4, WorkingFacts, NowFacts DEF UnderWay
  <2> QED
    BY <1>1, <1>4, <2>1, FreshIsClosing
<1> HIDE DEF new
<1>5. /\ sample' \in [Days -> Data \cup {None}]
      /\ \A d \in Days : sample'[d] # None => KnownData(sample'[d]) /\ sample'[d] \in ClosingData(d)
  BY <1>3, <1>4 DEF IInv, Typed, RowsAreSound
<1> QED
  BY <1>1, <1>2, <1>5, CallStep DEF IInv, Typed, RowsAreSound

LEMMA StoreRawStep ==
    ASSUME IInv, NEW c \in Callers, StoreRaw(c)
    PROVE  IInv'
<1> DEFINE r == call[c]
           new == [pc |-> "answered", start |-> r.start, persist |-> r.persist,
                   final |-> Closed(r.start), data |-> r.data]
<1>1. /\ r.pc = "store" /\ UNCHANGED <<setting, now, cache, sample>> /\ call' = [call EXCEPT ![c] = new]
      /\ IF r.reuse THEN UNCHANGED raw ELSE raw' = [raw EXCEPT ![Day(now)] = RawRow(r.data)]
  BY DEF StoreRaw, Answer
<1>2. /\ KnownData(r.data) /\ r.data \in Data /\ Closed(r.start) \in BOOLEAN
      /\ r.reuse => ~r.persist
  BY <1>1, WorkingFacts, NowFacts, HalfDays DEF UnderWay
<1>3. new \in Requests
  BY <1>1, <1>2, WorkingFacts DEF Requests
<1>4. UnderWay(new)
  BY <1>1, <1>2, WorkingFacts, FreshIsClosing DEF UnderWay, AtRest
<1>5. /\ raw' \in [Days -> [data : Data, fetched : Times] \cup {None}]
      /\ \A d \in Days : raw'[d] # None => KnownData(raw'[d].data)
  BY <1>1, <1>2, NowFacts DEF IInv, Typed, RowsAreSound, RawRow
<1> HIDE DEF new
<1> QED
  BY <1>1, <1>3, <1>4, <1>5, CallStep DEF IInv, Typed, RowsAreSound

\* Every step preserves the invariant.
LEMMA NextIInv == IInv /\ [Next]_vars => IInv'
<1> SUFFICES ASSUME IInv, [Next]_vars PROVE IInv'
  OBVIOUS
<1>1. Active \subseteq Callers /\ Persisting \subseteq BOOLEAN
  BY SettingFacts DEF IInv, Typed
<1>2. CASE Tick
  BY <1>2, TickStep
<1>3. CASE ManagedRefresh
  BY <1>3, ManagedRefreshStep
<1>4. ASSUME NEW c \in Active, NEW p \in Persisting, Begin(c, p) PROVE IInv'
  BY <1>1, <1>4, BeginStep
<1>5. ASSUME NEW c \in Active, Work(c) PROVE IInv'
  BY <1>1, <1>5, RetryCaptureStep, HitStep, ReadRawStep, BackfillYesterdayStep, CrawlStep,
     SaveStep, CaptureStep, StoreRawStep DEF Work
<1>6. ASSUME NEW c \in Active, Fail(c) PROVE IInv'
  BY <1>1, <1>6, FailStep
<1>7. CASE UNCHANGED vars
  BY <1>7 DEF vars, IInv, Typed, RowsAreSound, CallsAreSound, UnderWay, RowIsSound, KnownData,
              ClosingData, ClosingOf, Times, Days, Data, Rows, Requests, MaxTime
<1> QED
  BY <1>2, <1>3, <1>4, <1>5, <1>6, <1>7 DEF Next

-----------------------------------------------------------------------------
(* The theorems *)

\* Every reachable state satisfies the inductive invariant.
THEOREM Inductive == Spec => []IInv
<1>1. Init => IInv
  BY InitIInv
<1>2. IInv /\ [Next]_vars => IInv'
  BY NextIInv
<1> QED
  BY <1>1, <1>2, PTL DEF Spec

\* The row of the day, the answers of calls after the close and the calibration
\* samples that are called final rest on closing data, whatever calls overlap the
\* close, fail or are repeated.
THEOREM FinalRestsOnClose == Spec => []FinalIsClosing
BY Inductive, IInvIsEnough, PTL

-----------------------------------------------------------------------------
(* AnalysisRules: numbers *)

\* The greater and the smaller of two integers, as Max and Min name them.
LEMMA OfTwo ==
    ASSUME NEW a \in Int, NEW b \in Int
    PROVE  /\ Max({a, b}) = IF a >= b THEN a ELSE b
           /\ Min({a, b}) = IF a <= b THEN a ELSE b
<1>1. \E x \in {a, b} : \A y \in {a, b} : x >= y
  <2>1. a >= b \/ b >= a
    OBVIOUS
  <2>2. a >= a /\ b >= b
    OBVIOUS
  <2> QED
    BY <2>1, <2>2
<1>2. Max({a, b}) \in {a, b} /\ \A y \in {a, b} : Max({a, b}) >= y
  BY <1>1 DEF Max
<1>3. \E x \in {a, b} : \A y \in {a, b} : x <= y
  <2>1. a <= b \/ b <= a
    OBVIOUS
  <2>2. a <= a /\ b <= b
    OBVIOUS
  <2> QED
    BY <2>1, <2>2
<1>4. Min({a, b}) \in {a, b} /\ \A y \in {a, b} : Min({a, b}) <= y
  BY <1>3 DEF Min
<1> QED
  BY <1>2, <1>4

\* Clamp is the number itself where it lies between the bounds.
LEMMA ClampFacts ==
    ASSUME NEW n \in Int, NEW lo \in Int, NEW hi \in Int, lo <= hi
    PROVE  Clamp(n, lo, hi) = IF n >= hi THEN hi ELSE IF n <= lo THEN lo ELSE n
<1>1. Min({hi, n}) = IF hi <= n THEN hi ELSE n
  BY OfTwo
<1> DEFINE m == Min({hi, n})
<1>2. m \in Int
  BY <1>1
<1> HIDE DEF m
<1>3. Max({lo, m}) = IF lo >= m THEN lo ELSE m
  BY <1>2, OfTwo
<1>4. Clamp(n, lo, hi) = Max({lo, m})
  BY DEF Clamp, m
<1>5. m = IF hi <= n THEN hi ELSE n
  BY <1>1 DEF m
<1> QED
  BY <1>3, <1>4, <1>5

\* The score of a capped total: 60 or more from three points up, 40 or less from
\* three points down.
LEMMA ScoreOfTotal ==
    ASSUME NEW total \in -5 .. 5
    PROVE  /\ (500 + 34 * total + 5) \div 10 >= 60 <=> total >= 3
           /\ (500 + 34 * total + 5) \div 10 <= 40 <=> total <= -3
<1>1. total \in {-5, -4, -3, -2, -1, 0, 1, 2, 3, 4, 5}
  OBVIOUS
<1> QED
  BY <1>1

-----------------------------------------------------------------------------
(* AnalysisRules: evidence *)

LEMMA ImpactFacts == \A known : \A x \in Impact(known, {-1, 0, 1}) : x \in -1 .. 1
BY DEF Impact

LEMMA PrimaryFacts ==
    ASSUME NEW p, NEW ratio
    PROVE  /\ MaStructure(p) \in -2 .. 2 /\ SupportResistance(p) \in -2 .. 2
           /\ AtrPrimaryRisk(p) \in -2 .. 2 /\ VolumeRatioSignal(ratio) \in -2 .. 2
<1>1. MaStructure(p) \in -2 .. 2
  BY DEF MaStructure
<1>2. SupportResistance(p) \in -2 .. 2
  BY DEF SupportResistance
<1>3. AtrPrimaryRisk(p) \in -2 .. 2
  BY DEF AtrPrimaryRisk
<1>4. VolumeRatioSignal(ratio) \in -2 .. 2
  BY DEF VolumeRatioSignal
<1> QED
  BY <1>1, <1>2, <1>3, <1>4

LEMMA RiskFacts ==
    ASSUME NEW close, NEW ma20, NEW rsi, NEW band
    PROVE  /\ RsiState(rsi) \in -2 .. 0 /\ BiasState(close, ma20) \in -2 .. 0
           /\ BollingerState(close, band, rsi) \in -2 .. 0
<1>1. RsiState(rsi) \in -2 .. 0
  BY DEF RsiState
<1>2. BiasState(close, ma20) \in -2 .. 0
  BY DEF BiasState
<1>3. BollingerState(close, band, rsi) \in -2 .. 0
  BY DEF BollingerState
<1> QED
  BY <1>1, <1>2, <1>3

Labels == {"none", "neutral", "distribution", "retail_chasing", "institutional_accumulation"}
LEMMA LabelFacts == \A tape, net : FlowLabel(tape) \in Labels /\ OneDayLabel(net) \in Labels
BY DEF FlowLabel, OneDayLabel, Labels

\* The bearish signal is three points down, whatever the history.
LEMMA BearishTotal ==
    ASSUME NEW t, NEW bars, t.primary \in -3 .. 3, t.risk \in -3 .. 0, t.secondary \in -1 .. 1,
           TechnicalSignal(t, bars) = "bearish"
    PROVE  t.primary + t.risk + t.secondary <= -3
<1> DEFINE sum == t.primary + t.risk + t.secondary
<1>1. sum \in Int
  OBVIOUS
<1> HIDE DEF sum
<1>2. CappedTotal(t) = IF sum >= 5 THEN 5 ELSE IF sum <= -5 THEN -5 ELSE sum
  BY <1>1, ClampFacts DEF CappedTotal, sum
<1>3. CappedTotal(t) \in -5 .. 5
  BY <1>1, <1>2
<1>4. TechnicalScore(t) <= 40
  BY DEF TechnicalSignal
<1>5. CappedTotal(t) <= -3
  BY <1>3, <1>4, ScoreOfTotal DEF TechnicalScore
<1>6. sum <= -3
  BY <1>1, <1>2, <1>5
<1> QED
  BY <1>6 DEF sum

LEMMA BullishOrNot ==
    ASSUME NEW t, NEW bars
    PROVE  TechnicalSignal(t, bars) \in {"bullish", "bearish", "sideways"}
BY DEF TechnicalSignal

\* What the score makes of the flow and the signal.
LEMMA ConfidenceFacts ==
    ASSUME NEW label \in Labels, NEW signal \in {"bullish", "bearish", "sideways"}
    PROVE  LET confidence == Clamp(50 + FlowPoints(label) + SignalPoints(signal), 0, 100)
           IN  /\ confidence \in 0 .. 62
               /\ confidence >= 60 => label = "institutional_accumulation" /\ signal = "bullish"
<1>1. FlowPoints(label) \in {7, -10, -8, 0} /\ SignalPoints(signal) \in {5, -5, 0}
  BY DEF FlowPoints, SignalPoints
<1> DEFINE n == 50 + FlowPoints(label) + SignalPoints(signal)
<1>2. n \in 35 .. 62 /\ n \in Int
  BY <1>1
<1>3. n >= 60 => FlowPoints(label) = 7 /\ SignalPoints(signal) = 5
  BY <1>1
<1>4. FlowPoints(label) = 7 => label = "institutional_accumulation"
  BY DEF FlowPoints
<1>5. SignalPoints(signal) = 5 => signal = "bullish"
  BY DEF SignalPoints
<1> HIDE DEF n
<1>6. Clamp(n, 0, 100) = n
  <2>1. Clamp(n, 0, 100) = IF n >= 100 THEN 100 ELSE IF n <= 0 THEN 0 ELSE n
    BY <1>2, ClampFacts
  <2> QED
    BY <1>2, <2>1
<1>7. /\ Clamp(n, 0, 100) \in 0 .. 62
      /\ Clamp(n, 0, 100) >= 60 => label = "institutional_accumulation" /\ signal = "bullish"
  BY <1>2, <1>3, <1>4, <1>5, <1>6
<1> QED
  BY <1>7 DEF n

-----------------------------------------------------------------------------
(* AnalysisRules: the inductive invariant *)

TechFields == {"primary", "risk", "secondary", "alert", "aligned", "rsi", "close", "ma20"}

\* The score on hand is that of the evidence on hand.
ScoreIsOfEvidence ==
    /\ score.signal = TechnicalSignal(tech, history.bars)
    /\ score.confidence
         = Clamp(50 + FlowPoints(inst.flow_label) + SignalPoints(score.signal), 0, 100)

AnalysisIInv ==
    /\ AnalysisTypeOK /\ DOMAIN tech = TechFields
    /\ NoUnfinishedBar
    /\ phase \in {"strategy", "done"} => ScoreIsOfEvidence
    /\ plan = IF phase = "done" THEN ActionPlan(Strategy) ELSE NoPlan

LEMMA AnalysisInitHolds == AnalysisInit => AnalysisIInv
<1> SUFFICES ASSUME AnalysisInit PROVE AnalysisIInv
  OBVIOUS
<1>1. AnalysisTypeOK
  BY DEF AnalysisInit, AnalysisTypeOK, FlowError, FlowReading, NoTech, NoScore, NoPlan
<1>2. DOMAIN tech = TechFields
  BY DEF AnalysisInit, NoTech, TechFields
<1>3. NoUnfinishedBar
  BY DEF AnalysisInit, NoUnfinishedBar
<1> QED
  BY <1>1, <1>2, <1>3 DEF AnalysisInit, AnalysisIInv

\* Whatever a provider answers, or none, the profile starts from its flow.
LEMMA FetchedStep ==
    ASSUME AnalysisIInv, NEW flow, flow.flow_label \in Labels, phase = "flow", Fetched(flow)
    PROVE  AnalysisIInv'
<1>1. /\ inst' = flow /\ phase' = "history" /\ UNCHANGED <<ask, history, tech, score, plan>>
  BY DEF Fetched
<1>2. AnalysisTypeOK' /\ DOMAIN tech' = TechFields
  BY <1>1 DEF AnalysisIInv, AnalysisTypeOK, Labels
<1>3. NoUnfinishedBar'
  BY <1>1 DEF AnalysisIInv, NoUnfinishedBar
<1> QED
  BY <1>1, <1>2, <1>3 DEF AnalysisIInv

LEMMA RouterStep ==
    ASSUME AnalysisIInv,
           \/ FetchFinMind \/ FetchOneDay \/ RenewToken \/ ProviderFails \/ AllProvidersFailed
    PROVE  AnalysisIInv'
<1>1. CASE FetchFinMind
  <2>1. PICK tape \in Tapes : Fetched(FlowReading(FlowLabel(tape), FlowStrength(tape),
                                          DominantActor(tape, 1), DominantActor(tape, -1)))
    BY <1>1 DEF FetchFinMind
  <2>2. FlowReading(FlowLabel(tape), FlowStrength(tape), DominantActor(tape, 1),
             DominantActor(tape, -1)).flow_label = FlowLabel(tape)
    BY DEF FlowReading
  <2> QED
    BY <1>1, <2>1, <2>2, LabelFacts, FetchedStep DEF FetchFinMind
<1>2. CASE FetchOneDay
  <2>1. PICK row \in OneDayRows : Fetched(FlowReading(OneDayLabel(OneDayNet(row)), "none", "none", "none"))
    BY <1>2 DEF FetchOneDay
  <2>2. FlowReading(OneDayLabel(OneDayNet(row)), "none", "none", "none").flow_label
          = OneDayLabel(OneDayNet(row))
    BY DEF FlowReading
  <2> QED
    BY <1>2, <2>1, <2>2, LabelFacts, FetchedStep DEF FetchOneDay
<1>3. CASE RenewToken \/ ProviderFails
  <2>1. UNCHANGED <<ask, phase, inst, history, tech, score, plan>> /\ phase = "flow"
    BY <1>3 DEF RenewToken, ProviderFails
  <2>2. AnalysisTypeOK' /\ DOMAIN tech' = TechFields
    BY <2>1 DEF AnalysisIInv, AnalysisTypeOK
  <2>3. NoUnfinishedBar'
    BY <2>1 DEF AnalysisIInv, NoUnfinishedBar
  <2> QED
    BY <2>1, <2>2, <2>3 DEF AnalysisIInv
<1>4. CASE AllProvidersFailed
  <2>1. FlowError.flow_label \in Labels
    BY DEF FlowError, FlowReading, Labels
  <2> QED
    BY <1>4, <2>1, FetchedStep DEF AllProvidersFailed
<1> QED
  BY <1>1, <1>2, <1>3, <1>4

\* The last bar is left out on its own day, and any later bar with all others.
LEMMA HistoryStep ==
    ASSUME AnalysisAssumption, AnalysisIInv, PreprocessHistory
    PROVE  AnalysisIInv'
<1>1. PICK h \in Histories :
        history' = [h EXCEPT !.levels = PriceLevelBars(h, ask.final),
                             !.temporal = TemporalBars(h, ask.final)]
  BY DEF PreprocessHistory
<1>2. phase = "history" /\ phase' = "secondary" /\ UNCHANGED <<ask, inst, tech, score, plan>>
  BY DEF PreprocessHistory
<1>3. /\ history'.bars = h.bars /\ history'.last = h.last /\ h.last \in Int
      /\ history'.levels = PriceLevelBars(h, ask.final)
      /\ history'.temporal = TemporalBars(h, ask.final)
  BY <1>1 DEF AnalysisAssumption, HistoriesAssumption, HistoryFields
<1>4. NoUnfinishedBar'
  <2>1. ASSUME ~ask.final, NEW used \in {PriceLevelBars(h, ask.final), TemporalBars(h, ask.final)},
               used > 0
        PROVE  \/ used = h.bars /\ h.last < 0
               \/ used = h.bars - 1 /\ h.last = 0
    <3>1. ~(0 > 0)
      OBVIOUS
    <3>2. Dated(h)
      BY <2>1, <3>1 DEF PriceLevelBars, TemporalBars
    <3>3. h.last <= 0
      BY <3>2 DEF Dated
    <3>4. used = IF h.last = 0 THEN h.bars - 1 ELSE h.bars
      BY <2>1, <3>1 DEF PriceLevelBars, TemporalBars
    <3> QED
      BY <1>3, <3>3, <3>4
  <2> QED
    BY <1>2, <1>3, <2>1 DEF NoUnfinishedBar
<1>5. AnalysisTypeOK' /\ DOMAIN tech' = TechFields
  BY <1>2 DEF AnalysisIInv, AnalysisTypeOK
<1> QED
  BY <1>2, <1>4, <1>5 DEF AnalysisIInv

\* The parts of the profile each fill in their own evidence, within its bounds.
LEMMA ProfileStep ==
    ASSUME AnalysisIInv, SecondaryEvidence \/ PrimaryEvidence \/ RiskFilters
    PROVE  AnalysisIInv'
<1>1. /\ UNCHANGED <<ask, inst, history, score, plan>>
      /\ phase \in {"secondary", "primary", "risk"} /\ phase' \in {"primary", "risk", "score"}
  BY DEF SecondaryEvidence, PrimaryEvidence, RiskFilters
<1>2. DOMAIN tech' = TechFields /\ tech'.primary \in -3 .. 3 /\ tech'.risk \in -3 .. 0
      /\ tech'.secondary \in -1 .. 1
  <2>0. /\ DOMAIN tech = TechFields /\ tech.primary \in -3 .. 3 /\ tech.risk \in -3 .. 0
        /\ tech.secondary \in -1 .. 1
    BY DEF AnalysisIInv, AnalysisTypeOK
  <2>1. CASE SecondaryEvidence
    <3>1. PICK adx \in -1 .. 1, donchian \in -1 .. 1, mfi \in -1 .. 1, kd \in -1 .. 1 :
            tech' = [tech EXCEPT !.secondary = Clamp(adx + donchian + mfi + kd, -1, 1)]
      BY <2>1, ImpactFacts DEF SecondaryEvidence
    <3>2. PICK n \in Int : n = adx + donchian + mfi + kd
      OBVIOUS
    <3>3. Clamp(n, -1, 1) \in -1 .. 1
      <4>1. Clamp(n, -1, 1) = IF n >= 1 THEN 1 ELSE IF n <= -1 THEN -1 ELSE n
        BY ClampFacts
      <4> QED
        BY <4>1
    <3> QED
      BY <2>0, <3>1, <3>2, <3>3 DEF TechFields
  <2>2. CASE PrimaryEvidence
    <3>1. PICK n \in Int : \E aligned, close, ma20 :
            tech' = [tech EXCEPT !.primary = PrimaryCap(n), !.aligned = aligned,
                                 !.close = close, !.ma20 = ma20]
      <4>0. PICK level \in Levels : \E p \in {Shown(level)} :
               \E ratio \in (IF history.volumes THEN {At(20, r) : r \in Ratios} ELSE {Missing}),
                  momentum \in Impact(history.bars >= 35, {-1, 0, 1}),
                  obv \in Impact(history.volumes /\ history.bars >= 2, {-1, 0, 1}) :
              tech' = [tech EXCEPT
                 !.primary = PrimaryCap(MaStructure(p) + SupportResistance(p) + AtrPrimaryRisk(p)
                                        + VolumeRatioSignal(ratio) + momentum + obv),
                 !.aligned = Known(p.ma5) /\ Known(p.ma20) /\ p.bar > p.ma5 /\ p.ma5 > p.ma20,
                 !.close = p.close, !.ma20 = p.ma20]
        BY <2>2, Zenon DEF PrimaryEvidence
      <4>1. PICK p \in {Shown(level)},
                 ratio \in (IF history.volumes THEN {At(20, r) : r \in Ratios} ELSE {Missing}),
                 momentum \in Impact(history.bars >= 35, {-1, 0, 1}),
                 obv \in Impact(history.volumes /\ history.bars >= 2, {-1, 0, 1}) :
              tech' = [tech EXCEPT
                 !.primary = PrimaryCap(MaStructure(p) + SupportResistance(p) + AtrPrimaryRisk(p)
                                        + VolumeRatioSignal(ratio) + momentum + obv),
                 !.aligned = Known(p.ma5) /\ Known(p.ma20) /\ p.bar > p.ma5 /\ p.ma5 > p.ma20,
                 !.close = p.close, !.ma20 = p.ma20]
        BY <4>0, Zenon
      <4>3. momentum \in -1 .. 1 /\ obv \in -1 .. 1
        BY ImpactFacts
      <4>2. MaStructure(p) + SupportResistance(p) + AtrPrimaryRisk(p)
              + VolumeRatioSignal(ratio) + momentum + obv \in Int
        BY <4>3, PrimaryFacts
      <4> QED
        BY <4>1, <4>2
    <3>2. PrimaryCap(n) \in -3 .. 3
      <4>1. PrimaryCap(n) = IF n >= 3 THEN 3 ELSE IF n <= -3 THEN -3 ELSE n
        BY ClampFacts DEF PrimaryCap
      <4> QED
        BY <4>1
    <3> QED
      BY <2>0, <3>1, <3>2 DEF TechFields
  <2>3. CASE RiskFilters
    <3>1. PICK n \in Int : \E alert, rsi :
            tech' = [tech EXCEPT !.risk = Clamp(n, -3, 0), !.alert = alert, !.rsi = rsi,
                                 !.close = Missing, !.ma20 = Missing]
      <4>1. PICK rsi \in {At(15, r) : r \in RsiValues},
                 band \in (IF history.bars >= 20 THEN Bands ELSE {<<Missing, Missing>>}),
                 atr \in Impact(history.aligned /\ history.bars >= 15, {0, -2}) :
              \E bollinger \in {BollingerState(tech.close, band, rsi)} :
                 tech' = [tech EXCEPT
                   !.risk = Clamp(RsiState(rsi) + BiasState(tech.close, tech.ma20) + bollinger + atr,
                                  -3, 0),
                   !.alert = bollinger <= -2,
                   !.rsi = rsi, !.close = Missing, !.ma20 = Missing]
        BY <2>3, Zenon DEF RiskFilters
      <4>3. PICK bollinger \in {BollingerState(tech.close, band, rsi)} :
                 tech' = [tech EXCEPT
                   !.risk = Clamp(RsiState(rsi) + BiasState(tech.close, tech.ma20) + bollinger + atr,
                                  -3, 0),
                   !.alert = bollinger <= -2,
                   !.rsi = rsi, !.close = Missing, !.ma20 = Missing]
        BY <4>1
      <4>4. atr \in {0, -2} /\ bollinger \in -2 .. 0
        BY <4>3, RiskFacts DEF Impact
      <4>2. RsiState(rsi) + BiasState(tech.close, tech.ma20) + bollinger + atr \in Int
        BY <4>4, RiskFacts
      <4> QED
        BY <4>2, <4>3
    <3>2. Clamp(n, -3, 0) \in -3 .. 0
      <4>1. Clamp(n, -3, 0) = IF n >= 0 THEN 0 ELSE IF n <= -3 THEN -3 ELSE n
        BY ClampFacts
      <4> QED
        BY <4>1
    <3> QED
      BY <2>0, <3>1, <3>2 DEF TechFields
  <2> QED
    BY <2>1, <2>2, <2>3
<1>3. AnalysisTypeOK'
  BY <1>1, <1>2 DEF AnalysisIInv, AnalysisTypeOK
<1>4. NoUnfinishedBar'
  BY <1>1 DEF AnalysisIInv, NoUnfinishedBar
<1> QED
  BY <1>1, <1>2, <1>3, <1>4 DEF AnalysisIInv

LEMMA ScoreStep ==
    ASSUME AnalysisIInv, ScoreNode
    PROVE  AnalysisIInv'
<1>1. /\ phase = "score" /\ phase' = "strategy" /\ UNCHANGED <<ask, inst, history, tech, plan>>
  BY DEF ScoreNode
<1> DEFINE signal == TechnicalSignal(tech, history.bars)
           confidence == Clamp(50 + FlowPoints(inst.flow_label) + SignalPoints(signal), 0, 100)
<1>2. /\ score'.signal = signal /\ score'.confidence = confidence
      /\ score'.data = 50 * ((IF inst = FlowError THEN 0 ELSE 1)
                                + (IF history.bars >= 20 THEN 1 ELSE 0))
  <2> HIDE DEF signal, confidence
  <2> QED
    BY DEF ScoreNode, signal, confidence
<1>3. inst.flow_label \in Labels
  BY DEF AnalysisIInv, AnalysisTypeOK, Labels
<1>4. confidence \in 0 .. 100
  <2>1. confidence \in 0 .. 62
    BY <1>3, BullishOrNot, ConfidenceFacts
  <2> HIDE DEF confidence
  <2> QED
    BY <2>1
<1>5. score'.data \in {0, 50, 100}
  BY <1>2
<1>6. AnalysisTypeOK' /\ DOMAIN tech' = TechFields
  <2> HIDE DEF confidence
  <2> QED
    BY <1>1, <1>2, <1>4, <1>5 DEF AnalysisIInv, AnalysisTypeOK
<1>7. NoUnfinishedBar'
  BY <1>1 DEF AnalysisIInv, NoUnfinishedBar
<1>8. ScoreIsOfEvidence'
  BY <1>1, <1>2 DEF ScoreIsOfEvidence
<1> QED
  BY <1>1, <1>6, <1>7, <1>8 DEF AnalysisIInv

LEMMA StrategyStep ==
    ASSUME AnalysisIInv, StrategyNode
    PROVE  AnalysisIInv'
<1>1. /\ phase = "strategy" /\ phase' = "done" /\ UNCHANGED <<ask, inst, history, tech, score>>
      /\ plan' = ActionPlan(Strategy)
  BY DEF StrategyNode
<1>0. UNCHANGED <<ask, inst, tech, score>>
  BY DEF StrategyNode
<1>2. ActionPlan(Strategy)' = ActionPlan(Strategy)
  BY <1>0 DEF ActionPlan, Strategy, EvidenceTotal, FlowEvidence, Conviction, PositionSize, ActionPlanTag
<1>3. AnalysisTypeOK' /\ DOMAIN tech' = TechFields
  <2>1. plan'.strategy \in {"defensive_wait", "short_term", "mid_term"}
    BY <1>1 DEF ActionPlan, Strategy
  <2> QED
    BY <1>1, <2>1 DEF AnalysisIInv, AnalysisTypeOK
<1>4. NoUnfinishedBar'
  BY <1>1 DEF AnalysisIInv, NoUnfinishedBar
<1>5. ScoreIsOfEvidence'
  BY <1>1 DEF AnalysisIInv, ScoreIsOfEvidence
<1> QED
  BY <1>1, <1>2, <1>3, <1>4, <1>5 DEF AnalysisIInv

LEMMA AnalysisStepHolds ==
    ASSUME AnalysisAssumption PROVE AnalysisIInv /\ [AnalysisNext]_analysisVars => AnalysisIInv'
<1> SUFFICES ASSUME AnalysisIInv, [AnalysisNext]_analysisVars PROVE AnalysisIInv'
  OBVIOUS
<1>1. CASE UNCHANGED analysisVars
  <2>1. UNCHANGED <<ask, phase, inst, history, tech, score, plan>>
    BY <1>1 DEF analysisVars
  <2>2. AnalysisTypeOK' /\ DOMAIN tech' = TechFields
    BY <2>1 DEF AnalysisIInv, AnalysisTypeOK
  <2>3. NoUnfinishedBar' /\ (phase' \in {"strategy", "done"} => ScoreIsOfEvidence')
    BY <2>1 DEF AnalysisIInv, NoUnfinishedBar, ScoreIsOfEvidence
  <2>4. ActionPlan(Strategy)' = ActionPlan(Strategy)
    BY <2>1 DEF ActionPlan, Strategy, EvidenceTotal, FlowEvidence, Conviction, PositionSize, ActionPlanTag
  <2> QED
    BY <2>1, <2>2, <2>3, <2>4 DEF AnalysisIInv
<1> QED
  BY <1>1, RouterStep, HistoryStep, ProfileStep, ScoreStep, StrategyStep DEF AnalysisNext

-----------------------------------------------------------------------------
(* AnalysisRules: theorems *)

\* The evidence stays within its bounds, the score on hand is that of the
\* evidence, and the plan of a finished analysis is drawn from both.
THEOREM AnalysisSafe == ASSUME AnalysisAssumption PROVE AnalysisSpec => []AnalysisIInv
<1>1. AnalysisInit => AnalysisIInv
  BY AnalysisInitHolds
<1>2. AnalysisIInv /\ [AnalysisNext]_analysisVars => AnalysisIInv'
  BY AnalysisStepHolds
<1> QED
  BY <1>1, <1>2, PTL DEF AnalysisSpec

\* The flow adds at most four points of evidence, and takes some where the
\* institutions sell.
LEMMA FlowFacts ==
    /\ FlowEvidence \in -4 .. 4
    /\ inst.flow_label \in {"distribution", "retail_chasing"} => FlowEvidence < 0
<1>1. FlowEvidence \in -4 .. 4
  BY DEF FlowEvidence
<1>2. inst.flow_label \in {"distribution", "retail_chasing"} => FlowEvidence < 0
  BY DEF FlowEvidence
<1> QED
  BY <1>1, <1>2

\* What a finished analysis recommends, read off its plan.
LEMMA PlanFacts ==
    ASSUME AnalysisIInv, phase = "done"
    PROVE  /\ plan.strategy = Strategy /\ plan.conviction = Conviction(Strategy)
           /\ plan.size = PositionSize(Strategy, Conviction(Strategy)) /\ plan.tag = ActionPlanTag
           /\ Strategy \in {"defensive_wait", "short_term", "mid_term"}
           /\ Conviction(Strategy) \in {"low", "medium", "high"}
           /\ score.signal = TechnicalSignal(tech, history.bars)
           /\ score.signal \in {"bullish", "bearish", "sideways"}
           /\ score.confidence \in 0 .. 62
           /\ score.confidence >= 60 =>
                inst.flow_label = "institutional_accumulation" /\ score.signal = "bullish"
<1>1. plan = ActionPlan(Strategy) /\ ScoreIsOfEvidence /\ inst.flow_label \in Labels
  BY DEF AnalysisIInv, AnalysisTypeOK, Labels
<1>2. /\ plan.strategy = Strategy /\ plan.conviction = Conviction(Strategy)
      /\ plan.size = PositionSize(Strategy, Conviction(Strategy)) /\ plan.tag = ActionPlanTag
  BY <1>1 DEF ActionPlan
<1>3. Strategy \in {"defensive_wait", "short_term", "mid_term"}
  BY DEF Strategy
<1>4. Conviction(Strategy) \in {"low", "medium", "high"}
  BY DEF Conviction
<1>5. score.signal = TechnicalSignal(tech, history.bars)
      /\ score.signal \in {"bullish", "bearish", "sideways"}
  BY <1>1, BullishOrNot DEF ScoreIsOfEvidence
<1>6. /\ score.confidence \in 0 .. 62
      /\ score.confidence >= 60 =>
           inst.flow_label = "institutional_accumulation" /\ score.signal = "bullish"
  BY <1>1, <1>5, ConfidenceFacts DEF ScoreIsOfEvidence
<1> QED
  BY <1>2, <1>3, <1>4, <1>5, <1>6

LEMMA BearishHolds == AnalysisIInv => BearishNeverBuys
<1> SUFFICES ASSUME AnalysisIInv, phase = "done", score.signal = "bearish"
             PROVE  plan.strategy = "defensive_wait"
  BY DEF BearishNeverBuys
<1>1. /\ tech.primary \in -3 .. 3 /\ tech.risk \in -3 .. 0 /\ tech.secondary \in -1 .. 1
  BY DEF AnalysisIInv, AnalysisTypeOK
<1>2. tech.primary + tech.risk + tech.secondary <= -3
  BY <1>1, PlanFacts, BearishTotal
<1>3. EvidenceTotal < 2
  BY <1>1, <1>2, FlowFacts DEF EvidenceTotal
<1>4. EvidenceTotal \in Int
  BY <1>1, FlowFacts DEF EvidenceTotal
<1>5. ~(EvidenceTotal >= 2) /\ ~(EvidenceTotal >= 4)
  BY <1>3, <1>4
<1> QED
  BY <1>5, PlanFacts DEF Strategy

LEMMA ConvictionHolds == AnalysisIInv => ConvictionIsCorroborated
<1> SUFFICES ASSUME AnalysisIInv PROVE ConvictionIsCorroborated
  OBVIOUS
<1>1. CASE phase # "done"
  <2>1. plan.conviction = "none"
    BY <1>1 DEF AnalysisIInv, NoPlan
  <2> QED
    BY <2>1 DEF ConvictionIsCorroborated
<1>2. CASE phase = "done"
  <2>1. score.data \in {0, 50, 100}
    BY DEF AnalysisIInv, AnalysisTypeOK
  <2>2. ASSUME plan.conviction \in {"medium", "high"}
        PROVE  /\ inst.flow_label = "institutional_accumulation"
               /\ score.signal = "bullish" /\ score.data = 100
    <3>1. ~(score.confidence < 60) /\ ~(score.data < 60)
      BY <1>2, <2>2, PlanFacts DEF Conviction
    <3>2. score.confidence >= 60 /\ score.data = 100
      BY <1>2, <2>1, <3>1, PlanFacts
    <3> QED
      BY <1>2, <3>2, PlanFacts
  <2>3. ASSUME plan.conviction = "high"
        PROVE  tech.aligned /\ ask.final /\ plan.size = "20-30%"
    <3>1. Conviction(Strategy) = "high"
      BY <1>2, <2>3, PlanFacts
    <3>2. Strategy = "mid_term" /\ ask.final
      BY <3>1 DEF Conviction
    <3>3. tech.aligned
      BY <3>2 DEF Strategy
    <3>4. plan.size = "20-30%"
      BY <1>2, <3>1, <3>2, PlanFacts DEF PositionSize
    <3> QED
      BY <3>2, <3>3, <3>4
  <2> QED
    BY <2>2, <2>3 DEF ConvictionIsCorroborated
<1> QED
  BY <1>1, <1>2

LEMMA SellingHolds == AnalysisIInv => SellingIsOnlyProbed
<1> SUFFICES ASSUME AnalysisIInv, inst.flow_label \in {"distribution", "retail_chasing"},
                    phase = "done"
             PROVE  /\ plan.strategy # "mid_term" /\ plan.conviction = "low"
                    /\ plan.size \in {"0%", "10%", "wait for the close"}
  BY DEF SellingIsOnlyProbed
<1>1. ~(FlowEvidence > 0)
  BY FlowFacts
<1>2. Strategy # "mid_term"
  BY <1>1 DEF Strategy
<1>3. score.confidence < 60
  BY PlanFacts
<1>4. Conviction(Strategy) = "low"
  BY <1>3 DEF Conviction
<1>5. PositionSize(Strategy, Conviction(Strategy)) \in {"0%", "10%", "wait for the close"}
  BY <1>4 DEF PositionSize
<1> QED
  BY <1>2, <1>4, <1>5, PlanFacts

LEMMA TagHolds == AnalysisIInv => OpportunityIsDead
<1> SUFFICES ASSUME AnalysisIInv PROVE plan.tag # "opportunity"
  BY DEF OpportunityIsDead
<1>1. CASE phase # "done"
  BY <1>1 DEF AnalysisIInv, NoPlan
<1>2. CASE phase = "done"
  <2>1. ~(score.confidence > 70)
    BY <1>2, PlanFacts
  <2> QED
    BY <1>2, <2>1, PlanFacts DEF ActionPlanTag
<1> QED
  BY <1>1, <1>2

\* PlansAreJustified (analysis/strategy_generator.py, analysis/confidence_scorer.py and
\* technical/profile.py): whatever the sources answer, the levels leave out the
\* bar of an unfinished day, no plan buys on a bearish signal, conviction rests
\* on accumulation, a bullish signal and whole data, selling is only probed, and
\* the opportunity tag is dead.
THEOREM PlansJustified == ASSUME AnalysisAssumption PROVE AnalysisSpec => []PlansAreJustified
<1>1. AnalysisIInv => PlansAreJustified
  BY BearishHolds, ConvictionHolds, SellingHolds, TagHolds DEF PlansAreJustified, AnalysisIInv
<1> QED
  BY <1>1, AnalysisSafe, PTL

-----------------------------------------------------------------------------
(* DailyAvwap: sums and least elements *)

\* A nonempty set of natural numbers has a least element.
LEMMA LeastNat ==
    ASSUME NEW T \in SUBSET Nat, T # {}
    PROVE  \E x \in T : \A y \in T : x <= y
<1>1. PICK x \in T : \A y \in T : ~(<<y, x>> \in OpToRel(<, Nat))
  BY WFMin, NatLessThanWellFounded
<1>2. ASSUME NEW y \in T PROVE x <= y
  <2>1. x \in Nat /\ y \in Nat
    OBVIOUS
  <2>2. ~(y < x)
    BY <1>1, <2>1, Zenon DEF OpToRel
  <2> QED
    BY <2>1, <2>2
<1> QED
  BY <1>2

\* The element a sum takes next.
Taken(t) == CHOOSE x \in t : TRUE

\* g gives the sums of F over the parts of S that are in P.
Sums(P, F, g) ==
    g = [t \in P |-> IF t = {} THEN 0 ELSE F[Taken(t)] + g[t \ {Taken(t)}]]

\* The part of a finite set that is left when one element is taken.
LEMMA TakenLess ==
    ASSUME NEW S, IsFiniteSet(S), NEW t \in SUBSET S, t # {}
    PROVE  /\ IsFiniteSet(t) /\ Cardinality(t) \in Nat \ {0}
           /\ Taken(t) \in t /\ t \ {Taken(t)} \in SUBSET S
           /\ Cardinality(t \ {Taken(t)}) = Cardinality(t) - 1
<1>1. Taken(t) \in t
  BY DEF Taken
<1>2. IsFiniteSet(t) /\ Cardinality(t) \in Nat
  BY FS_Subset, FS_CardinalityType
<1>3. Cardinality(t) # 0
  BY <1>2, FS_EmptySet
<1>4. Cardinality(t \ {Taken(t)}) = Cardinality(t) - 1
  BY <1>1, <1>2, FS_RemoveElement
<1> QED
  BY <1>1, <1>2, <1>3, <1>4

\* There is a function that gives the sums over all parts of a finite set: those
\* of parts of at most n elements for every n, or there were a least n without.
LEMMA SumsExist ==
    ASSUME NEW S, IsFiniteSet(S), NEW F
    PROVE  \E g : Sums(SUBSET S, F, g)
<1> DEFINE Parts(n) == {t \in SUBSET S : Cardinality(t) <= n}
           Bad == {n \in Nat : ~ \E g : Sums(Parts(n), F, g)}
<1>0. \A t \in SUBSET S : IsFiniteSet(t) /\ Cardinality(t) \in Nat
  BY FS_Subset, FS_CardinalityType
<1>1. Bad = {}
  <2> SUFFICES ASSUME Bad # {} PROVE FALSE
    OBVIOUS
  <2>1. PICK m \in Bad : \A n \in Bad : m <= n
    BY LeastNat
  <2>2. CASE m = 0
    <3> DEFINE g == [t \in Parts(0) |-> 0]
    <3>1. ASSUME NEW t \in Parts(0) PROVE t = {}
      <4>1. Cardinality(t) = 0
        BY <1>0
      <4> QED
        BY <4>1, <1>0, FS_EmptySet
    <3>2. Sums(Parts(0), F, g)
      BY <3>1 DEF Sums
    <3> QED
      BY <2>2, <3>2
  <2>3. CASE m # 0
    <3>0. Bad \subseteq Nat
      OBVIOUS
    <3>1. m - 1 \in Nat /\ m - 1 \notin Bad
      <4> HIDE DEF Bad
      <4> QED
        BY <2>1, <2>3, <3>0
    <3>2. PICK h : Sums(Parts(m - 1), F, h)
      BY <3>1
    <3> DEFINE g == [t \in Parts(m) |-> IF t = {} THEN 0 ELSE F[Taken(t)] + h[t \ {Taken(t)}]]
    <3>3. ASSUME NEW t \in Parts(m), t # {}
          PROVE  g[t \ {Taken(t)}] = h[t \ {Taken(t)}]
      <4> DEFINE u == t \ {Taken(t)}
      <4>1. u \in SUBSET S /\ Cardinality(u) <= m - 1 /\ Cardinality(u) \in Nat
        BY <3>3, <1>0, TakenLess
      <4>2. u \in Parts(m - 1) /\ u \in Parts(m)
        BY <4>1, <3>1
      <4> HIDE DEF u, Parts
      <4>3. h[u] = IF u = {} THEN 0 ELSE F[Taken(u)] + h[u \ {Taken(u)}]
        BY <3>2, <4>2 DEF Sums
      <4>4. g[u] = IF u = {} THEN 0 ELSE F[Taken(u)] + h[u \ {Taken(u)}]
        BY <4>2
      <4> QED
        BY <4>3, <4>4 DEF u
    <3>4. Sums(Parts(m), F, g)
      <4> HIDE DEF Parts
      <4> QED
        BY <3>3 DEF Sums
    <3> QED
      BY <2>1, <3>4
  <2> QED
    BY <2>2, <2>3
<1>2. Cardinality(S) \in Nat /\ Parts(Cardinality(S)) = SUBSET S
  BY <1>0, FS_Subset
<1> QED
  BY <1>1, <1>2

\* Sums over the parts of a set lie between what they lie between for each
\* element: v counts quantities, a what was paid for them.
LEMMA SumsBounded ==
    ASSUME NEW S, IsFiniteSet(S), NEW V, NEW A, NEW v, NEW a,
           Sums(SUBSET S, V, v), Sums(SUBSET S, A, a), NEW lo \in Int, NEW hi \in Int,
           \A x \in S : /\ V[x] \in Nat /\ A[x] \in Int
                        /\ lo * V[x] <= A[x] /\ A[x] <= hi * V[x]
    PROVE  /\ v[S] \in Nat /\ a[S] \in Int
           /\ lo * v[S] <= a[S] /\ a[S] <= hi * v[S]
<1> DEFINE Holds(t) == /\ v[t] \in Nat /\ a[t] \in Int
                       /\ lo * v[t] <= a[t] /\ a[t] <= hi * v[t]
           Bad == {n \in Nat : \E t \in SUBSET S : Cardinality(t) = n /\ ~Holds(t)}
<1>1. ASSUME NEW t \in SUBSET S, ~Holds(t)
      PROVE  \E u \in SUBSET S : ~Holds(u) /\ Cardinality(u) \in Nat /\ Cardinality(u) < Cardinality(t)
  <2>1. t # {}
    <3>1. v[{}] = 0 /\ a[{}] = 0
      BY DEF Sums
    <3>2. Holds({})
      BY <3>1
    <3> HIDE DEF Holds
    <3> QED
      BY <3>2, <1>1
  <2> DEFINE x == Taken(t)
             u == t \ {x}
  <2>2. /\ x \in S /\ u \in SUBSET S /\ Cardinality(t) \in Nat \ {0}
        /\ Cardinality(u) = Cardinality(t) - 1
    BY <2>1, TakenLess
  <2>3. v[t] = V[x] + v[u] /\ a[t] = A[x] + a[u]
    BY <2>1 DEF Sums
  <2>4. ASSUME Holds(u) PROVE Holds(t)
    <3>1. V[x] \in Nat /\ A[x] \in Int /\ lo * V[x] <= A[x] /\ A[x] <= hi * V[x]
      BY <2>2
    <3> HIDE DEF x, u
    <3>2. /\ lo * (V[x] + v[u]) = lo * V[x] + lo * v[u]
          /\ hi * (V[x] + v[u]) = hi * V[x] + hi * v[u]
      BY <3>1, <2>4
    <3>3. lo * V[x] \in Int /\ lo * v[u] \in Int /\ hi * V[x] \in Int /\ hi * v[u] \in Int
      BY <3>1, <2>4
    <3> QED
      BY <3>1, <3>2, <3>3, <2>3, <2>4
  <2>5. Cardinality(u) \in Nat /\ Cardinality(u) < Cardinality(t)
    <3> HIDE DEF u
    <3> QED
      BY <2>2
  <2> HIDE DEF Holds
  <2> QED
    BY <1>1, <2>2, <2>4, <2>5
<1>2. Bad = {}
  <2> SUFFICES ASSUME Bad # {} PROVE FALSE
    OBVIOUS
  <2>0. Bad \in SUBSET Nat
    OBVIOUS
  <2>1. PICK m \in Bad : \A n \in Bad : m <= n
    BY <2>0, LeastNat
  <2>2. PICK t \in SUBSET S : Cardinality(t) = m /\ ~Holds(t)
    BY <2>1
  <2>3. PICK u \in SUBSET S : ~Holds(u) /\ Cardinality(u) \in Nat /\ Cardinality(u) < m
    BY <1>1, <2>2
  <2> HIDE DEF Holds
  <2>4. Cardinality(u) \in Bad
    BY <2>3
  <2> QED
    BY <2>0, <2>1, <2>3, <2>4
<1>3. Cardinality(S) \in Nat
  BY FS_CardinalityType
<1> HIDE DEF Holds
<1>4. Holds(S)
  BY <1>2, <1>3
<1> QED
  BY <1>4 DEF Holds


-----------------------------------------------------------------------------
(* DailyAvwap: days and extremes *)

\* Sets of days are finite, hence have extremes.
LEMMA DaySets ==
    ASSUME AvwapAssumption
    PROVE  /\ Dates \subseteq Nat \ {0} /\ IsFiniteSet(Dates)
           /\ \A S \in SUBSET Dates : IsFiniteSet(S) /\ Cardinality(S) \in Nat
<1>1. PICK n \in Nat : Dates = 1..n
  BY FS_CardinalityType DEF AvwapAssumption, AvwapBounds
<1>2. IsFiniteSet(Dates)
  BY <1>1, FS_Interval
<1>3. Dates \subseteq Nat \ {0}
  BY <1>1
<1>4. \A S \in SUBSET Dates : IsFiniteSet(S) /\ Cardinality(S) \in Nat
  BY <1>2, FS_Subset, FS_CardinalityType
<1> QED
  BY <1>2, <1>3, <1>4

\* A finite set of integers, not empty, has a least element.
LEMMA LeastInt ==
    ASSUME NEW S \in SUBSET Int, IsFiniteSet(S), S # {}
    PROVE  \E x \in S : \A y \in S : x <= y
<1> DEFINE Below(x) == {y \in S : y < x}
           Counts == {Cardinality(Below(x)) : x \in S}
<1>1. \A x \in S : IsFiniteSet(Below(x)) /\ Cardinality(Below(x)) \in Nat
  BY FS_Subset, FS_CardinalityType
<1>2. PICK x \in S : \A y \in S : Cardinality(Below(x)) <= Cardinality(Below(y))
  <2>1. Counts \in SUBSET Nat /\ Counts # {}
    <3> HIDE DEF Below
    <3> QED
      BY <1>1
  <2>2. PICK k \in Counts : \A l \in Counts : k <= l
    <3> HIDE DEF Counts
    <3> QED
      BY <2>1, LeastNat
  <2> QED
    BY <2>2
<1>3. ASSUME NEW y \in S, ~(x <= y) PROVE FALSE
  <2>0. x \in Int /\ y \in Int /\ y < x
    BY <1>3
  <2>1. Below(y) \subseteq Below(x) \ {y} /\ y \in Below(x)
    <3>1. ASSUME NEW z \in Below(y) PROVE z \in Below(x) /\ z # y
      BY <2>0, z \in Int
    <3> QED
      BY <3>1, <2>0
  <2> HIDE DEF Below
  <2>2. Cardinality(Below(x) \ {y}) = Cardinality(Below(x)) - 1 /\ IsFiniteSet(Below(x) \ {y})
    BY <2>1, <1>1, FS_RemoveElement
  <2>3. Cardinality(Below(y)) <= Cardinality(Below(x) \ {y})
    BY <2>1, <2>2, FS_Subset
  <2> QED
    BY <1>1, <1>2, <2>2, <2>3
<1> QED
  BY <1>3

\* Such a set has extremes.
LEMMA ExtremesExist ==
    ASSUME NEW S \in SUBSET Int, IsFiniteSet(S), S # {}
    PROVE  /\ Min(S) \in S /\ \A x \in S : Min(S) <= x
           /\ Max(S) \in S /\ \A x \in S : x <= Max(S)
<1>1. \E x \in S : \A y \in S : x <= y
  BY LeastInt
<1>2. \E x \in S : \A y \in S : x >= y
  <2> DEFINE N == {-x : x \in S}
  <2>1. N \in SUBSET Int /\ N # {} /\ IsFiniteSet(N)
    <3> DEFINE neg == [x \in S |-> -x]
    <3>1. neg \in Surjection(S, N)
      BY DEF Surjection
    <3>2. IsFiniteSet(N)
      <4> HIDE DEF neg, N
      <4> QED
        BY <3>1, FS_Surjection
    <3>3. N \in SUBSET Int /\ N # {}
      OBVIOUS
    <3> QED
      BY <3>2, <3>3
  <2>2. PICK n \in N : \A y \in N : n <= y
    <3> HIDE DEF N
    <3> QED
      BY <2>1, LeastInt
  <2>3. PICK x \in S : n = -x
    BY <2>2
  <2>4. \A y \in S : -x <= -y
    BY <2>2, <2>3
  <2> QED
    BY <2>4
<1> QED
  BY <1>1, <1>2 DEF Min, Max

\* A set that has n days has n among its last n.
LEMMA LastAreEnough ==
    ASSUME AvwapAssumption, NEW S \in SUBSET Dates, NEW n \in Nat, Cardinality(S) >= n
    PROVE  LatestOf(n, S) \in SUBSET S /\ Cardinality(LatestOf(n, S)) >= n
<1> DEFINE L == LatestOf(n, S)
<1>1. L \in SUBSET S
  BY DEF LatestOf
<1>2. SUFFICES ASSUME Cardinality(L) < n PROVE FALSE
  BY <1>1, DaySets
<1>3. S \ L # {} /\ S \ L \in SUBSET Int /\ IsFiniteSet(S \ L)
  <2>1. S \ L # {}
    <3>1. S \ L = {} => L = S
      BY <1>1
    <3> HIDE DEF L
    <3> QED
      BY <3>1, <1>1, <1>2, DaySets
  <2> HIDE DEF L
  <2> QED
    BY <2>1, DaySets
<1> DEFINE m == Max(S \ L)
<1>4. m \in S \ L /\ \A x \in S \ L : x <= m
  <2> HIDE DEF L
  <2> QED
    BY <1>3, ExtremesExist
<1>5. {e \in S : e > m} \subseteq L
  <2> HIDE DEF L, m
  <2> QED
    BY <1>4, DaySets
<1>6. Cardinality({e \in S : e > m}) <= Cardinality(L)
  <2> HIDE DEF L, m
  <2> QED
    BY <1>1, <1>5, DaySets, FS_Subset
<1>7. m \in L
  <2>1. Cardinality({e \in S : e > m}) \in Nat /\ Cardinality(L) \in Nat
    BY <1>1, DaySets
  <2>2. Cardinality({e \in S : e > m}) < n
    BY <2>1, <1>6, <1>2
  <2> HIDE DEF m
  <2> QED
    BY <2>2, <1>4 DEF LatestOf
<1> QED
  BY <1>4, <1>7

-----------------------------------------------------------------------------
(* DailyAvwap: what is averaged *)

\* The volume and the amount of some days of trade are sums, and lie in the
\* proportion in which those of each day do.
LEMMA AmountIsPaid ==
    ASSUME AvwapAssumption, NEW s \in Stocks, NEW days \in SUBSET Traded(s), NEW source,
           NEW lo \in Int, NEW hi \in Int,
           \A d \in days : lo <= BarOf[s][d].low /\ BarOf[s][d].high <= hi
    PROVE  /\ VolumeOf(s, days) \in Nat /\ AmountOf(s, source, days) \in Int
           /\ 3 * lo * VolumeOf(s, days) <= AmountOf(s, source, days)
           /\ AmountOf(s, source, days) <= 3 * hi * VolumeOf(s, days)
<1> DEFINE V == [d \in days |-> BarOf[s][d].volume]
           A == [d \in days |-> TripleAmount(s, source, d)]
<1>1. IsFiniteSet(days)
  BY DaySets DEF AvwapAssumption, BarsAreTrue, Traded
<1>2. PICK v : Sums(SUBSET days, V, v)
  BY <1>1, SumsExist
<1>3. PICK a : Sums(SUBSET days, A, a)
  BY <1>1, SumsExist
<1>4. \A t \in SUBSET days : t # {} => Taken(t) \in days
  BY <1>1, TakenLess
<1>5. \E w : Sums(SUBSET days, V, w) /\ VolumeOf(s, days) = w[days]
  <2> DEFINE W(w) == w = [t \in SUBSET days |-> IF t = {} THEN 0
                            ELSE BarOf[s][Taken(t)].volume + w[t \ {Taken(t)}]]
  <2>1. VolumeOf(s, days) = (CHOOSE w : W(w))[days]
    BY DEF VolumeOf, MapThenSumSet, MapThenFoldSet, Taken
  <2>2. \A w : Sums(SUBSET days, V, w) <=> W(w)
    BY <1>4 DEF Sums
  <2> HIDE DEF W
  <2> QED
    BY <2>1, <2>2, <1>2
<1>6. \E w : Sums(SUBSET days, A, w) /\ AmountOf(s, source, days) = w[days]
  <2> DEFINE W(w) == w = [t \in SUBSET days |-> IF t = {} THEN 0
                            ELSE TripleAmount(s, source, Taken(t)) + w[t \ {Taken(t)}]]
  <2>1. AmountOf(s, source, days) = (CHOOSE w : W(w))[days]
    BY DEF AmountOf, MapThenSumSet, MapThenFoldSet, Taken
  <2>2. \A w : Sums(SUBSET days, A, w) <=> W(w)
    BY <1>4 DEF Sums
  <2> HIDE DEF W
  <2> QED
    BY <2>1, <2>2, <1>3
<1>7. ASSUME NEW d \in days
      PROVE  /\ V[d] \in Nat /\ A[d] \in Int
             /\ (3 * lo) * V[d] <= A[d] /\ A[d] <= (3 * hi) * V[d]
  <2> DEFINE b == BarOf[s][d]
  <2>1. /\ {b.low, b.close, b.high, b.volume, b.amount} \subseteq Int
        /\ b.low <= b.close /\ b.close <= b.high /\ b.volume >= 0
        /\ 3 * b.low * b.volume <= b.amount /\ b.amount <= 3 * b.high * b.volume
    BY DEF AvwapAssumption, BarsAreTrue, Traded
  <2>2. TripleAmount(s, source, d) = (b.high + b.low + b.close) * b.volume
        \/ TripleAmount(s, source, d) = b.amount
    BY DEF TripleAmount
  <2>3. lo <= b.low /\ b.high <= hi
    OBVIOUS
  <2>4. ASSUME NEW n \in Nat, NEW x \in Int, NEW y \in Int, x <= y
        PROVE  x * n \in Int /\ y * n \in Int /\ x * n <= y * n
    BY <2>4
  <2> HIDE DEF b
  <2>5. /\ (3 * lo) * b.volume <= (3 * b.low) * b.volume
        /\ (3 * b.high) * b.volume <= (3 * hi) * b.volume
        /\ (3 * b.low) * b.volume <= (b.high + b.low + b.close) * b.volume
        /\ (b.high + b.low + b.close) * b.volume <= (3 * b.high) * b.volume
    <3>1. b.volume \in Nat /\ 3 * lo <= 3 * b.low /\ 3 * b.high <= 3 * hi
          /\ 3 * b.low <= b.high + b.low + b.close /\ b.high + b.low + b.close <= 3 * b.high
          /\ {3 * lo, 3 * hi, 3 * b.low, 3 * b.high, b.high + b.low + b.close} \subseteq Int
      BY <2>1, <2>3
    <3> QED
      BY <3>1, <2>4
  <2>6. V[d] = b.volume /\ A[d] = TripleAmount(s, source, d)
    BY DEF b
  <2> DEFINE amount == TripleAmount(s, source, d)
             products == {(3 * lo) * b.volume, (3 * hi) * b.volume, (3 * b.low) * b.volume,
                          (3 * b.high) * b.volume, (b.high + b.low + b.close) * b.volume}
  <2>7. products \subseteq Int /\ b.volume \in Nat
    BY <2>1
  <2>8. /\ amount \in Int
        /\ (3 * b.low) * b.volume <= amount /\ amount <= (3 * b.high) * b.volume
    BY <2>1, <2>2, <2>5, <2>7
  <2> HIDE DEF V, A, amount
  <2>9. (3 * lo) * b.volume <= amount /\ amount <= (3 * hi) * b.volume
    BY <2>5, <2>7, <2>8
  <2> QED
    BY <2>6, <2>7, <2>8, <2>9 DEF amount
<1> HIDE DEF V, A
<1>8. PICK w : Sums(SUBSET days, V, w) /\ VolumeOf(s, days) = w[days]
  BY <1>5
<1>9. PICK u : Sums(SUBSET days, A, u) /\ AmountOf(s, source, days) = u[days]
  BY <1>6
<1>10. 3 * lo \in Int /\ 3 * hi \in Int
  OBVIOUS
<1>11. /\ w[days] \in Nat /\ u[days] \in Int
       /\ (3 * lo) * w[days] <= u[days] /\ u[days] <= (3 * hi) * w[days]
  <2> DEFINE low == 3 * lo
             high == 3 * hi
  <2>1. low \in Int /\ high \in Int
    OBVIOUS
  <2>2. \A d \in days : V[d] \in Nat /\ A[d] \in Int /\ low * V[d] <= A[d] /\ A[d] <= high * V[d]
    BY <1>7
  <2> HIDE DEF low, high
  <2>3. w[days] \in Nat /\ u[days] \in Int /\ low * w[days] <= u[days] /\ u[days] <= high * w[days]
    BY <1>1, <1>8, <1>9, <2>1, <2>2, SumsBounded
  <2> QED
    BY <2>3 DEF low, high
<1> QED
  BY <1>8, <1>9, <1>11

-----------------------------------------------------------------------------
(* DailyAvwap: the inductive invariant *)

SnapshotSources == {"", "archive", "twse", "finmind"}
MissingReasons == {"", "insufficient_listed_history", "twse_stock_day_parser_error", "forbidden",
    "twse_stock_day_request_failed", "finmind_request_failed", "daily_price_history_incomplete",
    "daily_price_history_unavailable", "daily_price_row_missing_for_data_date"}
Months == {MonthOf(e) : e \in Dates}
Snapshots == [freshness : {"none", "fresh", "missing"}, source : SnapshotSources, reason : MissingReasons,
              days : SUBSET Dates, refused : BOOLEAN, known : SUBSET Dates, blank : SUBSET Months]

\* What a snapshot says is so, by the archive as it is now.
IsSound(s, d, row) ==
    /\ row.freshness = "fresh" => IsWhole(s, d, row) /\ IsPaid(s, row)
    /\ row.reason = "insufficient_listed_history" => IsShort(s, d, row.known)

AvwapTyped ==
    /\ instance \in AvwapSettings
    /\ \A s \in Stocks : barArchive[s] \subseteq Traded(s)
    /\ pending \subseteq instance.ingests
    /\ rows \in [Selected -> [instance.runs -> Snapshots]]
    /\ status \in [instance.runs -> {"none", "completed", "failed"}]

SnapshotsAreSound ==
    \A s \in Selected, d \in instance.runs :
        /\ IsSound(s, d, rows[s][d])
        /\ rows[s][d].freshness # "none" => IsSupported(s)

\* How many of the selected symbols the call has passed.
Passed == Len(instance.selected) - Len(refresh.left)

RefreshTyped ==
    /\ refresh \in [date : instance.runs, left : Seq(Stocks), fresh : SUBSET Selected,
                    known : {refresh.known}, blocked : BOOLEAN, found : Seq(Selected \X Snapshots)]
    /\ \A m \in DOMAIN refresh.known : refresh.known[m] \subseteq HistoryWindow(refresh.date)
    /\ Passed \in Nat
    /\ \A i \in 1..Len(refresh.left) : refresh.left[i] = instance.selected[Passed + i]

\* What a call found is sound and of symbols it has passed, of each once; those
\* it passed and did not fetch have fresh snapshots or are not supported; and it
\* remembers a refusal.
FindingsAreSound ==
    /\ \A i \in 1..Len(refresh.found) : LET s == refresh.found[i][1]
                                            row == refresh.found[i][2]
                                        IN  /\ IsSound(s, refresh.date, row) /\ IsSupported(s)
                                            /\ row.freshness # "none" /\ s \notin refresh.fresh
                                            /\ row.refused => refresh.blocked
                                            /\ \E k \in 1..Passed : instance.selected[k] = s
    /\ \A i, j \in 1..Len(refresh.found) : refresh.found[i][1] = refresh.found[j][1] => i = j
    /\ \A k \in 1..Passed : LET s == instance.selected[k] IN
           \/ ~IsSupported(s) \/ s \in refresh.fresh
           \/ \E i \in 1..Len(refresh.found) : refresh.found[i][1] = s

RefreshIsSound ==
    /\ RefreshTyped /\ FindingsAreSound
    /\ refresh.fresh = {s \in Selected : rows[s][refresh.date].freshness = "fresh"}

AvwapIInv ==
    /\ AvwapTyped /\ SnapshotsAreSound /\ StatusTellsRows /\ RefusalIsRemembered
    /\ refresh # NoCall => RefreshIsSound

-----------------------------------------------------------------------------
(* DailyAvwap: histories *)

\* A history, with the sessions its market was known to have.
AsRow(source, days, known, blank) ==
    [source |-> source, days |-> days, known |-> known, blank |-> blank]
HistoryIsSound(s, d, h, known) ==
    /\ h \in [source : SnapshotSources, reason : MissingReasons, days : SUBSET Dates, refused : BOOLEAN,
              blank : SUBSET Months]
    /\ h.reason = "" => /\ h.days \subseteq Traded(s) \cap HistoryWindow(d)
                        /\ d \in h.days => LacksNone(s, d, AsRow(h.source, h.days, known, h.blank))
    /\ h.reason = "insufficient_listed_history" => IsShort(s, d, known)

\* The calendar days of a window are days, up to its own.
LEMMA WindowIsPast ==
    ASSUME AvwapAssumption, NEW d \in Dates
    PROVE  /\ HistoryWindow(d) \in SUBSET Dates /\ d \in HistoryWindow(d) /\ d \in Nat \ {0}
           /\ \A e \in HistoryWindow(d) : e \in 1..d
<1>1. Lookback \in Nat /\ Dates \subseteq Nat \ {0}
  BY DaySets DEF AvwapAssumption, AvwapBounds
<1>2. \A e \in HistoryWindow(d) : e \in Dates /\ e \in Nat \ {0} /\ e <= d
  BY <1>1 DEF HistoryWindow
<1>3. d \in Nat \ {0} /\ d - Lookback <= d
  BY <1>1
<1> QED
  BY <1>2, <1>3 DEF HistoryWindow

\* What of its window a remote source answers with, but for months that came
\* with nothing, lacks none or ends too early.
LEMMA GivenLacksNone ==
    ASSUME AvwapAssumption, NEW s \in Stocks, NEW d \in Dates, NEW behind \in BOOLEAN,
           NEW source, NEW known, NEW blank, source = "twse" \/ blank = {}
    PROVE  LET given == {e \in Given(s, d, behind) : MonthOf(e) \notin blank}
           IN  /\ given \in SUBSET (Traded(s) \cap HistoryWindow(d)) /\ given \in SUBSET Dates
               /\ d \in given => LacksNone(s, d, AsRow(source, given, known, blank))
<1> DEFINE given == {e \in Given(s, d, behind) : MonthOf(e) \notin blank}
<1>1. AskedDays(s, d) \subseteq HistoryWindow(d) /\ HistoryWindow(d) \subseteq Dates
  BY WindowIsPast DEF AskedDays
<1>2. \A e \in HistoryWindow(d) : e \in 1..d
  BY WindowIsPast
<1>3. given \in SUBSET (Traded(s) \cap HistoryWindow(d))
  BY <1>1 DEF Given
<1>4. d \in given => ~behind
  BY WindowIsPast DEF Given
<1>5. ~behind => given = {e \in Traded(s) \cap AskedDays(s, d) : MonthOf(e) \notin blank}
  BY <1>1, <1>2 DEF Given
<1> HIDE DEF given
<1>6. ASSUME d \in given PROVE LacksNone(s, d, AsRow(source, given, known, blank))
  BY <1>3, <1>4, <1>5, <1>6 DEF LacksNone, IsExcused, AsRow
<1> QED
  BY <1>1, <1>3, <1>6 DEF given

\* A whole archive lacks none of the last MinBars sessions it knows: an earlier
\* one it lacks has at least MinBars archived days after it.
LEMMA ArchiveIsSound ==
    ASSUME AvwapAssumption, AvwapTyped, NEW s \in Stocks, NEW d \in Dates,
           NEW known \in SUBSET Dates, ArchiveIsWhole(s, d, known)
    PROVE  LacksNone(s, d, AsRow("archive", Archived(s, d), known, {}))
<1> DEFINE D == Archived(s, d)
           K == LatestOf(MinBars, known)
<1>1. MinBars \in Nat \ {0}
  BY DEF AvwapAssumption, AvwapBounds
<1>2. D \in SUBSET (Traded(s) \cap HistoryWindow(d)) /\ D \in SUBSET Dates
  BY WindowIsPast DEF Archived, AvwapTyped
<1>3. d \in D /\ Cardinality(D) >= MinBars /\ K \subseteq D
  BY DEF ArchiveIsWhole
<1>4. ASSUME NEW e \in known, e \notin D
      PROVE  e < Min(LatestOf(MinBars, D))
  <2> DEFINE L == LatestOf(MinBars, D)
             x == Min(L)
  <2>1. L \in SUBSET D /\ Cardinality(L) >= MinBars
    BY <1>1, <1>2, <1>3, LastAreEnough
  <2>2. L # {} /\ L \in SUBSET Int /\ IsFiniteSet(L)
    <3> HIDE DEF L
    <3>1. Cardinality({}) = 0
      BY FS_EmptySet
    <3> QED
      BY <2>1, <1>1, <1>2, <3>1, DaySets
  <2>3. x \in L
    <3> HIDE DEF L
    <3> QED
      BY <2>2, ExtremesExist
  <2>4. SUFFICES ASSUME x <= e PROVE FALSE
    <3>1. e \in Int
      BY DaySets
    <3>2. x \in Int
      <4> HIDE DEF L, x
      <4> QED
        BY <2>2, <2>3
    <3>3. ~(x <= e) => e < x
      <4> HIDE DEF L, x
      <4> QED
        BY <3>1, <3>2
    <3> QED
      BY <3>3, <2>4
  <2>5. x < e /\ x \in Nat /\ e \in Nat
    <3> HIDE DEF L
    <3>1. x \in D /\ x \in Nat /\ e \in Nat
      BY <2>1, <2>3, <1>2, DaySets
    <3> QED
      BY <3>1, <2>4, <1>4
  <2>6. Cardinality({y \in D : y > x}) < MinBars
    <3> HIDE DEF x, D
    <3> QED
      BY <2>3 DEF LatestOf
  <2>7. Cardinality({k \in known : k > e}) >= MinBars
    <3>1. e \notin K
      BY <1>3, <1>4
    <3>2. Cardinality({k \in known : k > e}) \in Nat
      BY DaySets
    <3> QED
      BY <3>1, <3>2, <1>1 DEF LatestOf
  <2>8. Cardinality(known) >= MinBars
    <3>1. IsFiniteSet(known) /\ Cardinality({k \in known : k > e}) <= Cardinality(known)
      BY DaySets, FS_Subset
    <3> QED
      BY <3>1, <2>7, <1>1, DaySets
  <2>9. Cardinality(K) >= MinBars
    BY <2>8, <1>1, LastAreEnough
  <2>10. ASSUME NEW y \in K PROVE y \in D /\ y > x
    <3>1. y \in known /\ Cardinality({k \in known : k > y}) < MinBars
      BY DEF LatestOf
    <3>2. y \in Nat
      BY <3>1, DaySets
    <3>3. ASSUME y <= e PROVE FALSE
      <4> HIDE DEF x, D, K
      <4>1. {k \in known : k > e} \subseteq {k \in known : k > y}
        <5>1. e \in Nat /\ y \in Nat /\ y <= e
          BY <3>2, <3>3, <2>5
        <5>2. ASSUME NEW k \in known, k > e PROVE k > y
          <6>1. k \in Nat
            BY DaySets
          <6> QED
            BY <5>1, <5>2, <6>1
        <5> QED
          BY <5>2
      <4>2. {k \in known : k > y} \in SUBSET Dates /\ IsFiniteSet({k \in known : k > y})
        BY DaySets
      <4>3. Cardinality({k \in known : k > e}) <= Cardinality({k \in known : k > y})
        BY <4>1, <4>2, FS_Subset
      <4>4. Cardinality({k \in known : k > e}) \in Nat /\ Cardinality({k \in known : k > y}) \in Nat
        BY DaySets
      <4> QED
        BY <4>3, <4>4, <3>1, <2>7, <1>1
    <3> HIDE DEF x, D, K
    <3> QED
      BY <3>2, <3>3, <2>5, <1>3
  <2> DEFINE T == {y \in D : y > x}
  <2>11. Cardinality(K) <= Cardinality(T)
    <3>1. K \subseteq T
      BY <2>10
    <3>2. IsFiniteSet(T)
      <4> HIDE DEF x, D
      <4> QED
        BY <1>2, DaySets
    <3> HIDE DEF T, K
    <3> QED
      BY <3>1, <3>2, FS_Subset
  <2>12. Cardinality(K) \in Nat /\ Cardinality({y \in D : y > x}) \in Nat
    <3>1. K \in SUBSET Dates
      BY DEF LatestOf
    <3> HIDE DEF x, D, K
    <3> QED
      BY <3>1, <1>2, DaySets
  <2> HIDE DEF x, D, K
  <2> QED
    BY <2>6, <2>9, <2>11, <2>12, <1>1
<1> HIDE DEF D
<1> QED
  BY <1>2, <1>3, <1>4 DEF LacksNone, IsExcused, AsRow, D

\* A listing found to be short is short.
LEMMA ShortListingIsSound ==
    ASSUME AvwapAssumption, AvwapTyped, NEW s \in Stocks, NEW d \in Dates,
           NEW known \in SUBSET Dates, IsShortListing(s, d, known)
    PROVE  IsShort(s, d, known)
<1> DEFINE lived == Traded(s) \cap Listing[s].listed..d \cap (instance.calendar \cup known)
<1>1. Archived(s, d) \in SUBSET Dates /\ Archived(s, d) \subseteq barArchive[s] /\ barArchive[s] \subseteq Traded(s)
  BY WindowIsPast DEF Archived, AvwapTyped
<1>2. /\ HasEvidence(s, d) /\ Cardinality(Archived(s, d)) \in 1..(MinBars - 1)
      /\ d \in instance.calendar \cap Listing[s].listed..d
      /\ instance.calendar \cap Listing[s].listed..d = Archived(s, d)
      /\ known \cap Listing[s].listed..d = Archived(s, d)
  BY DEF IsShortListing
<1>3. lived \subseteq Archived(s, d)
  BY <1>2
<1>4. d \in lived
  BY <1>1, <1>2
<1>5. Cardinality(lived) <= Cardinality(Archived(s, d))
  <2> HIDE DEF lived
  <2> QED
    BY <1>1, <1>3, DaySets, FS_Subset
<1>6. Cardinality(lived) < MinBars
  <2>1. MinBars \in Nat /\ Cardinality(lived) \in Nat
    <3> HIDE DEF lived
    <3> QED
      BY <1>1, <1>3, DaySets DEF AvwapAssumption, AvwapBounds
  <2> HIDE DEF lived
  <2> QED
    BY <2>1, <1>2, <1>5
<1> QED
  BY <1>1, <1>2, <1>3, <1>4, <1>6 DEF IsShort

\* A remote history of a symbol is sound, and tells whether it was refused.
LEMMA FinMindIsSound ==
    ASSUME AvwapAssumption, NEW s \in Stocks, NEW d \in Dates, NEW known, NEW refused \in BOOLEAN,
           NEW h \in FromFinMind(s, d, refused)
    PROVE  HistoryIsSound(s, d, h, known) /\ h.refused = refused /\ h.source = "finmind"
<1>1. ASSUME NEW reason \in {"", "finmind_request_failed"}, h = History("finmind", reason, {}, refused)
      PROVE  HistoryIsSound(s, d, h, known) /\ h.refused = refused /\ h.source = "finmind"
  BY <1>1 DEF HistoryIsSound, History, SnapshotSources, MissingReasons
<1>2. ASSUME NEW behind \in BOOLEAN, h = History("finmind", "", Given(s, d, behind), refused)
      PROVE  HistoryIsSound(s, d, h, known) /\ h.refused = refused /\ h.source = "finmind"
  <2>1. PICK none : none = {}
    OBVIOUS
  <2> DEFINE given == {e \in Given(s, d, behind) : MonthOf(e) \notin none}
  <2>2. /\ given \in SUBSET (Traded(s) \cap HistoryWindow(d)) /\ given \in SUBSET Dates
        /\ d \in given => LacksNone(s, d, AsRow("finmind", given, known, none))
    BY <2>1, GivenLacksNone
  <2>3. given = Given(s, d, behind)
    BY <2>1
  <2> HIDE DEF given
  <2> QED
    BY <1>2, <2>1, <2>2, <2>3 DEF HistoryIsSound, History, SnapshotSources, MissingReasons
<1> QED
  BY <1>1, <1>2 DEF FromFinMind

\* What the exchange answered month by month is sound or a failure.
LEMMA MonthlyIsSound ==
    ASSUME AvwapAssumption, NEW s \in Stocks, NEW d \in Dates, NEW known,
           NEW answers \in [{MonthOf(e) : e \in HistoryWindow(d)} -> Answers]
    PROVE  HistoryIsSound(s, d, Monthly(s, d, answers), known) /\ ~Monthly(s, d, answers).refused
<1> DEFINE behind == answers[MonthOf(d)] = "behind"
           blank == {m \in DOMAIN answers : answers[m] = "empty"}
           given == {e \in Given(s, d, behind) : MonthOf(e) \notin blank}
           h == Monthly(s, d, answers)
<1>1. /\ given \in SUBSET (Traded(s) \cap HistoryWindow(d)) /\ given \in SUBSET Dates
      /\ d \in given => LacksNone(s, d, AsRow("twse", given, known, blank))
  BY GivenLacksNone
<1>2. blank \in SUBSET Months
  BY WindowIsPast DEF Months
<1>3. \/ h = [History("twse", "", given, FALSE) EXCEPT !.blank = blank]
      \/ \E reason \in {"twse_stock_day_parser_error", "forbidden", "twse_stock_day_request_failed"} :
             h = History("twse", reason, {}, FALSE)
  BY DEF Monthly
<1> HIDE DEF behind, blank, given, h
<1>4. HistoryIsSound(s, d, h, known) /\ ~h.refused
  <2>1. CASE h = [History("twse", "", given, FALSE) EXCEPT !.blank = blank]
    BY <2>1, <1>1, <1>2 DEF HistoryIsSound, History, SnapshotSources, MissingReasons
  <2>2. ASSUME NEW reason \in {"twse_stock_day_parser_error", "forbidden", "twse_stock_day_request_failed"},
               h = History("twse", reason, {}, FALSE)
        PROVE  HistoryIsSound(s, d, h, known) /\ ~h.refused
    BY <2>2 DEF HistoryIsSound, History, SnapshotSources, MissingReasons
  <2> QED
    BY <1>3, <2>1, <2>2
<1> QED
  BY <1>4 DEF h

\* What remote sources give is sound; a refusal is remembered, and after one the
\* exchange is not asked.
LEMMA RemoteIsSound ==
    ASSUME AvwapAssumption, NEW s \in Stocks, IsSupported(s), NEW d \in Dates, NEW known,
           NEW blocked \in BOOLEAN, NEW r \in Remote(s, d, blocked)
    PROVE  /\ HistoryIsSound(s, d, r[1], known) /\ r[2] \in BOOLEAN
           /\ r[1].refused => r[2]
           /\ blocked => r[2] /\ (ExchangeOf[s] = "TW" => r[1].refused)
<1> DEFINE Fallback(refused) == FromFinMind(s, d, ExchangeOf[s] = "TW") \X {refused}
           months == {MonthOf(e) : e \in HistoryWindow(d)}
<1>1. ASSUME NEW refused \in BOOLEAN, r \in Fallback(refused)
      PROVE  /\ HistoryIsSound(s, d, r[1], known) /\ r[2] = refused
             /\ r[1].refused <=> ExchangeOf[s] = "TW"
  <2>1. r[1] \in FromFinMind(s, d, ExchangeOf[s] = "TW") /\ r[2] = refused
    BY <1>1
  <2> QED
    BY <2>1, FinMindIsSound
<1>2. CASE ExchangeOf[s] = "TWO" \/ blocked
  <2>1. r \in Fallback(blocked)
    BY <1>2 DEF Remote
  <2>2. ExchangeOf[s] # "TW" \/ blocked
    BY <1>2
  <2> HIDE DEF Fallback
  <2> QED
    BY <1>1, <2>1, <2>2
<1>3. CASE ~(ExchangeOf[s] = "TWO" \/ blocked)
  <2>1. PICK answers \in [months -> Answers] :
           \/ r \in Fallback(TRUE)
           \/ r = <<Monthly(s, d, answers), "forbidden" \in Range(answers)>>
    BY <1>3 DEF Remote
  <2>2. CASE r \in Fallback(TRUE)
    <3> HIDE DEF Fallback
    <3> QED
      BY <1>1, <1>3, <2>2
  <2>3. CASE r = <<Monthly(s, d, answers), "forbidden" \in Range(answers)>>
    BY <1>3, <2>3, MonthlyIsSound
  <2> QED
    BY <2>1, <2>2, <2>3
<1> QED
  BY <1>2, <1>3

\* Dropping a short history leaves it sound.
LEMMA CheckedIsSound ==
    ASSUME NEW s, NEW d, NEW known, NEW h, HistoryIsSound(s, d, h, known)
    PROVE  HistoryIsSound(s, d, Checked(s, d, h), known) /\ Checked(s, d, h).refused = h.refused
BY DEF Checked, HistoryIsSound, MissingReasons

\* A remote history that is kept is long enough.
LEMMA CheckedIsLong ==
    ASSUME NEW s, NEW d, NEW known, NEW h, HistoryIsSound(s, d, h, known), HasEvidence(s, d),
           Checked(s, d, h).reason = ""
    PROVE  ~(Cardinality(Checked(s, d, h).days) < MinBars)
<1>1. CASE h.reason = "" /\ Cardinality(h.days) < MinBars
  BY <1>1 DEF Checked, HistoryIsSound
<1>2. CASE ~(h.reason = "" /\ Cardinality(h.days) < MinBars)
  BY <1>2 DEF Checked
<1> QED
  BY <1>1, <1>2

\* So is every history a call may come to have.
LEMMA HistoriesAreSound ==
    ASSUME AvwapAssumption, AvwapTyped, NEW s \in Stocks, IsSupported(s), NEW d \in Dates,
           NEW known \in SUBSET Dates, NEW blocked \in BOOLEAN, NEW r \in HistoriesOf(s, d, known, blocked)
    PROVE  /\ HistoryIsSound(s, d, r[1], known) /\ r[2] \in BOOLEAN
           /\ r[1].refused => r[2]
           /\ blocked => r[2] /\ (ExchangeOf[s] = "TW" => r[1].refused \/ r[1].source = "archive")
           /\ HasEvidence(s, d) /\ r[1].reason = "" => Cardinality(r[1].days) >= MinBars
<1>1. CASE ArchiveIsWhole(s, d, known)
  <2>1. r = <<History("archive", "", Archived(s, d), FALSE), blocked>>
    BY <1>1 DEF HistoriesOf
  <2>2. Archived(s, d) \in SUBSET (Traded(s) \cap HistoryWindow(d)) /\ Archived(s, d) \in SUBSET Dates
    BY WindowIsPast DEF Archived, AvwapTyped
  <2>3. LacksNone(s, d, AsRow("archive", Archived(s, d), known, {}))
    BY <1>1, ArchiveIsSound
  <2>4. Cardinality(Archived(s, d)) >= MinBars
    BY <1>1 DEF ArchiveIsWhole
  <2> QED
    BY <2>1, <2>2, <2>3, <2>4 DEF HistoryIsSound, History, SnapshotSources, MissingReasons
<1>2. CASE ~ArchiveIsWhole(s, d, known) /\ IsShortListing(s, d, known)
  <2>1. r = <<History("archive", "insufficient_listed_history", {}, FALSE), blocked>>
    BY <1>2 DEF HistoriesOf
  <2>2. IsShort(s, d, known)
    BY <1>2, ShortListingIsSound
  <2> QED
    BY <2>1, <2>2 DEF HistoryIsSound, History, SnapshotSources, MissingReasons
<1>3. CASE ~ArchiveIsWhole(s, d, known) /\ ~IsShortListing(s, d, known)
  <2>1. PICK q \in Remote(s, d, blocked) : r = <<Checked(s, d, q[1]), q[2]>>
    BY <1>3 DEF HistoriesOf
  <2>2. /\ HistoryIsSound(s, d, q[1], known) /\ q[2] \in BOOLEAN
        /\ q[1].refused => q[2]
        /\ blocked => q[2] /\ (ExchangeOf[s] = "TW" => q[1].refused)
    BY RemoteIsSound
  <2>3. HistoryIsSound(s, d, r[1], known) /\ r[1].refused = q[1].refused /\ r[2] = q[2]
    BY <2>1, <2>2, CheckedIsSound
  <2>4. ASSUME HasEvidence(s, d), r[1].reason = "" PROVE Cardinality(r[1].days) >= MinBars
    <3>1. ~(Cardinality(r[1].days) < MinBars)
      BY <2>1, <2>2, <2>4, CheckedIsLong
    <3>2. r[1].days \in SUBSET Dates /\ MinBars \in Nat
      BY <2>3 DEF HistoryIsSound, AvwapAssumption, AvwapBounds
    <3> QED
      BY <3>1, <3>2, DaySets
  <2> QED
    BY <2>2, <2>3, <2>4
<1> QED
  BY <1>1, <1>2, <1>3

\* A history that averages are built of pays for each of them.
LEMMA BuiltIsPaid ==
    ASSUME AvwapAssumption, NEW s \in Stocks, NEW d \in Dates, NEW days \in SUBSET Traded(s),
           days \subseteq HistoryWindow(d), Built(s, d, days) = "ok", NEW row, row.days = days
    PROVE  d \in days /\ IsPaid(s, row)
<1>1. {e \in days : e <= d} = days
  <2>1. \A e \in days : e \in 1..d /\ e \in Nat
    BY WindowIsPast
  <2> QED
    BY <2>1
<1>2. d \in days /\ \A a \in Anchors(s, days) : VolumeOf(s, Since(a, days)) # 0
  BY <1>1 DEF Built
<1>3. ASSUME NEW a \in Anchors(s, days)
      PROVE  LET since == Since(a, days)
                 lows == {BarOf[s][e].low : e \in {x \in days : x >= a}}
                 highs == {BarOf[s][e].high : e \in {x \in days : x >= a}}
             IN  /\ VolumeOf(s, since) > 0
                 /\ 3 * Min(lows) * VolumeOf(s, since) <= AmountOf(s, row.source, since)
                 /\ AmountOf(s, row.source, since) <= 3 * Max(highs) * VolumeOf(s, since)
  <2> DEFINE since == Since(a, days)
             lows == {BarOf[s][e].low : e \in since}
             highs == {BarOf[s][e].high : e \in since}
  <2>1. since \in SUBSET Traded(s) /\ IsFiniteSet(since)
    <3>1. since \in SUBSET days /\ since \in SUBSET Traded(s) /\ Traded(s) \in SUBSET Dates
      BY DEF Since, AvwapAssumption, BarsAreTrue, Traded
    <3> HIDE DEF since
    <3> QED
      BY <3>1, DaySets
  <2>2. VolumeOf(s, since) # 0
    BY <1>2
  <2> HIDE DEF since
  <2>3. since # {}
    <3>1. SUFFICES ASSUME since = {} PROVE FALSE
      OBVIOUS
    <3>2. \A lo, hi \in Int :
             /\ VolumeOf(s, since) \in Nat /\ AmountOf(s, "", since) \in Int
             /\ 3 * lo * VolumeOf(s, since) <= AmountOf(s, "", since)
             /\ AmountOf(s, "", since) <= 3 * hi * VolumeOf(s, since)
      <4>1. \A e \in since : FALSE
        BY <3>1
      <4> QED
        BY <2>1, <4>1, AmountIsPaid
    <3>3. 3 * 1 * VolumeOf(s, since) <= 3 * 0 * VolumeOf(s, since) /\ VolumeOf(s, since) \in Nat
      <4> DEFINE v == VolumeOf(s, since)
                 paid == AmountOf(s, "", since)
                 lo == 1
                 hi == 0
      <4>1. lo \in Int /\ hi \in Int
        OBVIOUS
      <4> HIDE DEF lo, hi
      <4>2. v \in Nat /\ paid \in Int /\ 3 * lo * v <= paid /\ paid <= 3 * hi * v
        BY <4>1, <3>2
      <4> HIDE DEF v, paid
      <4>3. 3 * 1 * v <= 3 * 0 * v
        BY <4>2 DEF lo, hi
      <4> QED
        BY <4>2, <4>3 DEF v
    <3> QED
      BY <3>3, <2>2
  <2>4. lows \in SUBSET Int /\ highs \in SUBSET Int /\ lows # {} /\ highs # {}
    BY <2>1, <2>3 DEF AvwapAssumption, BarsAreTrue, Traded
  <2>5. IsFiniteSet(lows)
    <3> DEFINE low == [e \in since |-> BarOf[s][e].low]
    <3>1. low \in Surjection(since, lows)
      BY DEF Surjection
    <3> HIDE DEF low, lows
    <3> QED
      BY <3>1, <2>1, FS_Surjection
  <2>6. IsFiniteSet(highs)
    <3> DEFINE high == [e \in since |-> BarOf[s][e].high]
    <3>1. high \in Surjection(since, highs)
      BY DEF Surjection
    <3> HIDE DEF high, highs
    <3> QED
      BY <3>1, <2>1, FS_Surjection
  <2>7. Min(lows) \in Int /\ \A x \in lows : Min(lows) <= x
    <3> HIDE DEF lows
    <3> QED
      BY <2>4, <2>5, ExtremesExist
  <2>8. Max(highs) \in Int /\ \A x \in highs : x <= Max(highs)
    <3> HIDE DEF highs
    <3> QED
      BY <2>4, <2>6, ExtremesExist
  <2>9. \A e \in since : Min(lows) <= BarOf[s][e].low /\ BarOf[s][e].high <= Max(highs)
    BY <2>7, <2>8
  <2>10. /\ VolumeOf(s, since) \in Nat
         /\ 3 * Min(lows) * VolumeOf(s, since) <= AmountOf(s, row.source, since)
         /\ AmountOf(s, row.source, since) <= 3 * Max(highs) * VolumeOf(s, since)
    <3> HIDE DEF lows, highs
    <3> QED
      BY <2>1, <2>7, <2>8, <2>9, AmountIsPaid
  <2>11. VolumeOf(s, since) > 0
    BY <2>2, <2>10
  <2> QED
    BY <2>10, <2>11 DEF since, Since
<1> QED
  BY <1>2, <1>3 DEF IsPaid

\* The row a sound history becomes is sound.
LEMMA SnapshotIsSound ==
    ASSUME AvwapAssumption, AvwapTyped, NEW s \in Stocks, NEW d \in Dates, NEW known \in SUBSET Dates,
           NEW h, HistoryIsSound(s, d, h, known),
           HasEvidence(s, d) /\ h.reason = "" => Cardinality(h.days) >= MinBars
    PROVE  LET row == RowOf(s, d, h, known)
           IN  /\ row \in Snapshots /\ IsSound(s, d, row) /\ row.freshness # "none"
               /\ row.refused = h.refused /\ row.source = h.source
<1> DEFINE row == RowOf(s, d, h, known)
           verdict == IF h.reason # "" THEN h.reason ELSE Built(s, d, h.days)
<1>1. h \in [source : SnapshotSources, reason : MissingReasons, days : SUBSET Dates, refused : BOOLEAN,
            blank : SUBSET Months]
  BY DEF HistoryIsSound
<1>2. verdict \in MissingReasons \cup {"ok"} /\ (verdict = "ok" => h.reason = "" /\ Built(s, d, h.days) = "ok")
      /\ (verdict = "insufficient_listed_history" => h.reason = verdict)
  BY <1>1 DEF HistoryIsSound, Built, MissingReasons
<1>3. CASE verdict = "ok"
  <2>1. row = [Row("fresh", h.source, "", h.days, h.refused, known) EXCEPT !.blank = h.blank]
    BY <1>3 DEF RowOf
  <2>2. /\ row.days = h.days /\ row.source = h.source /\ row.known = known /\ row.blank = h.blank
        /\ row.reason = ""
        /\ row \in Snapshots /\ row.refused = h.refused /\ row.freshness = "fresh"
    <3>1. "" \in MissingReasons /\ "fresh" \in {"none", "fresh", "missing"}
      BY DEF MissingReasons
    <3>2. h.source \in SnapshotSources /\ h.days \in SUBSET Dates /\ h.refused \in BOOLEAN
          /\ h.blank \in SUBSET Months
      BY <1>1
    <3> DEFINE fresh == [Row("fresh", h.source, "", h.days, h.refused, known) EXCEPT !.blank = h.blank]
    <3>3. /\ fresh.days = h.days /\ fresh.source = h.source /\ fresh.known = known
          /\ fresh.blank = h.blank /\ fresh.reason = ""
          /\ fresh \in Snapshots /\ fresh.refused = h.refused /\ fresh.freshness = "fresh"
      <4> HIDE DEF row, verdict
      <4> QED
        BY <3>1, <3>2 DEF Row, Snapshots
    <3> HIDE DEF row, verdict, fresh
    <3>4. row = fresh
      BY <2>1 DEF fresh
    <3> QED
      BY <3>3, <3>4
  <2>3. h.days \in SUBSET Traded(s) /\ h.days \subseteq HistoryWindow(d)
    BY <1>2, <1>3 DEF HistoryIsSound
  <2> HIDE DEF row
  <2>4. d \in h.days /\ IsPaid(s, row)
    BY <1>2, <1>3, <2>2, <2>3, BuiltIsPaid
  <2>5. LacksNone(s, d, row)
    BY <1>2, <1>3, <2>2, <2>4 DEF HistoryIsSound, LacksNone, IsExcused, AsRow
  <2>6. IsWhole(s, d, row)
    BY <1>2, <1>3, <2>2, <2>5 DEF IsWhole
  <2> QED
    BY <2>2, <2>4, <2>6 DEF IsSound, row
<1>4. CASE verdict # "ok"
  <2>1. row = Row("missing", h.source, verdict, {}, h.refused, known)
    BY <1>4 DEF RowOf
  <2>2. /\ row.source = h.source /\ row.known = known /\ row.reason = verdict
        /\ row \in Snapshots /\ row.refused = h.refused /\ row.freshness = "missing"
    <3>1. verdict \in MissingReasons
      BY <1>2, <1>4
    <3> HIDE DEF row, verdict
    <3>2. h.source \in SnapshotSources /\ h.refused \in BOOLEAN
      BY <1>1
    <3> DEFINE none == Row("missing", h.source, verdict, {}, h.refused, known)
    <3>3. /\ none.source = h.source /\ none.known = known /\ none.reason = verdict
          /\ none \in Snapshots /\ none.refused = h.refused /\ none.freshness = "missing"
      BY <3>1, <3>2 DEF Row, Snapshots
    <3> HIDE DEF none
    <3>4. row = none
      BY <2>1 DEF none
    <3> QED
      BY <3>3, <3>4
  <2> HIDE DEF row, verdict
  <2>3. IsSound(s, d, row)
    BY <2>2, <1>2 DEF IsSound, HistoryIsSound
  <2> QED
    BY <2>2, <2>3 DEF row
<1> QED
  BY <1>3, <1>4

-----------------------------------------------------------------------------
(* DailyAvwap: steps *)

\* The selected symbols are stocks, each once, and the run dates days.
LEMMA AvwapFacts ==
    ASSUME AvwapAssumption, AvwapTyped
    PROVE  /\ instance.selected \in Seq(Stocks) /\ Len(instance.selected) \in Nat
           /\ DOMAIN instance.selected = 1..Len(instance.selected)
           /\ Selected = {instance.selected[k] : k \in 1..Len(instance.selected)}
           /\ Selected \subseteq Stocks
           /\ \A j, k \in 1..Len(instance.selected) : instance.selected[j] = instance.selected[k] => j = k
           /\ instance.runs \subseteq Dates /\ 0 \notin instance.runs
<1>1. /\ instance.selected \in Seq(Stocks) /\ IsInjective(instance.selected)
      /\ instance.runs \subseteq Dates
  BY DEF AvwapAssumption, SettingsAreSound, AvwapTyped
<1>2. Len(instance.selected) \in Nat /\ DOMAIN instance.selected = 1..Len(instance.selected)
      /\ \A k \in 1..Len(instance.selected) : instance.selected[k] \in Stocks
  BY <1>1
<1>3. Selected = {instance.selected[k] : k \in 1..Len(instance.selected)}
  BY <1>2 DEF Selected, Range
<1>4. 0 \notin Dates
  BY DaySets
<1> QED
  BY <1>1, <1>2, <1>3, <1>4 DEF IsInjective

\* No row, no call and no status is sound.
LEMMA AvwapInitHolds ==
    ASSUME AvwapAssumption, AvwapInit
    PROVE  AvwapIInv
<1>1. NoSnapshot \in Snapshots /\ NoSnapshot.freshness = "none" /\ NoSnapshot.reason = ""
  BY DEF NoSnapshot, Row, Snapshots, SnapshotSources, MissingReasons
<1>2. AvwapTyped
  BY <1>1 DEF AvwapInit, AvwapTyped, AvwapAssumption, SettingsAreSound, Traded
<1>3. \A s \in Selected, d \in instance.runs : rows[s][d] = NoSnapshot /\ status[d] = "none"
  BY DEF AvwapInit
<1>4. SnapshotsAreSound
  BY <1>1, <1>3 DEF SnapshotsAreSound, IsSound
<1>5. StatusTellsRows
  BY DEF StatusTellsRows, AvwapInit
<1> QED
  BY <1>2, <1>4, <1>5 DEF AvwapIInv, AvwapInit, RefusalIsRemembered

\* What an archive that only grows has shown to be short stays so.
LEMMA ShortStays ==
    ASSUME NEW s, barArchive[s] \subseteq barArchive'[s], instance' = instance, NEW d, NEW known,
           IsShort(s, d, known)
    PROVE  IsShort(s, d, known)'
BY DEF IsShort

\* Bars that arrive shorten no listing and change no row.
LEMMA IngestStep ==
    ASSUME AvwapAssumption, AvwapIInv, NEW bars \in pending, Ingest(bars)
    PROVE  AvwapIInv'
<1> USE DEF AvwapIInv
<1>1. /\ UNCHANGED <<instance, rows, status, refresh>> /\ pending' \subseteq pending
      /\ barArchive' = [s \in Stocks |-> barArchive[s] \cup {b[2] : b \in {x \in bars : x[1] = s}}]
  BY DEF Ingest
<1>2. \A s \in Stocks : barArchive[s] \subseteq barArchive'[s] /\ barArchive'[s] \subseteq Traded(s)
  BY <1>1 DEF AvwapTyped, AvwapAssumption, SettingsAreSound, Traded
<1>3. AvwapTyped'
  BY <1>1, <1>2 DEF AvwapTyped, Selected
<1>4. \A s \in Selected : s \in Stocks
  BY AvwapFacts
<1>5. \A s \in Selected : \A d, known : IsShort(s, d, known) => IsShort(s, d, known)'
  BY <1>1, <1>2, <1>4, ShortStays
<1>6. SnapshotsAreSound'
  BY <1>1, <1>5 DEF SnapshotsAreSound, IsSound, Selected
<1>7. StatusTellsRows' /\ RefusalIsRemembered'
  BY <1>1 DEF StatusTellsRows, RefusalIsRemembered, Selected
<1>8. refresh # NoCall => RefreshTyped' /\ (refresh.fresh = {s \in Selected : rows[s][refresh.date].freshness = "fresh"})'
  BY <1>1 DEF RefreshIsSound, RefreshTyped, Passed, Selected
<1>9. refresh # NoCall => FindingsAreSound'
  <2>1. SUFFICES ASSUME refresh # NoCall PROVE FindingsAreSound'
    OBVIOUS
  <2>2. RefreshTyped /\ FindingsAreSound
    BY <2>1 DEF RefreshIsSound
  <2>3. \A i \in 1..Len(refresh.found) : refresh.found[i][1] \in Selected
    BY <2>2 DEF RefreshTyped
  <2> QED
    BY <1>1, <1>5, <2>2, <2>3 DEF FindingsAreSound, IsSound, Passed
<1> QED
  BY <1>1, <1>3, <1>6, <1>7, <1>8, <1>9 DEF RefreshIsSound

\* A call starts with nothing found and nothing passed.
LEMMA StartStep ==
    ASSUME AvwapAssumption, AvwapIInv, NEW date \in instance.runs, StartAvwap(date)
    PROVE  AvwapIInv'
<1> USE DEF AvwapIInv
<1>1. /\ UNCHANGED <<instance, barArchive, pending, rows, status>>
      /\ refresh' = [date |-> date, left |-> instance.selected,
                     fresh |-> {s \in Selected : rows[s][date].freshness = "fresh"},
                     known |-> <<>>, blocked |-> FALSE, found |-> <<>>]
  BY DEF StartAvwap
<1>2. AvwapTyped' /\ StatusTellsRows'
  BY <1>1 DEF AvwapTyped, StatusTellsRows, Selected
<1>3. SnapshotsAreSound'
  BY <1>1 DEF SnapshotsAreSound, IsSound, Selected, IsShort
<1>4. Passed' = 0
  BY <1>1, AvwapFacts DEF Passed
<1>5. RefreshTyped'
  BY <1>1, <1>4, AvwapFacts DEF RefreshTyped, Selected
<1>6. FindingsAreSound' /\ RefusalIsRemembered'
  BY <1>1, <1>4 DEF FindingsAreSound, RefusalIsRemembered
<1>7. refresh'.fresh = {s \in Selected' : rows'[s][refresh'.date].freshness = "fresh"}
  BY <1>1 DEF Selected
<1> QED
  BY <1>2, <1>3, <1>5, <1>6, <1>7 DEF RefreshIsSound

\* A call that ends on an error leaves the rows as they are.
LEMMA AbortStep ==
    ASSUME AvwapAssumption, AvwapIInv, AbortAvwap \/ UNCHANGED avwapVars
    PROVE  AvwapIInv'
<1> USE DEF AvwapIInv
<1>1. /\ UNCHANGED <<instance, barArchive, pending, rows, status>>
      /\ refresh' = NoCall \/ refresh' = refresh
  BY DEF AbortAvwap, avwapVars
<1>2. AvwapTyped' /\ StatusTellsRows'
  BY <1>1 DEF AvwapTyped, StatusTellsRows, Selected
<1>3. SnapshotsAreSound'
  BY <1>1 DEF SnapshotsAreSound, IsSound, Selected, IsShort
<1>4. RefusalIsRemembered'
  BY <1>1 DEF RefusalIsRemembered
<1>5. ASSUME refresh' # NoCall PROVE RefreshIsSound'
  <2>1. RefreshIsSound /\ refresh' = refresh
    BY <1>1, <1>5
  <2>2. RefreshTyped'
    BY <1>1, <2>1 DEF RefreshIsSound, RefreshTyped, Passed, Selected
  <2>3. FindingsAreSound'
    BY <1>1, <2>1 DEF RefreshIsSound, FindingsAreSound, Passed, IsSound, IsShort
  <2> QED
    BY <1>1, <2>1, <2>2, <2>3 DEF RefreshIsSound, Selected
<1> QED
  BY <1>2, <1>3, <1>4, <1>5

\* What is left begins with a symbol that has not been passed.
LEMMA NextSymbol ==
    ASSUME AvwapAssumption, AvwapIInv, refresh # NoCall, refresh.left # <<>>
    PROVE  /\ Head(refresh.left) \in Selected /\ Head(refresh.left) \in Stocks
           /\ Passed + 1 \in 1..Len(instance.selected)
           /\ instance.selected[Passed + 1] = Head(refresh.left)
           /\ \A k \in 1..Passed : instance.selected[k] # Head(refresh.left)
           /\ Tail(refresh.left) \in Seq(Stocks) /\ Len(Tail(refresh.left)) = Len(refresh.left) - 1
           /\ \A i \in 1..Len(Tail(refresh.left)) : Tail(refresh.left)[i] = instance.selected[Passed + 1 + i]
<1>1. RefreshTyped /\ AvwapTyped
  BY DEF AvwapIInv, RefreshIsSound
<1>2. refresh.left \in Seq(Stocks) /\ Len(refresh.left) \in Nat \ {0}
  BY <1>1 DEF RefreshTyped
<1>3. /\ Tail(refresh.left) \in Seq(Stocks) /\ Len(Tail(refresh.left)) = Len(refresh.left) - 1
      /\ Head(refresh.left) = refresh.left[1]
      /\ \A i \in 1..Len(Tail(refresh.left)) : Tail(refresh.left)[i] = refresh.left[i + 1]
  BY <1>2
<1>4. Passed \in Nat /\ \A i \in 1..Len(refresh.left) : refresh.left[i] = instance.selected[Passed + i]
  BY <1>1 DEF RefreshTyped
<1>5. Passed + 1 \in 1..Len(instance.selected) /\ instance.selected[Passed + 1] = Head(refresh.left)
  <2>1. Passed = Len(instance.selected) - Len(refresh.left) /\ Len(instance.selected) \in Nat
    BY <1>1, AvwapFacts DEF Passed
  <2>2. 1 \in 1..Len(refresh.left) /\ Passed + 1 \in 1..Len(instance.selected)
    <3> DEFINE left == Len(refresh.left)
               all == Len(instance.selected)
    <3>1. left \in Nat \ {0} /\ all \in Nat /\ Passed = all - left /\ Passed \in Nat
      BY <2>1, <1>2, <1>4
    <3> HIDE DEF left, all
    <3>2. 1 \in 1..left /\ Passed + 1 \in 1..all
      BY <3>1
    <3> QED
      BY <3>2 DEF left, all
  <2>3. refresh.left[1] = instance.selected[Passed + 1]
    BY <2>2, <1>4
  <2> QED
    BY <2>2, <2>3, <1>3
<1>6. \A k \in 1..Passed : instance.selected[k] # Head(refresh.left)
  <2>1. ASSUME NEW k \in 1..Passed PROVE k \in 1..Len(instance.selected) /\ k # Passed + 1
    BY <1>4, <1>5
  <2> QED
    BY <2>1, <1>1, <1>5, AvwapFacts
<1>7. Head(refresh.left) \in Selected /\ Head(refresh.left) \in Stocks
  BY <1>1, <1>5, AvwapFacts
<1>8. \A i \in 1..Len(Tail(refresh.left)) : Tail(refresh.left)[i] = instance.selected[Passed + 1 + i]
  <2> TAKE i \in 1..Len(Tail(refresh.left))
  <2>1. i + 1 \in 1..Len(refresh.left) /\ Passed + (i + 1) = Passed + 1 + i
    BY <1>2, <1>3, <1>4
  <2> QED
    BY <2>1, <1>3, <1>4
<1> QED
  BY <1>3, <1>5, <1>6, <1>7, <1>8

\* A symbol that is passed over is not supported or has a fresh row.
LEMMA PassOverStep ==
    ASSUME AvwapAssumption, AvwapIInv, PassOver
    PROVE  AvwapIInv'
<1> USE DEF AvwapIInv
<1> DEFINE s == Head(refresh.left)
<1>1. /\ UNCHANGED <<instance, barArchive, pending, rows, status>>
      /\ refresh # NoCall /\ refresh.left # <<>> /\ (~IsSupported(s) \/ s \in refresh.fresh)
      /\ refresh' = [refresh EXCEPT !.left = Tail(@)]
  BY DEF PassOver, IsPassedOver
<1>2. AvwapTyped' /\ StatusTellsRows'
  BY <1>1 DEF AvwapTyped, StatusTellsRows, Selected
<1>3. SnapshotsAreSound'
  BY <1>1 DEF SnapshotsAreSound, IsSound, Selected, IsShort
<1>4. RefreshTyped /\ FindingsAreSound /\ refresh.fresh = {x \in Selected : rows[x][refresh.date].freshness = "fresh"}
  BY <1>1 DEF RefreshIsSound
<1>5. /\ refresh'.date = refresh.date /\ refresh'.left = Tail(refresh.left) /\ refresh'.fresh = refresh.fresh
      /\ refresh'.known = refresh.known /\ refresh'.blocked = refresh.blocked /\ refresh'.found = refresh.found
      /\ refresh' = [date |-> refresh.date, left |-> Tail(refresh.left), fresh |-> refresh.fresh,
                     known |-> refresh.known, blocked |-> refresh.blocked, found |-> refresh.found]
  BY <1>1, <1>4 DEF RefreshTyped
<1>6. Passed' = Passed + 1 /\ Passed \in Nat
  BY <1>1, <1>4, <1>5, NextSymbol, AvwapFacts DEF Passed, RefreshTyped
<1>7. RefreshTyped'
  <2>1. /\ Tail(refresh.left) \in Seq(Stocks)
        /\ \A i \in 1..Len(Tail(refresh.left)) : Tail(refresh.left)[i] = instance.selected[Passed + 1 + i]
    BY <1>1, NextSymbol
  <2>2. refresh' \in [date : instance.runs, left : Seq(Stocks), fresh : SUBSET Selected,
                     known : {refresh'.known}, blocked : BOOLEAN, found : Seq(Selected \X Snapshots)]
    BY <1>4, <1>5, <2>1 DEF RefreshTyped
  <2>3. /\ \A m \in DOMAIN refresh'.known : refresh'.known[m] \subseteq HistoryWindow(refresh'.date)
        /\ Passed' \in Nat
    BY <1>4, <1>5, <1>6 DEF RefreshTyped
  <2>4. \A i \in 1..Len(refresh'.left) : refresh'.left[i] = instance.selected[Passed' + i]
    BY <1>5, <1>6, <2>1
  <2>5. Selected' = Selected /\ instance' = instance /\ HistoryWindow(refresh'.date) = HistoryWindow(refresh.date)'
    BY <1>1 DEF Selected, HistoryWindow
  <2> QED
    BY <1>5, <2>2, <2>3, <2>4, <2>5 DEF RefreshTyped
<1>8. FindingsAreSound'
  <2>1. \A k \in 1..Passed' : k \in 1..Passed \/ k = Passed + 1
    BY <1>6
  <2>2. \A k \in 1..Passed : k \in 1..Passed'
    BY <1>6
  <2>3. instance.selected[Passed + 1] = s
    BY <1>1, NextSymbol
  <2>4. \A k \in 1..Passed' : LET x == instance.selected[k] IN
           \/ ~IsSupported(x) \/ x \in refresh.fresh
           \/ \E i \in 1..Len(refresh.found) : refresh.found[i][1] = x
    BY <1>1, <1>4, <2>1, <2>3 DEF FindingsAreSound
  <2>5. \A i \in 1..Len(refresh.found) : \E k \in 1..Passed' : instance.selected[k] = refresh.found[i][1]
    BY <1>4, <2>2 DEF FindingsAreSound
  <2>6. \A x, e, row : IsSound(x, e, row) => IsSound(x, e, row)'
    BY <1>1 DEF IsSound, IsShort
  <2> HIDE DEF s
  <2>7. \A i \in 1..Len(refresh.found) : LET x == refresh.found[i][1]
                                            row == refresh.found[i][2]
                                        IN  /\ IsSound(x, refresh.date, row)' /\ IsSupported(x)
                                            /\ row.freshness # "none" /\ x \notin refresh.fresh
                                            /\ row.refused => refresh.blocked
    <3> TAKE i \in 1..Len(refresh.found)
    <3> DEFINE x == refresh.found[i][1]
               row == refresh.found[i][2]
    <3>1. /\ IsSound(x, refresh.date, row) /\ IsSupported(x)
          /\ row.freshness # "none" /\ x \notin refresh.fresh
          /\ row.refused => refresh.blocked
      BY <1>4 DEF FindingsAreSound
    <3>2. x' = x /\ row' = row /\ refresh'.date = refresh.date
      BY <1>5
    <3> HIDE DEF x, row
    <3>3. IsSound(x, refresh.date, row)'
      BY <1>1, <3>1, <3>2 DEF IsSound, IsShort
    <3> USE DEF x, row
    <3> QED
      BY <3>1, <3>3
  <2>8. \A i, j \in 1..Len(refresh.found) : refresh.found[i][1] = refresh.found[j][1] => i = j
    BY <1>4 DEF FindingsAreSound
  <2>9. refresh'.date = refresh.date /\ refresh'.found = refresh.found /\ refresh'.fresh = refresh.fresh
        /\ refresh'.blocked = refresh.blocked /\ instance' = instance
    BY <1>1, <1>5
  <2> QED
    BY <2>4, <2>5, <2>7, <2>8, <2>9 DEF FindingsAreSound
<1>9. RefusalIsRemembered'
  BY <1>1, <1>5 DEF RefusalIsRemembered
<1> QED
  BY <1>1, <1>2, <1>3, <1>4, <1>5, <1>7, <1>8, <1>9 DEF RefreshIsSound, Selected

\* What the next symbol is found to have.
LEMMA FetchFacts ==
    ASSUME AvwapAssumption, AvwapIInv, FetchHistory
    PROVE  LET s == Head(refresh.left)
           IN  /\ UNCHANGED <<instance, barArchive, pending, rows, status>>
               /\ refresh # NoCall /\ refresh.left # <<>> /\ IsSupported(s) /\ s \notin refresh.fresh
               /\ \E known, blocked, row :
                    /\ refresh' = [date |-> refresh.date, left |-> Tail(refresh.left), fresh |-> refresh.fresh,
                                   known |-> known, blocked |-> blocked,
                                   found |-> Append(refresh.found, <<s, row>>)]
                    /\ \A m \in DOMAIN known : known[m] \subseteq HistoryWindow(refresh.date)
                    /\ blocked \in BOOLEAN /\ row \in Snapshots /\ row.freshness # "none"
                    /\ IsSound(s, refresh.date, row) /\ (row.refused => blocked)
                    /\ refresh.blocked => blocked
                    /\ refresh.blocked /\ ExchangeOf[s] = "TW" => row.refused \/ row.source = "archive"
<1> DEFINE s == Head(refresh.left)
           m == ExchangeOf[s]
           d == refresh.date
           known == IF m \in DOMAIN refresh.known THEN refresh.known[m] ELSE KnownSessions(m, d)
<1>1. /\ UNCHANGED <<instance, barArchive, pending, rows, status>>
      /\ refresh # NoCall /\ refresh.left # <<>> /\ IsSupported(s) /\ s \notin refresh.fresh
      /\ \E r \in HistoriesOf(s, d, known, refresh.blocked) :
           refresh' = [refresh EXCEPT !.left = Tail(@), !.blocked = r[2],
                        !.known = [k \in DOMAIN @ \cup {m} |-> IF k = m THEN known ELSE @[k]],
                        !.found = Append(@, <<s, RowOf(s, d, r[1], known)>>)]
  BY DEF FetchHistory, IsPassedOver
<1>2. RefreshTyped /\ AvwapTyped
  BY <1>1 DEF AvwapIInv, RefreshIsSound
<1>3. s \in Stocks /\ d \in Dates /\ refresh.blocked \in BOOLEAN
  BY <1>1, <1>2, NextSymbol, AvwapFacts DEF RefreshTyped
<1>4. known \subseteq HistoryWindow(d) /\ known \in SUBSET Dates
  <2>1. known \subseteq HistoryWindow(d)
    BY <1>2 DEF RefreshTyped, KnownSessions
  <2> QED
    BY <2>1, <1>3, WindowIsPast
<1> HIDE DEF known, s, m, d
<1>5. PICK r \in HistoriesOf(s, d, known, refresh.blocked) :
           refresh' = [refresh EXCEPT !.left = Tail(@), !.blocked = r[2],
                        !.known = [k \in DOMAIN @ \cup {m} |-> IF k = m THEN known ELSE @[k]],
                        !.found = Append(@, <<s, RowOf(s, d, r[1], known)>>)]
  BY <1>1
<1> DEFINE row == RowOf(s, d, r[1], known)
           knowns == [k \in DOMAIN refresh.known \cup {m} |-> IF k = m THEN known ELSE refresh.known[k]]
<1>6. /\ HistoryIsSound(s, d, r[1], known) /\ r[2] \in BOOLEAN
      /\ r[1].refused => r[2]
      /\ refresh.blocked => r[2] /\ (ExchangeOf[s] = "TW" => r[1].refused \/ r[1].source = "archive")
      /\ HasEvidence(s, d) /\ r[1].reason = "" => Cardinality(r[1].days) >= MinBars
  BY <1>1, <1>2, <1>3, <1>4, HistoriesAreSound
<1>7. /\ row \in Snapshots /\ IsSound(s, d, row) /\ row.freshness # "none"
      /\ row.refused = r[1].refused /\ row.source = r[1].source
  BY <1>2, <1>3, <1>4, <1>6, SnapshotIsSound
<1>8. \A k \in DOMAIN knowns : knowns[k] \subseteq HistoryWindow(d)
  BY <1>2, <1>4 DEF RefreshTyped, d
<1>9. refresh' = [date |-> refresh.date, left |-> Tail(refresh.left), fresh |-> refresh.fresh,
                  known |-> knowns, blocked |-> r[2], found |-> Append(refresh.found, <<s, row>>)]
  BY <1>2, <1>5 DEF RefreshTyped, s, d
<1> HIDE DEF row, knowns
<1>10. \E k, blocked, new :
         /\ refresh' = [date |-> refresh.date, left |-> Tail(refresh.left), fresh |-> refresh.fresh,
                        known |-> k, blocked |-> blocked, found |-> Append(refresh.found, <<s, new>>)]
         /\ \A x \in DOMAIN k : k[x] \subseteq HistoryWindow(d)
         /\ blocked \in BOOLEAN /\ new \in Snapshots /\ new.freshness # "none"
         /\ IsSound(s, d, new) /\ (new.refused => blocked)
         /\ refresh.blocked => blocked
         /\ refresh.blocked /\ ExchangeOf[s] = "TW" => new.refused \/ new.source = "archive"
  <2> WITNESS knowns, r[2], row
  <2> QED
    BY <1>6, <1>7, <1>8, <1>9
<1> QED
  BY <1>1, <1>10 DEF s, d

\* What the next symbol is found to have is sound, and of it alone.
LEMMA FetchStep ==
    ASSUME AvwapAssumption, AvwapIInv, FetchHistory
    PROVE  AvwapIInv'
<1> USE DEF AvwapIInv
<1> DEFINE s == Head(refresh.left)
           n == Len(refresh.found)
<1>1. /\ UNCHANGED <<instance, barArchive, pending, rows, status>>
      /\ refresh # NoCall /\ refresh.left # <<>> /\ IsSupported(s) /\ s \notin refresh.fresh
  BY FetchFacts
<1>2. PICK known, blocked, row :
         /\ refresh' = [date |-> refresh.date, left |-> Tail(refresh.left), fresh |-> refresh.fresh,
                        known |-> known, blocked |-> blocked, found |-> Append(refresh.found, <<s, row>>)]
         /\ \A m \in DOMAIN known : known[m] \subseteq HistoryWindow(refresh.date)
         /\ blocked \in BOOLEAN /\ row \in Snapshots /\ row.freshness # "none"
         /\ IsSound(s, refresh.date, row) /\ (row.refused => blocked)
         /\ refresh.blocked => blocked
         /\ refresh.blocked /\ ExchangeOf[s] = "TW" => row.refused \/ row.source = "archive"
  BY FetchFacts
<1>3. RefreshTyped /\ FindingsAreSound /\ refresh.fresh = {x \in Selected : rows[x][refresh.date].freshness = "fresh"}
  BY <1>1 DEF RefreshIsSound
<1>4. AvwapTyped' /\ StatusTellsRows'
  BY <1>1 DEF AvwapTyped, StatusTellsRows, Selected
<1>5. SnapshotsAreSound'
  BY <1>1 DEF SnapshotsAreSound, IsSound, Selected, IsShort
<1>6. /\ s \in Selected /\ instance.selected[Passed + 1] = s
      /\ \A k \in 1..Passed : instance.selected[k] # s
      /\ Tail(refresh.left) \in Seq(Stocks) /\ Len(Tail(refresh.left)) = Len(refresh.left) - 1
      /\ \A i \in 1..Len(Tail(refresh.left)) : Tail(refresh.left)[i] = instance.selected[Passed + 1 + i]
  BY <1>1, NextSymbol
<1> HIDE DEF s
<1>7. /\ refresh'.date = refresh.date /\ refresh'.left = Tail(refresh.left) /\ refresh'.fresh = refresh.fresh
      /\ refresh'.known = known /\ refresh'.blocked = blocked
      /\ refresh'.found = Append(refresh.found, <<s, row>>)
  BY <1>2
<1>8. refresh.found \in Seq(Selected \X Snapshots) /\ refresh.left \in Seq(Stocks)
      /\ refresh.date \in instance.runs /\ refresh.fresh \in SUBSET Selected
  BY <1>3 DEF RefreshTyped
<1>9. /\ refresh'.found \in Seq(Selected \X Snapshots) /\ Len(refresh'.found) = n + 1 /\ n \in Nat
      /\ \A i \in 1..n : refresh'.found[i] = refresh.found[i]
      /\ refresh'.found[n + 1] = <<s, row>> /\ DOMAIN refresh'.found = 1..n + 1 /\ DOMAIN refresh.found = 1..n
  BY <1>2, <1>6, <1>7, <1>8
<1> HIDE DEF n
<1>10. Passed' = Passed + 1 /\ Passed \in Nat
  BY <1>1, <1>3, <1>6, <1>7, <1>8, AvwapFacts DEF Passed, RefreshTyped
<1>11. RefreshTyped'
  <2>1. refresh' \in [date : instance.runs, left : Seq(Stocks), fresh : SUBSET Selected,
                      known : {refresh'.known}, blocked : BOOLEAN, found : Seq(Selected \X Snapshots)]
    <3> DEFINE found == Append(refresh.found, <<s, row>>)
    <3>1. found \in Seq(Selected \X Snapshots)
      BY <1>7, <1>9
    <3> HIDE DEF found
    <3>2. refresh' = [date |-> refresh.date, left |-> Tail(refresh.left), fresh |-> refresh.fresh,
                      known |-> known, blocked |-> blocked, found |-> found]
      BY <1>2 DEF s, found
    <3> QED
      BY <1>2, <1>6, <1>8, <3>1, <3>2
  <2>2. \A m \in DOMAIN refresh'.known : refresh'.known[m] \subseteq HistoryWindow(refresh'.date)
    BY <1>2, <1>7
  <2>3. \A i \in 1..Len(refresh'.left) : refresh'.left[i] = instance.selected[Passed' + i]
    BY <1>6, <1>7, <1>10
  <2>4. Selected' = Selected /\ instance' = instance /\ HistoryWindow(refresh'.date) = HistoryWindow(refresh.date)'
    BY <1>1 DEF Selected, HistoryWindow
  <2> QED
    BY <1>10, <2>1, <2>2, <2>3, <2>4 DEF RefreshTyped
<1>12. FindingsAreSound'
  <2>1. ASSUME NEW i \in 1..n + 1
        PROVE  LET x == refresh'.found[i][1]
                   found == refresh'.found[i][2]
               IN  /\ IsSound(x, refresh.date, found) /\ IsSupported(x)
                   /\ found.freshness # "none" /\ x \notin refresh.fresh
                   /\ found.refused => blocked
                   /\ \E k \in 1..Passed + 1 : instance.selected[k] = x
    <3>1. CASE i = n + 1
      <4>1. Passed + 1 \in 1..Passed + 1
        BY <1>10
      <4> QED
        BY <1>1, <1>2, <1>6, <1>9, <3>1, <4>1 DEF s
    <3>2. CASE i # n + 1
      <4>1. i \in 1..n /\ refresh'.found[i] = refresh.found[i]
        BY <1>9, <3>2
      <4>2. \A k \in 1..Passed : k \in 1..Passed + 1
        BY <1>10
      <4> QED
        BY <1>2, <1>3, <4>1, <4>2 DEF FindingsAreSound, n
    <3> QED
      BY <3>1, <3>2
  <2>3. ASSUME NEW i \in 1..n + 1, NEW j \in 1..n + 1, refresh'.found[i][1] = refresh'.found[j][1] PROVE i = j
    <3>1. \A k \in 1..n : refresh.found[k][1] # s
      BY <1>3, <1>6 DEF FindingsAreSound, n
    <3>2. refresh'.found[n + 1][1] = s
      BY <1>9
    <3>3. CASE i = n + 1 /\ j = n + 1
      BY <3>3
    <3>4. CASE i \in 1..n /\ j \in 1..n
      BY <3>4, <2>3, <1>3, <1>9 DEF FindingsAreSound, n
    <3>5. CASE i \in 1..n /\ j = n + 1
      BY <3>5, <2>3, <1>9, <3>1, <3>2
    <3>6. CASE j \in 1..n /\ i = n + 1
      BY <3>6, <2>3, <1>9, <3>1, <3>2
    <3> QED
      BY <1>9, <3>3, <3>4, <3>5, <3>6
  <2>4. ASSUME NEW k \in 1..Passed + 1
        PROVE  LET x == instance.selected[k] IN
               \/ ~IsSupported(x) \/ x \in refresh.fresh
               \/ \E i \in 1..n + 1 : refresh'.found[i][1] = x
    <3>1. CASE k = Passed + 1
      BY <3>1, <1>6, <1>9
    <3>2. CASE k \in 1..Passed
      <4>1. \A i \in 1..n : i \in 1..n + 1 /\ refresh'.found[i] = refresh.found[i]
        BY <1>9
      <4> QED
        BY <3>2, <4>1, <1>3 DEF FindingsAreSound, n
    <3> QED
      BY <1>10, <3>1, <3>2
  <2> QED
    BY <1>1, <1>7, <1>9, <1>10, <2>1, <2>3, <2>4 DEF FindingsAreSound, IsSound, IsShort
<1>13. RefusalIsRemembered'
  <2>1. SUFFICES ASSUME NEW i \in 1..n + 1, NEW j \in 1..n + 1, i < j, refresh'.found[i][2].refused,
                        ExchangeOf[refresh'.found[j][1]] = "TW"
                 PROVE  refresh'.found[j][2].refused \/ refresh'.found[j][2].source = "archive"
    BY <1>9 DEF RefusalIsRemembered
  <2>2. i \in 1..n /\ refresh.found[i][2].refused
    BY <1>9, <2>1
  <2>3. CASE j \in 1..n
    BY <1>1, <1>9, <2>1, <2>2, <2>3 DEF RefusalIsRemembered
  <2>4. CASE j = n + 1
    <3>1. refresh.blocked
      BY <1>3, <2>2 DEF FindingsAreSound, n
    <3> QED
      BY <1>2, <1>9, <2>1, <2>4, <3>1 DEF s
  <2> QED
    BY <1>9, <2>3, <2>4
<1> QED
  BY <1>1, <1>3, <1>4, <1>5, <1>7, <1>11, <1>12, <1>13 DEF RefreshIsSound, Selected

\* A commit replaces the row of the call's date of every symbol that was found,
\* which was not fresh, and only that one; every symbol has been passed.
LEMMA CommitFacts ==
    ASSUME AvwapAssumption, AvwapIInv, CommitAvwap
    PROVE  /\ UNCHANGED <<instance, barArchive, pending>> /\ refresh' = NoCall /\ refresh # NoCall
           /\ status' = [status EXCEPT ![refresh.date] = StatusOf(refresh.found)]
           /\ RefreshIsSound /\ Passed = Len(instance.selected)
           /\ rows' \in [Selected -> [instance.runs -> Snapshots]]
           /\ \A s \in Selected, d \in instance.runs :
                 d # refresh.date \/ s \in refresh.fresh => rows'[s][d] = rows[s][d]
           /\ \A i \in 1..Len(refresh.found) :
                 rows'[refresh.found[i][1]][refresh.date] = refresh.found[i][2]
           /\ \A s \in Selected :
                 \/ rows'[s] = rows[s]
                 \/ \E i \in 1..Len(refresh.found) :
                       refresh.found[i][1] = s /\ rows'[s][refresh.date] = refresh.found[i][2]
<1> DEFINE n == Len(refresh.found)
           IsFound(s) == \E i \in DOMAIN refresh.found : refresh.found[i][1] = s
           Index(s) == CHOOSE i \in DOMAIN refresh.found : refresh.found[i][1] = s
<1>1. /\ UNCHANGED <<instance, barArchive, pending>> /\ refresh' = NoCall /\ refresh # NoCall
      /\ status' = [status EXCEPT ![refresh.date] = StatusOf(refresh.found)]
      /\ refresh.left = <<>>
      /\ rows' = [s \in Selected |-> IF IsFound(s)
                                     THEN [rows[s] EXCEPT ![refresh.date] = refresh.found[Index(s)][2]]
                                     ELSE rows[s]]
  BY DEF CommitAvwap
<1>2. RefreshIsSound /\ RefreshTyped /\ FindingsAreSound /\ AvwapTyped
  BY <1>1 DEF AvwapIInv, RefreshIsSound
<1>3. Passed = Len(instance.selected)
  BY <1>1, AvwapFacts, <1>2 DEF Passed
<1>4. /\ refresh.found \in Seq(Selected \X Snapshots) /\ DOMAIN refresh.found = 1..n
      /\ refresh.date \in instance.runs /\ refresh.fresh \in SUBSET Selected
  BY <1>2 DEF RefreshTyped
<1>5. \A i \in 1..n : refresh.found[i] \in Selected \X Snapshots
  BY <1>4
<1>6. \A s : IsFound(s) => Index(s) \in 1..n /\ refresh.found[Index(s)][1] = s
  BY <1>4
<1>7. \A i \in 1..n : IsFound(refresh.found[i][1]) /\ Index(refresh.found[i][1]) = i
  <2> TAKE i \in 1..n
  <2>1. IsFound(refresh.found[i][1])
    BY <1>4
  <2> QED
    BY <2>1, <1>2, <1>6 DEF FindingsAreSound
<1> HIDE DEF IsFound, Index, n
<1>8. \A s \in Selected : rows[s] \in [instance.runs -> Snapshots]
  BY <1>2 DEF AvwapTyped
<1>9. ASSUME NEW s \in Selected
      PROVE  /\ rows'[s] \in [instance.runs -> Snapshots]
             /\ IsFound(s) => rows'[s] = [rows[s] EXCEPT ![refresh.date] = refresh.found[Index(s)][2]]
             /\ ~IsFound(s) => rows'[s] = rows[s]
  BY <1>1, <1>4, <1>5, <1>6, <1>8
<1>10. rows' \in [Selected -> [instance.runs -> Snapshots]]
  BY <1>1, <1>9
<1>11. ASSUME NEW s \in Selected, NEW d \in instance.runs, d # refresh.date \/ s \in refresh.fresh
       PROVE  rows'[s][d] = rows[s][d]
  <2>1. CASE s \in refresh.fresh
    <3>1. \A i \in 1..n : refresh.found[i][1] # s
      BY <2>1, <1>2 DEF FindingsAreSound, n
    <3>2. ~IsFound(s)
      BY <3>1, <1>6
    <3> QED
      BY <3>2, <1>9
  <2>2. CASE d # refresh.date
    BY <2>2, <1>8, <1>9
  <2> QED
    BY <1>11, <2>1, <2>2
<1>12. ASSUME NEW i \in 1..n PROVE rows'[refresh.found[i][1]][refresh.date] = refresh.found[i][2]
  <2> DEFINE s == refresh.found[i][1]
  <2>1. s \in Selected /\ IsFound(s) /\ Index(s) = i
    BY <1>5, <1>7
  <2> HIDE DEF s
  <2>2. rows'[s] = [rows[s] EXCEPT ![refresh.date] = refresh.found[Index(s)][2]]
    BY <2>1, <1>9
  <2>3. rows[s] \in [instance.runs -> Snapshots]
    BY <2>1, <1>8
  <2>4. rows'[s][refresh.date] = refresh.found[i][2]
    BY <2>1, <2>2, <2>3, <1>4
  <2> QED
    BY <2>4 DEF s
<1>13. ASSUME NEW s \in Selected
       PROVE  \/ rows'[s] = rows[s]
              \/ \E i \in 1..n : refresh.found[i][1] = s /\ rows'[s][refresh.date] = refresh.found[i][2]
  <2>1. CASE IsFound(s)
    <3>1. PICK i \in 1..n : refresh.found[i][1] = s
      BY <2>1, <1>6
    <3> QED
      BY <3>1, <1>12
  <2> QED
    BY <2>1, <1>9
<1> QED
  BY <1>1, <1>2, <1>3, <1>10, <1>11, <1>12, <1>13 DEF n

\* What is committed is sound, and the status tells what lacks an average.
LEMMA CommitStep ==
    ASSUME AvwapAssumption, AvwapIInv, CommitAvwap
    PROVE  AvwapIInv'
<1> DEFINE n == Len(refresh.found)
           date == refresh.date
<1>1. /\ UNCHANGED <<instance, barArchive, pending>> /\ refresh' = NoCall /\ refresh # NoCall
      /\ status' = [status EXCEPT ![date] = StatusOf(refresh.found)]
      /\ Passed = Len(instance.selected) /\ rows' \in [Selected -> [instance.runs -> Snapshots]]
  BY CommitFacts
<1>2. AvwapTyped /\ SnapshotsAreSound /\ StatusTellsRows /\ RefreshTyped /\ FindingsAreSound
      /\ refresh.fresh = {s \in Selected : rows[s][date].freshness = "fresh"}
  BY <1>1 DEF AvwapIInv, RefreshIsSound
<1>3. date \in instance.runs /\ refresh.found \in Seq(Selected \X Snapshots) /\ DOMAIN refresh.found = 1..n
  BY <1>2 DEF RefreshTyped
<1>4. \A i \in 1..n : refresh.found[i][1] \in Selected /\ refresh.found[i][2] \in Snapshots
  BY <1>3
<1>5. Selected' = Selected /\ \A x, e, row : IsSound(x, e, row) => IsSound(x, e, row)'
  BY <1>1 DEF Selected, IsSound, IsShort
<1>6. AvwapTyped'
  <2>1. StatusOf(refresh.found) \in {"completed", "failed"}
    BY DEF StatusOf
  <2> QED
    BY <1>1, <1>2, <1>5, <2>1 DEF AvwapTyped
<1>7. ASSUME NEW s \in Selected, NEW d \in instance.runs
      PROVE  IsSound(s, d, rows'[s][d]) /\ (rows'[s][d].freshness # "none" => IsSupported(s))
  <2>1. CASE rows'[s][d] = rows[s][d]
    BY <2>1, <1>2 DEF SnapshotsAreSound
  <2>2. CASE rows'[s][d] # rows[s][d]
    <3>1. d = date /\ rows'[s] # rows[s]
      BY <2>2, CommitFacts
    <3>2. PICK i \in 1..n : refresh.found[i][1] = s /\ rows'[s][date] = refresh.found[i][2]
      BY <3>1, CommitFacts
    <3> QED
      BY <1>2, <3>1, <3>2 DEF FindingsAreSound
  <2> QED
    BY <2>1, <2>2
<1>8. SnapshotsAreSound'
  BY <1>1, <1>5, <1>7 DEF SnapshotsAreSound, IsSound, IsShort
<1>9. ASSUME NEW s \in Selected, IsSupported(s), rows'[s][date].freshness # "fresh"
      PROVE  \E i \in 1..n : refresh.found[i][1] = s /\ rows'[s][date] = refresh.found[i][2]
                             /\ refresh.found[i][2].freshness = "missing"
  <2>1. s \notin refresh.fresh
    BY <1>2, <1>3, <1>9, CommitFacts
  <2>2. PICK k \in 1..Passed : instance.selected[k] = s
    BY <1>1, AvwapFacts, <1>2
  <2>3. PICK i \in 1..n : refresh.found[i][1] = s
    BY <1>2, <1>9, <2>1, <2>2 DEF FindingsAreSound
  <2>4. rows'[s][date] = refresh.found[i][2]
    BY <2>3, CommitFacts
  <2>5. refresh.found[i][2].freshness \in {"none", "fresh", "missing"} /\ refresh.found[i][2].freshness # "none"
    BY <1>2, <1>4 DEF FindingsAreSound, Snapshots
  <2> QED
    BY <1>9, <2>3, <2>4, <2>5
<1>10. StatusTellsRows'
  <2> DEFINE Lacks(s, d) == /\ IsSupported(s) /\ rows'[s][d].freshness # "fresh"
                            /\ rows'[s][d].reason # "insufficient_listed_history"
  <2>1. SUFFICES ASSUME NEW d \in instance.runs
                 PROVE  /\ status'[d] = "completed" => \A s \in Selected : ~Lacks(s, d)
                        /\ status'[d] = "failed" => \E s \in Selected : Lacks(s, d)
    BY <1>1, <1>5 DEF StatusTellsRows
  <2>2. CASE d # date
    <3>1. status'[d] = status[d] /\ \A s \in Selected : rows'[s][d] = rows[s][d]
      BY <1>1, <1>2, <2>2, CommitFacts DEF AvwapTyped
    <3> QED
      BY <1>2, <3>1 DEF StatusTellsRows
  <2>3. CASE d = date
    <3>1. status'[d] = StatusOf(refresh.found)
      BY <1>1, <1>2, <1>3, <2>3 DEF AvwapTyped
    <3>2. ASSUME status'[d] = "completed", NEW s \in Selected PROVE ~Lacks(s, d)
      <4>1. SUFFICES ASSUME Lacks(s, d) PROVE FALSE
        OBVIOUS
      <4>2. PICK i \in 1..n : rows'[s][date] = refresh.found[i][2] /\ refresh.found[i][2].freshness = "missing"
        BY <1>9, <2>3, <4>1
      <4> QED
        BY <1>3, <2>3, <3>1, <3>2, <4>1, <4>2 DEF StatusOf
    <3>3. ASSUME status'[d] = "failed" PROVE \E s \in Selected : Lacks(s, d)
      <4>1. PICK i \in 1..n : /\ refresh.found[i][2].freshness = "missing"
                              /\ refresh.found[i][2].reason # "insufficient_listed_history"
        BY <1>3, <3>1, <3>3 DEF StatusOf
      <4>2. rows'[refresh.found[i][1]][date] = refresh.found[i][2] /\ IsSupported(refresh.found[i][1])
        BY <1>2, CommitFacts DEF FindingsAreSound
      <4> QED
        BY <1>4, <2>3, <4>1, <4>2
    <3> QED
      BY <3>2, <3>3
  <2> QED
    BY <2>2, <2>3
<1> QED
  BY <1>1, <1>6, <1>8, <1>10 DEF AvwapIInv, RefusalIsRemembered

\* Every reachable state of the refresh satisfies the inductive invariant.
THEOREM AveragesSafe == ASSUME AvwapAssumption PROVE AvwapSpec => []AvwapIInv
<1>1. AvwapInit => AvwapIInv
  BY AvwapInitHolds
<1>2. AvwapIInv /\ [AvwapNext]_avwapVars => AvwapIInv'
  BY IngestStep, StartStep, PassOverStep, FetchStep, CommitStep, AbortStep DEF AvwapNext
<1> QED
  BY <1>1, <1>2, PTL DEF AvwapSpec


-----------------------------------------------------------------------------
(* DailyAvwap: what is read, and the theorems *)

\* What the analysis reads of a symbol on a date is the latest snapshot that is
\* fresh, if one is recent.
LEMMA LatestIsRead ==
    ASSUME AvwapAssumption, AvwapTyped, NEW s \in Selected, NEW d \in instance.runs
    PROVE  LET recent == {e \in instance.runs \cap (d - MaxAge)..d : rows[s][e].freshness = "fresh"}
           IN  /\ (AnalysisReads(s, d).freshness = "fresh") = (recent # {})
               /\ RadarReads(s, d).freshness = "fresh" => AnalysisReads(s, d) = RadarReads(s, d)
<1> DEFINE recent == {e \in instance.runs \cap (d - MaxAge)..d : rows[s][e].freshness = "fresh"}
           C == FreshDates(s, d)
           latest == Max(C)
<1>1. MaxAge \in Nat /\ d \in Int /\ instance.runs \in SUBSET Int /\ C \in SUBSET instance.runs
  BY AvwapFacts, DaySets DEF AvwapAssumption, AvwapBounds, FreshDates
<1>2. C \in SUBSET Int /\ IsFiniteSet(C)
  <2>1. C \in SUBSET Dates
    BY <1>1, AvwapFacts
  <2> HIDE DEF C
  <2> QED
    BY <1>1, <2>1, DaySets
<1>3. \A e : e \in C <=> e \in instance.runs /\ e <= d /\ rows[s][e].freshness = "fresh"
  BY DEF FreshDates
<1>4. \A e : e \in recent <=> e \in C /\ d - e <= MaxAge
  <2> HIDE DEF C
  <2> QED
    BY <1>1, <1>3
<1>5. CASE C = {}
  <2>1. AnalysisReads(s, d).freshness = "missing"
    BY <1>5 DEF AnalysisReads, Row
  <2> HIDE DEF C
  <2>2. recent = {} /\ RadarReads(s, d).freshness # "fresh"
    BY <1>1, <1>3, <1>4, <1>5 DEF RadarReads
  <2> QED
    BY <2>1, <2>2
<1>6. CASE C # {}
  <2> HIDE DEF C
  <2>1. latest \in C /\ \A e \in C : e <= latest
    BY <1>2, <1>6, ExtremesExist
  <2> HIDE DEF latest
  <2>2. latest \in Int
    BY <1>2, <2>1
  <2>3. CASE d - latest > MaxAge
    <3>1. AnalysisReads(s, d).freshness = "missing"
      BY <1>6, <2>3 DEF AnalysisReads, TooOld, Row, C, latest
    <3>2. \A e \in C : d - e > MaxAge
      BY <1>1, <1>2, <2>1, <2>2, <2>3
    <3>3. recent = {} /\ RadarReads(s, d).freshness # "fresh"
      <4>1. d \notin C
        BY <1>1, <3>2
      <4>2. \A e \in recent : FALSE
        <5> HIDE DEF recent
        <5> TAKE e \in recent
        <5>1. e \in C /\ d - e <= MaxAge /\ e \in Int
          BY <1>2, <1>4
        <5> QED
          BY <1>1, <3>2, <5>1
      <4>3. recent = {}
        <5> HIDE DEF recent
        <5> QED
          BY <4>2
      <4> QED
        BY <4>1, <4>3, <1>1, <1>3 DEF RadarReads
    <3> HIDE DEF recent
    <3> QED
      BY <3>1, <3>3 DEF recent
  <2>4. CASE ~(d - latest > MaxAge)
    <3>1. AnalysisReads(s, d) = rows[s][latest] /\ rows[s][latest].freshness = "fresh"
      BY <1>3, <1>6, <2>1, <2>4 DEF AnalysisReads, TooOld, C, latest
    <3>2. latest \in recent
      BY <1>1, <1>4, <2>1, <2>2, <2>4
    <3>3. d \in C => latest = d
      BY <1>1, <1>3, <2>1, <2>2
    <3>4. RadarReads(s, d).freshness = "fresh" => d \in C
      BY <1>1, <1>3 DEF RadarReads
    <3> QED
      BY <3>1, <3>2, <3>3, <3>4 DEF RadarReads
  <2> QED
    BY <2>3, <2>4
<1> HIDE DEF recent
<1> QED
  BY <1>5, <1>6 DEF recent

\* A call has one row of each symbol it found.
LEMMA RowsOfEach ==
    ASSUME AvwapAssumption, AvwapIInv, refresh # NoCall
    PROVE  Cardinality({refresh.found[i][1] : i \in DOMAIN refresh.found}) = Len(refresh.found)
<1> DEFINE n == Len(refresh.found)
           symbols == {refresh.found[i][1] : i \in 1..n}
           symbol == [i \in 1..n |-> refresh.found[i][1]]
<1>1. RefreshTyped /\ FindingsAreSound
  BY DEF AvwapIInv, RefreshIsSound
<1>2. n \in Nat /\ DOMAIN refresh.found = 1..n
  BY <1>1 DEF RefreshTyped
<1>3. symbol \in Surjection(1..n, symbols)
  BY DEF Surjection
<1>4. symbol \in [1..n -> symbols] /\ \A i, j \in 1..n : symbol[i] = symbol[j] => i = j
  BY <1>1 DEF FindingsAreSound
<1> HIDE DEF n, symbols, symbol
<1>5. symbol \in Injection(1..n, symbols)
  BY <1>4 DEF Injection, IsInjective
<1>6. IsFiniteSet(1..n) /\ Cardinality(1..n) = n
  BY <1>2, FS_Interval
<1>7. Cardinality(symbols) = n
  BY <1>3, <1>5, <1>6, FS_Surjection
<1> QED
  BY <1>2, <1>7 DEF n, symbols

\* The inductive invariant implies the properties.
LEMMA AveragesFollow ==
    ASSUME AvwapAssumption, AvwapIInv
    PROVE  AveragesAreSound
<1>1. AvwapTyped /\ SnapshotsAreSound
  BY DEF AvwapIInv
<1>2. \A s \in Selected, d \in instance.runs : rows[s][d] \in Snapshots
  BY <1>1 DEF AvwapTyped
<1>3. AvwapTypeOK
  BY <1>1, <1>2, RowsOfEach DEF AvwapTypeOK, AvwapTyped, SnapshotsAreSound, Snapshots
<1>4. FreshIsWhole /\ AvwapIsPaid
  BY <1>1 DEF FreshIsWhole, AvwapIsPaid, FreshRows, SnapshotsAreSound, IsSound
<1>5. ExcusedIsShort
  BY <1>1 DEF ExcusedIsShort, SnapshotsAreSound, IsSound
<1>6. FailureHidesNothing
  BY <1>1, LatestIsRead DEF FailureHidesNothing
<1> QED
  BY <1>3, <1>4, <1>5, <1>6 DEF AveragesAreSound, AvwapIInv

\* Only a commit writes rows, and it writes none that was fresh when its call began.
LEMMA FreshIsKept ==
    ASSUME AvwapAssumption, AvwapIInv, [AvwapNext]_avwapVars, NEW s \in Selected, NEW d \in instance.runs,
           rows[s][d].freshness = "fresh"
    PROVE  rows'[s][d] = rows[s][d]
<1>1. CASE rows' = rows
  BY <1>1
<1>2. CASE CommitAvwap
  <2>1. RefreshIsSound
    BY <1>2, CommitFacts
  <2>2. d = refresh.date => s \in refresh.fresh
    BY <2>1 DEF RefreshIsSound
  <2> QED
    BY <1>2, <2>2, CommitFacts
<1> QED
  BY <1>1, <1>2 DEF AvwapNext, avwapVars, Ingest, StartAvwap, PassOver, FetchHistory, AbortAvwap

\* AveragesAreRight (phase1_avwap/service.py, provider.py, calculator.py and
\* projection.py): for any stocks, bars, archives and answers of the sources, a
\* fresh snapshot rests on a history without a hole, its averages lie between the
\* prices paid, only short listings are excused, the step's status tells what is
\* missing, a refusal is remembered, a failure hides nothing, and what is fresh
\* stays.
THEOREM AveragesRight == ASSUME AvwapAssumption PROVE AvwapSpec => AveragesAreRight
<1>1. AvwapIInv => AveragesAreSound
  BY AveragesFollow
<1>2. AvwapIInv /\ [AvwapNext]_avwapVars =>
        [\A s \in Selected : \A d \in instance.runs :
            rows[s][d].freshness = "fresh" => rows'[s][d] = rows[s][d]]_avwapVars
  BY FreshIsKept
<1>3. AvwapSpec => []AveragesAreSound
  BY <1>1, AveragesSafe, PTL
<1>4. AvwapSpec => FreshStays
  BY <1>2, AveragesSafe, PTL DEF AvwapSpec, FreshStays
<1> QED
  BY <1>3, <1>4 DEF AveragesAreRight
=============================================================================
