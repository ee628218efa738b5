---------------------- MODULE InstitutionalArchiveProofs ----------------------
(***************************************************************************)
(* What holds of the archive of institutional reports for every calendar,  *)
(* every set of reports and every range of a backfill: what readers rank   *)
(* is one whole report per date and market, a run of buying days has no    *)
(* hole, a backfill that reports no error has left none, and two calls     *)
(* never wait for each other.                                              *)
(***************************************************************************)
EXTENDS InstitutionalArchive, FiniteSetTheorems, WellFoundedInduction, TLAPS

-----------------------------------------------------------------------------
(* Numbers and sets *)

\* Every set of natural numbers has a least one.
LEMMA LeastNat ==
    ASSUME NEW T \in SUBSET Nat, T # {}
    PROVE  \E x \in T : \A y \in T : x <= y
<1> DEFINE R == OpToRel(<, Nat)
<1>1. IsWellFoundedOn(R, Nat)
  BY NatLessThanWellFounded
<1>2. \A x, y \in Nat : y < x => <<y, x>> \in R
  BY DEF OpToRel
<1> HIDE DEF R
<1>3. PICK x \in T : \A y \in T : ~(<<y, x>> \in R)
  BY <1>1, WFMin, Zenon
<1>4. \A y \in T : ~(y < x)
  BY <1>2, <1>3
<1> QED BY <1>3, <1>4

\* So Min is what its name says.
LEMMA MinNat ==
    ASSUME NEW T \in SUBSET Nat, T # {}
    PROVE  Min(T) \in T /\ \A y \in T : Min(T) <= y
BY LeastNat DEF Min

\* Max is what its name says of numbers that are bounded.
LEMMA MaxBelow ==
    ASSUME NEW n \in Nat, NEW T \in SUBSET (0..n), T # {}
    PROVE  Max(T) \in T /\ \A y \in T : Max(T) >= y
<1> DEFINE U == {n - x : x \in T}
<1>1. U \in SUBSET Nat
  OBVIOUS
<1>2. U # {}
  OBVIOUS
<1> HIDE DEF U
<1>3. PICK u \in U : \A y \in U : u <= y
  BY <1>1, <1>2, LeastNat
<1>4. PICK x \in T : u = n - x
  BY <1>3 DEF U
<1>5. \A y \in T : n - y \in U
  BY DEF U
<1>6. \A y \in T : x >= y
  BY <1>3, <1>4, <1>5
<1> QED BY <1>6 DEF Max

\* Part of a finite set of dates is finite and no larger.
LEMMA PartOf ==
    ASSUME NEW n \in Nat, NEW S \in SUBSET (1..n), NEW T \in SUBSET S
    PROVE  /\ IsFiniteSet(T) /\ IsFiniteSet(S)
           /\ Cardinality(T) \in Nat /\ Cardinality(S) \in Nat
           /\ Cardinality(T) <= Cardinality(S)
<1>1. IsFiniteSet(1..n)
  BY FS_Interval
<1> QED BY <1>1, FS_Subset, FS_CardinalityType

-----------------------------------------------------------------------------
(* Windows of dates *)

\* The last date of a window is among its last dates.
LEMMA LastIsLast ==
    ASSUME NEW r \in Nat, NEW dates \in SUBSET (1..r), r \in dates, NEW k \in Nat \ {0}
    PROVE  r \in LastOf(dates, k) /\ LastOf(dates, k) \subseteq dates
<1>1. \A e \in dates : ~(e > r)
  OBVIOUS
<1>2. {e \in dates : e > r} = {}
  BY <1>1
<1>3. Cardinality({e \in dates : e > r}) < k
  BY <1>2, FS_EmptySet
<1> QED BY <1>3 DEF LastOf

\* The weekdays of a window after date x.
After(dates, x) == {e \in dates : e > x}

\* A window that ends on date r, whose last k dates follow one another without
\* a missing weekday, has the last weekdays up to r among them, as many as it
\* has dates and as k.
LEMMA UnbrokenRun ==
    ASSUME NEW r \in Dates, NEW dates \in SUBSET ((1..r) \ Weekend), r \in dates,
           NEW k \in Nat \ {0}, NEW least \in 0..k, Cardinality(dates) >= least,
           Contiguous(LastOf(dates, k))
    PROVE  LastOf(1..r \ Weekend, least) \subseteq LastOf(dates, k)
<1> DEFINE L == LastOf(dates, k)
           W == (1..r) \ Weekend
<1>1. /\ LastDate \in Nat /\ r \in Nat /\ r <= LastDate /\ least \in Nat /\ k \in Nat
      /\ W \in SUBSET (1..r) /\ dates \in SUBSET (1..r) /\ dates \subseteq W
      /\ dates \subseteq Nat /\ W \subseteq Nat
  BY RunDateAssumption DEF Dates
<1>2. r \in L /\ L \subseteq dates
  BY <1>1, LastIsLast
<1>3. Contiguous(L) /\ \A x : x \in dates /\ x \notin L => ~(Cardinality(After(dates, x)) < k)
  BY DEF LastOf, After
<1>4. SUFFICES ASSUME NEW w \in W, Cardinality(After(W, w)) < least, w \notin L
               PROVE  FALSE
  BY DEF LastOf, After
<1>5. \A w1 \in W : w1 # w /\ ~(w1 < w) => w1 > w
  BY <1>1
<1>6. w \notin Weekend /\ w \in 1..r
  OBVIOUS
<1> HIDE DEF L, W
<1>7. \A S \in SUBSET After(W, w) : ~(Cardinality(S) >= least)
  <2> SUFFICES ASSUME NEW S \in SUBSET After(W, w) PROVE ~(Cardinality(S) >= least)
    OBVIOUS
  <2>1. After(W, w) \in SUBSET (1..r)
    BY <1>1 DEF After
  <2>2. /\ Cardinality(S) \in Nat /\ Cardinality(After(W, w)) \in Nat
        /\ Cardinality(S) <= Cardinality(After(W, w))
    BY <1>1, <2>1, PartOf
  <2> QED BY <1>1, <1>4, <2>2
<1>8. \A x \in dates : x \notin L => Cardinality(After(dates, x)) >= least
  <2> SUFFICES ASSUME NEW x \in dates, x \notin L
               PROVE  Cardinality(After(dates, x)) >= least
    OBVIOUS
  <2>1. After(dates, x) \in SUBSET dates
    BY DEF After
  <2>2. Cardinality(After(dates, x)) \in Nat
    BY <1>1, <2>1, PartOf
  <2> QED BY <1>1, <1>3, <2>2
<1>9. w \notin dates
  <2> SUFFICES ASSUME w \in dates PROVE FALSE
    OBVIOUS
  <2>1. After(dates, w) \in SUBSET After(W, w)
    BY <1>1 DEF After
  <2> QED BY <1>4, <1>7, <1>8, <2>1
<1>10. \A x \in dates : ~(x < w) => x > w
  BY <1>1, <1>5, <1>9
<1> DEFINE Below == {d \in dates : d < w}
<1>11. CASE Below = {}
  <2>1. dates \in SUBSET After(W, w)
    BY <1>1, <1>10, <1>11 DEF After
  <2> QED BY <1>7, <2>1
<1>12. CASE Below # {}
  <2>1. Below \in SUBSET (0..r)
    <3>1. \A e \in dates : e \in 0..r
      BY <1>1
    <3> QED BY <3>1
  <2> DEFINE d == Max(Below)
  <2>2. d \in Below /\ \A y \in Below : d >= y
    BY <1>1, <1>12, <2>1, MaxBelow
  <2> HIDE DEF d
  <2>3. d \in dates /\ d < w /\ d \in Nat /\ \A y \in dates : y < w => d >= y
    BY <1>1, <2>2
  <2>4. \A x \in dates : x > d => x > w
    BY <1>1, <1>10, <2>3
  <2>5. CASE d \notin L
    <3>1. After(dates, d) \in SUBSET After(W, w)
      BY <1>1, <2>4 DEF After
    <3> QED BY <1>7, <1>8, <2>3, <2>5, <3>1
  <2>6. CASE d \in L
    <3>1. r > d
      BY <1>1, <1>6, <2>3
    <3>2. NextWeekday(d) \in L
      BY <1>2, <1>3, <2>6, <3>1 DEF Contiguous
    <3> DEFINE T == {e \in (d + 1)..(LastDate + 7) : e \notin Weekend}
    <3>3. T \in SUBSET Nat /\ w \in T
      BY <1>1, <1>6, <2>3
    <3> HIDE DEF T
    <3>4. Min(T) \in T /\ Min(T) <= w
      BY <3>3, MinNat
    <3>5. NextWeekday(d) = Min(T)
      BY DEF NextWeekday, T
    <3>6. NextWeekday(d) > d /\ NextWeekday(d) <= w
      BY <1>1, <2>3, <3>4, <3>5 DEF T
    <3>7. NextWeekday(d) \in dates /\ NextWeekday(d) \in Nat /\ w \in Nat
      BY <1>1, <1>2, <1>6, <3>2
    <3>8. NextWeekday(d) > w
      BY <2>4, <3>6, <3>7
    <3> HIDE DEF NextWeekday
    <3> QED BY <3>6, <3>7, <3>8
  <2> QED BY <2>5, <2>6
<1> QED BY <1>11, <1>12

-----------------------------------------------------------------------------
(* Ranking a window *)

\* The net of a single actor is what the report says.
LEMMA NetOfOne ==
    ASSUME NEW window, NEW s, NEW d, NEW a, window[d][s][a] \in Int
    PROVE  Net(window, s, d, {a}) = window[d][s][a]
<1> DEFINE One(x)   == CHOOSE y \in x : TRUE
           Sum(h, x) == IF x = {} THEN 0 ELSE window[d][s][One(x)] + h[x \ {One(x)}]
           Folds(h) == h = [x \in SUBSET {a} |-> Sum(h, x)]
           g        == [x \in SUBSET {a} |-> IF x = {} THEN 0 ELSE window[d][s][a]]
           fold     == CHOOSE h : Folds(h)
<1>1. One({a}) = a /\ {a} \ {a} = {} /\ {} \in SUBSET {a} /\ {a} # {}
      /\ \A x \in SUBSET {a} : x = {} \/ x = {a}
  OBVIOUS
<1>2. Folds(g)
  <2>1. ASSUME NEW x \in SUBSET {a}
        PROVE  g[x] = Sum(g, x)
    BY <1>1, <2>1
  <2> QED BY <2>1
<1>3. Folds(fold)
  BY <1>2
<1>4. Net(window, s, d, {a}) = fold[{a}]
  BY DEF Net, MapThenSumSet, MapThenFoldSet
<1>5. fold = [x \in SUBSET {a} |-> Sum(fold, x)]
  BY <1>3
<1> HIDE DEF fold
<1>6. fold[{}] = 0 /\ fold[{a}] = window[d][s][a] + fold[{}]
  BY <1>1, <1>5
<1> QED BY <1>4, <1>6

\* A run of k buying days that Trailing finds is one.
LEMMA TrailingRuns ==
    ASSUME NEW r \in Dates, NEW dates \in SUBSET (1..r), NEW net
    PROVE  /\ Trailing(net, dates) \in 0..Cardinality(dates)
           /\ \A d \in LastOf(dates, Trailing(net, dates)) : net[d] > 0
           /\ Contiguous(LastOf(dates, Trailing(net, dates)))
<1> DEFINE Runs == {k \in 0..Cardinality(dates) :
                      /\ \A d \in LastOf(dates, k) : net[d] > 0
                      /\ Contiguous(LastOf(dates, k))}
<1>1. r \in Nat /\ Cardinality(dates) \in Nat
  <2>1. r \in Nat
    BY DEF Dates
  <2> QED BY <2>1, PartOf
<1>2. LastOf(dates, 0) = {}
  <2>1. \A d \in dates : ~(Cardinality({e \in dates : e > d}) < 0)
    <3> SUFFICES ASSUME NEW d \in dates
                 PROVE  ~(Cardinality({e \in dates : e > d}) < 0)
      OBVIOUS
    <3>1. {e \in dates : e > d} \in SUBSET dates
      OBVIOUS
    <3>2. Cardinality({e \in dates : e > d}) \in Nat
      BY <1>1, <3>1, PartOf
    <3> QED BY <3>2
  <2> QED BY <2>1 DEF LastOf
<1>3. 0 \in Runs
  BY <1>1, <1>2 DEF Contiguous
<1>4. Runs \in SUBSET (0..Cardinality(dates)) /\ Runs # {}
  BY <1>3
<1> HIDE DEF Runs
<1>5. Max(Runs) \in Runs
  BY <1>1, <1>4, MaxBelow
<1>6. Trailing(net, dates) = Max(Runs)
  BY DEF Trailing, Runs
<1>7. \A k \in Runs : /\ k \in 0..Cardinality(dates)
                      /\ \A d \in LastOf(dates, k) : net[d] > 0
                      /\ Contiguous(LastOf(dates, k))
  BY DEF Runs
<1> QED BY <1>5, <1>6, <1>7

\* The stocks ranked by their run up to the last date have one.
LEMMA RankedRun ==
    ASSUME NEW window, NEW dates, NEW actors, NEW least,
           NEW s \in DOMAIN RankRuns(window, dates, actors, TRUE, least)
    PROVE  Trailing(NetsOf(window, s, actors), dates) >= least
BY DEF RankRuns, Placed

-----------------------------------------------------------------------------
(* The inductive invariant *)

\* The version of the report of a date and market has been published.
IsPublished(d, m, v) == v \in 1..published[d][m]

PublishedInv ==
    /\ published = [d \in Dates |-> [m \in MarketSet |-> published[d][m]]]
    /\ \A d \in Dates, m \in MarketSet : published[d][m] \in 0..Len(Report[d][m])

\* Every snapshot is of a published version.
ArchiveInv ==
    /\ archive = [d \in Dates |-> [m \in MarketSet |-> archive[d][m]]]
    /\ \A d \in Dates, m \in MarketSet :
         \/ archive[d][m] = NoSnapshot
         \/ /\ archive[d][m] = [hash |-> archive[d][m].hash, rows |-> archive[d][m].rows]
            /\ IsPublished(d, m, archive[d][m].hash)

JobStates == [phase : Phases, date : Dates, tries : [MarketSet -> Nat],
              got : [MarketSet -> Nat], todo : SUBSET MarketSet, left : Seq(Dates),
              errors : BOOLEAN, repair : BOOLEAN]

\* What a call has fetched, and is about to write, has been published.
JobsInv ==
    /\ jobs \in [Jobs -> JobStates]
    /\ \A j \in Jobs, m \in MarketSet :
         jobs[j].got[m] # 0 => IsPublished(jobs[j].date, m, jobs[j].got[m])

Precedes(m, n) ==
    \E i, k \in 1..Len(Markets) : i < k /\ Markets[i] = m /\ Markets[k] = n

\* A job that is writing date d has written market m, and no market that comes
\* before it is left.
HasWritten(job, d, m) ==
    /\ job.phase = "write" /\ job.date = d /\ m \notin job.todo
    /\ \A n \in job.todo : Precedes(m, n)

\* A lock is held by the job that wrote the snapshot, in market order.
LocksInv ==
    /\ locks = [d \in Dates |-> [m \in MarketSet |-> locks[d][m]]]
    /\ \A d \in Dates, m \in MarketSet :
         /\ locks[d][m] \in Jobs \cup {Free}
         /\ locks[d][m] # Free => HasWritten(jobs[locks[d][m]], d, m)

\* Both markets of a date have a snapshot with the rows of its report.
WholeAt(d) == \A m \in MarketSet : Sound(d, m, archive[d][m].hash, archive[d][m].rows)

\* The dates a backfill need not archive: the market is closed, or both
\* snapshots are whole already.
Settled == Weekend \cup Closed \cup {d \in Dates : WholeAt(d)}

\* A backfill that reports no error has nothing behind it but such dates: any
\* other date of its range is the one it works on, or still left.
NoHole(b, settled) ==
    b.phase # "idle" /\ ~b.errors =>
        \A i \in 1..Len(Asked) :
            \/ Asked[i] \in settled
            \/ b.phase # "ended" /\ Asked[i] = b.date
            \/ b.phase # "ended" /\ \E k \in 1..Len(b.left) : Asked[i] = b.left[k]

BackfillInv == NoHole(jobs["backfill"], Settled)

\* A reader holds hashes of published versions, of dates that are no weekend.
ReaderInv ==
    reader.phase = "rows" =>
        /\ DOMAIN reader.hashes \in SUBSET ((1..RunDate) \ Weekend)
        /\ \A d \in DOMAIN reader.hashes, m \in MarketSet :
             IsPublished(d, m, reader.hashes[d][m])

\* A window has one published report of each of its dates and markets.
WindowIsWhole(window) ==
    /\ DOMAIN window \in SUBSET ((1..RunDate) \ Weekend)
    /\ \A d \in DOMAIN window : DOMAIN window[d] \subseteq Stocks
    /\ \A d \in DOMAIN window, m \in MarketSet :
         \E v \in 1..published[d][m] :
             [s \in Symbols[m] \cap DOMAIN window[d] |-> window[d][s]] = Report[d][m][v]

ServedInv ==
    served.kind = "tracks" =>
        /\ WindowIsWhole(served.window) /\ RunDate \in DOMAIN served.window
        /\ served.tracks = Tracks(served.window)
        /\ served.blocking = Blocking(LastOf(DOMAIN served.window, MarketDays))

IInv == /\ setting \in Settings
        /\ PublishedInv /\ ArchiveInv /\ JobsInv /\ LocksInv
        /\ BackfillInv /\ ReaderInv /\ ServedInv

-----------------------------------------------------------------------------
(* What readers see follows from the invariant *)

\* A row of a window is the row of a report.
LEMMA RowsAreNumbers ==
    ASSUME PublishedInv, NEW window, WindowIsWhole(window), NEW d \in DOMAIN window,
           NEW s \in DOMAIN window[d], NEW a \in {"foreign", "trust"}
    PROVE  window[d][s][a] \in Int
<1>1. PICK m \in MarketSet : s \in Symbols[m]
  BY DEF WindowIsWhole, Stocks
<1>2. d \in Dates
  BY RunDateAssumption DEF WindowIsWhole, Dates
<1>3. PICK v \in 1..published[d][m] :
        [x \in Symbols[m] \cap DOMAIN window[d] |-> window[d][x]] = Report[d][m][v]
  BY <1>1 DEF WindowIsWhole
<1>4. v \in 1..Len(Report[d][m])
  BY <1>1, <1>2, <1>3, ReportAssumption DEF PublishedInv
<1>5. IsReport(m, Report[d][m][v])
  BY <1>1, <1>2, <1>4, ReportAssumption
<1>6. s \in DOMAIN Report[d][m][v] /\ Report[d][m][v][s] = window[d][s]
  BY <1>1, <1>3
<1> QED BY <1>5, <1>6 DEF IsReport

\* The window a request ranked ends on the run date, which is a weekday, and
\* so do the dates it ranks.
LEMMA RankedDates ==
    ASSUME NEW window, WindowIsWhole(window), RunDate \in DOMAIN window
    PROVE  /\ RunDate \in LastOf(DOMAIN window, MarketDays)
           /\ LastOf(DOMAIN window, MarketDays) \in SUBSET ((1..RunDate) \ Weekend)
           /\ LastOf(DOMAIN window, MarketDays) \in SUBSET (DOMAIN window)
<1>1. RunDate \in Nat /\ MarketDays \in Nat \ {0}
  BY RunDateAssumption, WindowAssumption DEF Dates
<1>2. DOMAIN window \in SUBSET (1..RunDate)
  BY DEF WindowIsWhole
<1> QED BY <1>1, <1>2, LastIsLast DEF WindowIsWhole

\* What a run of buying days claims holds on every weekday of it.
LEMMA Unbroken == PublishedInv /\ ServedInv => AccumulationIsUnbroken
<1> SUFFICES ASSUME PublishedInv, ServedInv, served.kind = "tracks",
                    NEW a \in {"foreign", "trust"},
                    NEW s \in DOMAIN served.tracks.recent[a]
             PROVE  /\ LastOf(1..RunDate \ Weekend, MinStreak) \subseteq DOMAIN served.window
                    /\ \A d \in LastOf(1..RunDate \ Weekend, MinStreak) :
                         /\ s \in DOMAIN served.window[d]
                         /\ served.window[d][s][a] > 0
  BY DEF AccumulationIsUnbroken
<1>1. PICK window : window = served.window
  OBVIOUS
<1>2. WindowIsWhole(window) /\ RunDate \in DOMAIN window
      /\ s \in DOMAIN Tracks(window).recent[a]
  BY <1>1 DEF ServedInv
<1> DEFINE dates == LastOf(DOMAIN window, MarketDays)
           net   == NetsOf(window, s, {a})
           k     == Trailing(net, dates)
<1>3. /\ RunDate \in dates /\ dates \in SUBSET ((1..RunDate) \ Weekend)
      /\ dates \in SUBSET (DOMAIN window)
  BY <1>2, RankedDates
<1>4. RunDate \in Dates /\ MinStreak \in Nat \ {0} /\ RunDate \in Nat
  BY RunDateAssumption, WindowAssumption DEF Dates
<1>5. ~(Cardinality(dates) < MinStreak)
      /\ s \in DOMAIN RankRuns(window, dates, {a}, TRUE, MinStreak)
  BY <1>2 DEF Tracks
<1>6. k >= MinStreak
  BY <1>5, RankedRun
<1> HIDE DEF dates, net, k
<1>7. dates \in SUBSET (1..RunDate)
  BY <1>3
<1>8. /\ k \in 0..Cardinality(dates) /\ Contiguous(LastOf(dates, k))
      /\ \A d \in LastOf(dates, k) : net[d] > 0
  BY <1>4, <1>7, TrailingRuns DEF k
<1>9. Cardinality(dates) \in Nat /\ k \in Nat \ {0} /\ MinStreak \in 0..k
      /\ Cardinality(dates) >= MinStreak
  <2>1. Cardinality(dates) \in Nat
    BY <1>4, <1>7, PartOf
  <2> QED BY <1>4, <1>6, <1>8, <2>1
<1>10. LastOf(1..RunDate \ Weekend, MinStreak) \subseteq LastOf(dates, k)
  BY <1>3, <1>4, <1>8, <1>9, UnbrokenRun
<1>11. LastOf(dates, k) \subseteq dates
  BY DEF LastOf
<1>12. ASSUME NEW d \in LastOf(dates, k)
       PROVE  s \in DOMAIN window[d] /\ window[d][s][a] > 0
  <2>1. d \in DOMAIN window /\ net[d] > 0
    BY <1>3, <1>8, <1>11
  <2>2. net[d] = IF s \in DOMAIN window[d] THEN Net(window, s, d, {a}) ELSE 0
    BY <2>1 DEF net, NetsOf
  <2>3. s \in DOMAIN window[d]
    BY <2>1, <2>2
  <2>4. window[d][s][a] \in Int
    BY <1>2, <2>1, <2>3, RowsAreNumbers
  <2>5. Net(window, s, d, {a}) = window[d][s][a]
    BY <2>4, NetOfOne
  <2> QED BY <2>1, <2>2, <2>3, <2>5
<1> QED BY <1>1, <1>3, <1>10, <1>11, <1>12

\* A history without a blocking reason has every weekday it needs.
LEMMA Ready == ServedInv => ReadyIsWholeHistory
<1> SUFFICES ASSUME ServedInv, served.kind = "tracks", served.blocking = {}
             PROVE  LastOf(1..RunDate \ Weekend, FullHistory) \subseteq DOMAIN served.window
  BY DEF ReadyIsWholeHistory
<1> DEFINE window == served.window
           dates  == DOMAIN window
           last   == LastOf(dates, MarketDays)
<1>1. WindowIsWhole(window) /\ RunDate \in dates /\ Blocking(last) = {}
  BY DEF ServedInv
<1>2. last \in SUBSET dates /\ dates \in SUBSET ((1..RunDate) \ Weekend)
  BY <1>1, RankedDates DEF WindowIsWhole
<1>3. Contiguous(last) /\ ~(Cardinality(last) < FullHistory)
  BY <1>1 DEF Blocking
<1>4. RunDate \in Dates /\ RunDate \in Nat /\ MarketDays \in Nat \ {0}
      /\ FullHistory \in 0..MarketDays
  BY RunDateAssumption, WindowAssumption DEF Dates
<1> HIDE DEF window, dates
<1>5. Cardinality(dates) >= FullHistory
  <2>1. dates \in SUBSET (1..RunDate)
    BY <1>2
  <2>2. /\ Cardinality(last) \in Nat /\ Cardinality(dates) \in Nat
        /\ Cardinality(last) <= Cardinality(dates)
    BY <1>2, <1>4, <2>1, PartOf
  <2> HIDE DEF last
  <2> QED BY <1>3, <1>4, <2>2
<1>6. LastOf(1..RunDate \ Weekend, FullHistory) \subseteq last
  BY <1>1, <1>2, <1>3, <1>4, <1>5, UnbrokenRun
<1> QED BY <1>2, <1>6 DEF dates, window

\* Types, and one report per date and market.
LEMMA Served == IInv => TypeOK /\ ServedIsOneReport
<1> SUFFICES ASSUME IInv PROVE TypeOK /\ ServedIsOneReport
  OBVIOUS
<1>1. ServedIsOneReport
  BY DEF IInv, ServedInv, WindowIsWhole, ServedIsOneReport
<1>2. \A d \in Dates, m \in MarketSet : archive[d][m].hash \in 0..published[d][m]
  <2> SUFFICES ASSUME NEW d \in Dates, NEW m \in MarketSet
               PROVE  archive[d][m].hash \in 0..published[d][m]
    OBVIOUS
  <2>1. published[d][m] \in Nat
    BY ReportAssumption DEF IInv, PublishedInv
  <2>2. archive[d][m].hash = 0 \/ IsPublished(d, m, archive[d][m].hash)
    <3>1. archive[d][m] = NoSnapshot \/ IsPublished(d, m, archive[d][m].hash)
      BY DEF IInv, ArchiveInv
    <3> QED BY <3>1 DEF NoSnapshot
  <2> QED BY <2>1, <2>2 DEF IsPublished
<1>3. \A j \in Jobs : jobs[j].phase \in Phases
  BY DEF IInv, JobsInv, JobStates
<1>4. \A d \in Dates, m \in MarketSet :
         /\ locks[d][m] \in Jobs \cup {Free}
         /\ locks[d][m] # Free => /\ jobs[locks[d][m]].phase = "write"
                                  /\ jobs[locks[d][m]].date = d
  BY DEF IInv, LocksInv, HasWritten
<1> QED BY <1>1, <1>2, <1>3, <1>4 DEF TypeOK

-----------------------------------------------------------------------------
(* Steps of a call that touch neither the archive nor a lock *)

\* A call that is not running is a call.
LEMMA NoJobType ==
    /\ NoJob \in JobStates /\ \A m \in MarketSet : NoJob.got[m] = 0
    /\ NoJob.phase = "idle"
<1>1. 1 \in Dates
  BY RunDateAssumption DEF Dates
<1>2. <<>> \in Seq(Dates)
  OBVIOUS
<1> QED BY <1>1, <1>2 DEF NoJob, JobStates, Phases

\* The date a backfill turns to is the next of those left.
LEMMA NextDateInv ==
    ASSUME NEW left \in Seq(Dates), NEW errors \in BOOLEAN, NEW settled,
           errors \/ \A i \in 1..Len(Asked) :
                        \/ Asked[i] \in settled
                        \/ \E k \in 1..Len(left) : Asked[i] = left[k]
    PROVE  /\ NextDate(left, errors) \in JobStates
           /\ \A m \in MarketSet : NextDate(left, errors).got[m] = 0
           /\ NoHole(NextDate(left, errors), settled)
           /\ NextDate(left, errors).phase # "write"
<1>1. CASE left = <<>>
  <2>1. NextDate(left, errors) = [NoJob EXCEPT !.phase = "ended", !.errors = errors]
    BY <1>1 DEF NextDate
  <2>2. \A i \in 1..Len(left) : FALSE
    BY <1>1
  <2>3. [NoJob EXCEPT !.phase = "ended", !.errors = errors] \in JobStates
        /\ [NoJob EXCEPT !.phase = "ended", !.errors = errors].phase = "ended"
        /\ [NoJob EXCEPT !.phase = "ended", !.errors = errors].errors = errors
        /\ [NoJob EXCEPT !.phase = "ended", !.errors = errors].got = NoJob.got
    BY NoJobType DEF JobStates, Phases
  <2> QED BY <2>1, <2>2, <2>3, NoJobType DEF NoHole
<1>2. CASE left # <<>>
  <2> DEFINE b == [NoJob EXCEPT !.phase = "check", !.date = Head(left),
                                !.left = Tail(left), !.errors = errors]
  <2>1. NextDate(left, errors) = b
    BY <1>2 DEF NextDate
  <2>2. /\ Head(left) \in Dates /\ Tail(left) \in Seq(Dates) /\ Len(left) \in Nat
        /\ Head(left) = left[1] /\ Len(Tail(left)) = Len(left) - 1
        /\ \A k \in 1..(Len(left) - 1) : Tail(left)[k] = left[k + 1]
    BY <1>2
  <2>3. b \in JobStates /\ b.phase = "check" /\ b.errors = errors
        /\ b.got = NoJob.got /\ b.date = Head(left) /\ b.left = Tail(left)
    BY <2>2, NoJobType DEF JobStates, Phases
  <2> HIDE DEF b
  <2>4. \A k \in 1..Len(left) :
          left[k] = b.date \/ \E n \in 1..Len(b.left) : left[k] = b.left[n]
    <3> SUFFICES ASSUME NEW k \in 1..Len(left), k # 1
                 PROVE  \E n \in 1..Len(b.left) : left[k] = b.left[n]
      BY <2>2, <2>3
    <3>1. k - 1 \in 1..(Len(left) - 1) /\ (k - 1) + 1 = k
      BY <2>2
    <3>2. left[k] = Tail(left)[k - 1]
      BY <2>2, <3>1
    <3> QED BY <2>2, <2>3, <3>1, <3>2
  <2>5. NoHole(b, settled)
    BY <2>3, <2>4 DEF NoHole
  <2> QED BY <2>1, <2>3, <2>5, NoJobType
<1> QED BY <1>1, <1>2

\* What is archived, published and settled stays so while nothing changes it.
LEMMA Frame ==
    ASSUME IInv, UNCHANGED <<setting, published, archive>>
    PROVE  /\ (setting \in Settings)' /\ PublishedInv' /\ ArchiveInv'
           /\ Settled' = Settled
           /\ \A d, m, v : IsPublished(d, m, v)' = IsPublished(d, m, v)
BY DEF IInv, PublishedInv, ArchiveInv, IsPublished, Settled, Closed, WholeAt

\* So do a reader and an answer.
LEMMA ReadersFrame ==
    ASSUME IInv, UNCHANGED <<published, reader, served>>
    PROVE  ReaderInv' /\ ServedInv'
BY DEF IInv, ReaderInv, ServedInv, WindowIsWhole, IsPublished

\* A step that only moves on a call that is not writing.
LEMMA JobMoves ==
    ASSUME IInv, NEW j \in Jobs, NEW s \in JobStates,
           jobs' = [jobs EXCEPT ![j] = s],
           UNCHANGED <<setting, published, archive, locks, reader, served>>,
           jobs[j].phase # "write",
           \A m \in MarketSet : s.got[m] # 0 => IsPublished(s.date, m, s.got[m]),
           j = "backfill" => NoHole(s, Settled)
    PROVE  IInv'
<1>1. jobs \in [Jobs -> JobStates]
  BY DEF IInv, JobsInv
<1>2. JobsInv'
  <2>1. jobs' \in [Jobs -> JobStates]
    BY <1>1
  <2>2. \A k \in Jobs : jobs'[k] = IF k = j THEN s ELSE jobs[k]
    BY <1>1
  <2>3. \A k \in Jobs, m \in MarketSet :
          jobs'[k].got[m] # 0 => IsPublished(jobs'[k].date, m, jobs'[k].got[m])
    BY <2>2 DEF IInv, JobsInv
  <2> QED BY <2>1, <2>3, Frame DEF JobsInv, IsPublished
<1>3. LocksInv'
  <2>1. ASSUME NEW d \in Dates, NEW m \in MarketSet, locks[d][m] # Free
        PROVE  locks[d][m] \in Jobs /\ locks[d][m] # j
               /\ HasWritten(jobs[locks[d][m]], d, m)
    BY <2>1 DEF IInv, LocksInv, HasWritten
  <2>2. \A k \in Jobs : k # j => jobs'[k] = jobs[k]
    BY <1>1
  <2> QED BY <2>1, <2>2 DEF IInv, LocksInv
<1>4. BackfillInv'
  <2>1. "backfill" \in Jobs
    BY DEF Jobs
  <2>2. jobs'["backfill"] = IF j = "backfill" THEN s ELSE jobs["backfill"]
    BY <1>1, <2>1
  <2>3. NoHole(jobs'["backfill"], Settled)
    BY <2>2 DEF IInv, BackfillInv
  <2> QED BY <2>3, Frame DEF BackfillInv
<1> QED BY <1>2, <1>3, <1>4, Frame, ReadersFrame DEF IInv

\* A call begins.
LEMMA StartStep ==
    ASSUME IInv, StartRefresh \/ StartBackfill
    PROVE  IInv'
<1>1. CASE StartRefresh
  <2>1. RunDate \in Dates
    BY RunDateAssumption
  <2> DEFINE s == Fetching(NoJob, RunDate)
  <2>2. s \in JobStates /\ \A m \in MarketSet : s.got[m] = 0
    BY <2>1, NoJobType DEF Fetching, JobStates, Phases
  <2> HIDE DEF s
  <2>3. /\ jobs' = [jobs EXCEPT !["refresh"] = s] /\ jobs["refresh"].phase # "write"
        /\ UNCHANGED <<setting, published, archive, locks, reader, served>>
        /\ "refresh" \in Jobs /\ "refresh" # "backfill"
    BY <1>1 DEF StartRefresh, Become, Jobs, s
  <2> QED BY <2>2, <2>3, JobMoves
<1>2. CASE StartBackfill
  <2>1. \A i \in 1..Len(Asked) : \E k \in 1..Len(Asked) : Asked[i] = Asked[k]
    OBVIOUS
  <2> DEFINE s == NextDate(Asked, FALSE)
  <2>2. PICK settled : settled = Settled
    OBVIOUS
  <2>3. s \in JobStates /\ (\A m \in MarketSet : s.got[m] = 0) /\ NoHole(s, settled)
    BY <2>1, AskedAssumption, NextDateInv
  <2> HIDE DEF s
  <2>4. /\ jobs' = [jobs EXCEPT !["backfill"] = s] /\ jobs["backfill"].phase # "write"
        /\ UNCHANGED <<setting, published, archive, locks, reader, served>>
        /\ "backfill" \in Jobs
    BY <1>2 DEF StartBackfill, Become, Jobs, s
  <2> QED BY <2>2, <2>3, <2>4, JobMoves
<1> QED BY <1>1, <1>2

\* A backfill decides what a date needs, or returns.
LEMMA BackfillStep ==
    ASSUME IInv, CheckDate \/ ResolveSession \/ EndBackfill
    PROVE  IInv'
<1>1. PICK b : b = jobs["backfill"]
  OBVIOUS
<1>2. PICK settled : settled = Settled
  OBVIOUS
<1>3. /\ "backfill" \in Jobs /\ b \in JobStates /\ NoHole(b, settled)
      /\ \A m \in MarketSet : b.got[m] # 0 => IsPublished(b.date, m, b.got[m])
  BY <1>1, <1>2 DEF Jobs, IInv, JobsInv, BackfillInv
<1>4. /\ b.date \in Dates /\ b.left \in Seq(Dates)
      /\ b.errors \in BOOLEAN /\ b.repair \in BOOLEAN
  BY <1>3 DEF JobStates
<1>5. /\ UNCHANGED <<setting, published, archive, locks, reader, served>>
      /\ b.phase \in {"check", "session", "ended"}
  BY <1>1 DEF CheckDate, ResolveSession, EndBackfill
<1>6. ASSUME NEW s \in JobStates, jobs' = [jobs EXCEPT !["backfill"] = s],
             NoHole(s, settled),
             \A m \in MarketSet : s.got[m] # 0 => IsPublished(s.date, m, s.got[m])
      PROVE  IInv'
  BY <1>1, <1>2, <1>3, <1>5, <1>6, JobMoves
<1>7. ASSUME NEW errors \in BOOLEAN,
             b.errors => errors,
             errors \/ b.date \in settled, b.phase # "ended",
             jobs' = [jobs EXCEPT !["backfill"] = NextDate(b.left, errors)]
      PROVE  IInv'
  <2>1. errors \/ \A i \in 1..Len(Asked) :
                     \/ Asked[i] \in settled
                     \/ \E k \in 1..Len(b.left) : Asked[i] = b.left[k]
    BY <1>3, <1>5, <1>7 DEF NoHole
  <2> DEFINE s == NextDate(b.left, errors)
  <2>2. s \in JobStates /\ (\A m \in MarketSet : s.got[m] = 0) /\ NoHole(s, settled)
    BY <1>4, <2>1, NextDateInv
  <2> HIDE DEF s
  <2>3. jobs' = [jobs EXCEPT !["backfill"] = s]
    BY <1>7 DEF s
  <2> QED BY <1>6, <2>2, <2>3
<1>8. ASSUME NEW s \in JobStates, s.date = b.date, s.got = b.got, s.left = b.left,
             s.errors = b.errors, b.phase # "ended", s.phase # "ended",
             jobs' = [jobs EXCEPT !["backfill"] = s]
      PROVE  IInv'
  <2>1. NoHole(s, settled)
    BY <1>3, <1>5, <1>8 DEF NoHole
  <2> QED BY <1>3, <1>6, <1>8, <2>1
<1>9. CASE CheckDate
  <2> DEFINE whole == WholeAt(b.date)
  <2>1. PICK repair \in BOOLEAN :
          \/ /\ b.date \in Weekend \/ whole
             /\ jobs' = [jobs EXCEPT !["backfill"] = NextDate(b.left, b.errors)]
          \/ jobs' = [jobs EXCEPT !["backfill"] =
                        [b EXCEPT !.phase = "session", !.repair = repair]]
    BY <1>1, <1>9 DEF CheckDate, Become, WholeAt
  <2>2. CASE /\ b.date \in Weekend \/ whole
             /\ jobs' = [jobs EXCEPT !["backfill"] = NextDate(b.left, b.errors)]
    <3>1. b.date \in settled /\ b.phase # "ended"
      BY <1>1, <1>2, <1>4, <1>9, <2>2 DEF Settled, CheckDate
    <3> QED BY <1>4, <1>7, <2>2, <3>1
  <2>3. CASE jobs' = [jobs EXCEPT !["backfill"] =
                        [b EXCEPT !.phase = "session", !.repair = repair]]
    <3> DEFINE s == [b EXCEPT !.phase = "session", !.repair = repair]
    <3>1. /\ s \in JobStates /\ s.date = b.date /\ s.got = b.got /\ s.left = b.left
          /\ s.errors = b.errors /\ s.phase # "ended"
      BY <1>3 DEF JobStates, Phases
    <3>2. b.phase # "ended"
      BY <1>1, <1>9 DEF CheckDate
    <3> HIDE DEF s
    <3>3. jobs' = [jobs EXCEPT !["backfill"] = s]
      BY <2>3 DEF s
    <3> QED BY <1>8, <3>1, <3>2, <3>3
  <2> QED BY <2>1, <2>2, <2>3
<1>10. CASE ResolveSession
  <2>1. /\ b.phase # "ended"
        /\ \/ /\ b.date \in Closed
              /\ jobs' = [jobs EXCEPT !["backfill"] = NextDate(b.left, b.errors \/ b.repair)]
           \/ jobs' = [jobs EXCEPT !["backfill"] = Fetching(b, b.date)]
           \/ jobs' = [jobs EXCEPT !["backfill"] = NextDate(b.left, TRUE)]
    BY <1>1, <1>10 DEF ResolveSession, Become
  <2>2. CASE /\ b.date \in Closed
             /\ jobs' = [jobs EXCEPT !["backfill"] = NextDate(b.left, b.errors \/ b.repair)]
    <3>1. b.date \in settled
      BY <1>2, <2>2 DEF Settled
    <3>2. (b.errors \/ b.repair) \in BOOLEAN
      OBVIOUS
    <3>3. PICK errors \in BOOLEAN : errors = (b.errors \/ b.repair)
      BY <3>2
    <3>4. b.errors => errors
      BY <3>3
    <3>5. jobs' = [jobs EXCEPT !["backfill"] = NextDate(b.left, errors)]
      BY <2>2, <3>3
    <3> QED BY <1>7, <2>1, <3>1, <3>4, <3>5
  <2>3. CASE jobs' = [jobs EXCEPT !["backfill"] = Fetching(b, b.date)]
    <3> DEFINE s == Fetching(b, b.date)
    <3>1. /\ s \in JobStates /\ s.date = b.date /\ s.got = b.got /\ s.left = b.left
          /\ s.errors = b.errors /\ s.phase # "ended"
      BY <1>3 DEF JobStates, Phases, Fetching
    <3> HIDE DEF s
    <3>2. jobs' = [jobs EXCEPT !["backfill"] = s]
      BY <2>3 DEF s
    <3> QED BY <1>8, <2>1, <3>1, <3>2
  <2>4. CASE jobs' = [jobs EXCEPT !["backfill"] = NextDate(b.left, TRUE)]
    BY <1>7, <2>1, <2>4
  <2> QED BY <2>1, <2>2, <2>3, <2>4
<1>11. CASE EndBackfill
  <2>1. jobs' = [jobs EXCEPT !["backfill"] = NoJob]
    BY <1>11 DEF EndBackfill, Become
  <2>2. NoHole(NoJob, settled)
    BY NoJobType DEF NoHole
  <2> QED BY <1>6, <2>1, <2>2, NoJobType
<1> QED BY <1>9, <1>10, <1>11

\* A request ends or is tried again, and the transaction begins.
LEMMA FetchStep ==
    ASSUME IInv, NEW j \in Jobs,
           BeginWrites(j) \/ \E m \in MarketSet : Fetch(j, m)
    PROVE  IInv'
<1>1. PICK b : b = jobs[j]
  OBVIOUS
<1>2. PICK settled : settled = Settled
  OBVIOUS
<1>3. /\ b \in JobStates /\ b.date \in Dates
      /\ j = "backfill" => NoHole(b, settled)
      /\ \A m \in MarketSet : b.got[m] # 0 => IsPublished(b.date, m, b.got[m])
  BY <1>1, <1>2 DEF IInv, JobsInv, BackfillInv, JobStates
<1>4. /\ UNCHANGED <<setting, published, archive, locks, reader, served>>
      /\ b.phase = "fetch"
  BY <1>1 DEF BeginWrites, Fetch
<1>5. ASSUME NEW s \in JobStates, jobs' = [jobs EXCEPT ![j] = s],
             s.date = b.date, s.left = b.left, s.errors = b.errors,
             s.phase \in {"fetch", "write"},
             \A m \in MarketSet : s.got[m] # 0 => IsPublished(s.date, m, s.got[m])
      PROVE  IInv'
  <2>1. j = "backfill" => NoHole(s, settled)
    BY <1>3, <1>4, <1>5 DEF NoHole
  <2> QED BY <1>1, <1>2, <1>4, <1>5, <2>1, JobMoves
<1>6. CASE BeginWrites(j)
  <2> DEFINE s == [b EXCEPT !.phase = "write", !.tries = NoJob.tries,
                            !.todo = {m \in MarketSet : b.got[m] # 0}]
  <2>1. /\ s \in JobStates /\ s.date = b.date /\ s.left = b.left /\ s.errors = b.errors
        /\ s.phase = "write" /\ s.got = b.got
    BY <1>3 DEF JobStates, Phases, NoJob
  <2> HIDE DEF s
  <2>2. jobs' = [jobs EXCEPT ![j] = s]
    BY <1>1, <1>6 DEF BeginWrites, Become, s
  <2> QED BY <1>3, <1>5, <2>1, <2>2
<1>7. ASSUME NEW m \in MarketSet, Fetch(j, m) PROVE IInv'
  <2> DEFINE Ended(v) == [b EXCEPT !.got[m] = v, !.todo = b.todo \ {m}]
  <2>1. ASSUME NEW v \in Nat, v # 0 => IsPublished(b.date, m, v),
               jobs' = [jobs EXCEPT ![j] = Ended(v)]
        PROVE  IInv'
    <3> DEFINE s == Ended(v)
    <3>1. /\ s \in JobStates /\ s.date = b.date /\ s.left = b.left
          /\ s.errors = b.errors /\ s.phase = b.phase
          /\ s.got = [b.got EXCEPT ![m] = v]
      BY <1>3 DEF JobStates
    <3>2. \A n \in MarketSet : s.got[n] # 0 => IsPublished(b.date, n, s.got[n])
      <4>1. \A n \in MarketSet : s.got[n] = IF n = m THEN v ELSE b.got[n]
        BY <1>3, <3>1 DEF JobStates
      <4> HIDE DEF s
      <4> QED BY <1>3, <2>1, <4>1
    <3> HIDE DEF s
    <3>3. jobs' = [jobs EXCEPT ![j] = s]
      BY <2>1 DEF s
    <3> QED BY <1>4, <1>5, <3>1, <3>2, <3>3
  <2>2. ASSUME NEW tries \in Nat, jobs' = [jobs EXCEPT ![j] = [b EXCEPT !.tries[m] = tries]]
        PROVE  IInv'
    <3> DEFINE s == [b EXCEPT !.tries[m] = tries]
    <3>1. /\ s \in JobStates /\ s.date = b.date /\ s.left = b.left
          /\ s.errors = b.errors /\ s.phase = b.phase /\ s.got = b.got
      BY <1>3 DEF JobStates
    <3> HIDE DEF s
    <3>3. jobs' = [jobs EXCEPT ![j] = s]
      BY <2>2 DEF s
    <3> QED BY <1>3, <1>4, <1>5, <3>1, <3>3
  <2> HIDE DEF Ended
  <2>3. b.tries[m] + 1 \in Nat
    BY <1>3 DEF JobStates
  <2>4. \/ \E p \in Answers(b.date, m) :
             Accepts(p, b.date) /\ jobs' = [jobs EXCEPT ![j] = Ended(p.version)]
        \/ jobs' = [jobs EXCEPT ![j] = Ended(0)]
        \/ jobs' = [jobs EXCEPT ![j] = [b EXCEPT !.tries[m] = b.tries[m] + 1]]
    BY <1>1, <1>7 DEF Fetch, Become, Ended
  <2>5. ASSUME NEW p \in Answers(b.date, m), Accepts(p, b.date),
               jobs' = [jobs EXCEPT ![j] = Ended(p.version)]
        PROVE  IInv'
    <3>1. p.version \in Nat /\ p.version \in 1..published[b.date][m]
      BY <1>3, <2>5 DEF Answers, Accepts
    <3> QED BY <2>1, <2>5, <3>1 DEF IsPublished
  <2>6. CASE jobs' = [jobs EXCEPT ![j] = Ended(0)]
    BY <2>1, <2>6
  <2> QED BY <2>2, <2>3, <2>4, <2>5, <2>6
<1> QED BY <1>6, <1>7

-----------------------------------------------------------------------------
(* Steps of a transaction *)

\* The market written next comes before the others still to be written.
LEMMA FirstPrecedes ==
    ASSUME NEW todo \in SUBSET MarketSet, todo # {}
    PROVE  /\ First(todo) \in todo
           /\ \A n \in todo : n # First(todo) => Precedes(First(todo), n)
<1> DEFINE I == {i \in 1..Len(Markets) : Markets[i] \in todo}
<1>1. Len(Markets) \in Nat /\ \A n \in todo : \E k \in 1..Len(Markets) : Markets[k] = n
  BY MarketsAssumption DEF MarketSet
<1>2. I \in SUBSET Nat /\ I # {}
  BY <1>1
<1>3. \A n \in todo : \E k \in I : Markets[k] = n
  BY <1>1
<1>4. \A i \in I : i \in 1..Len(Markets) /\ Markets[i] \in todo /\ i \in Nat
  BY <1>1
<1>5. First(todo) = Markets[Min(I)]
  BY DEF First
<1> HIDE DEF I
<1>6. PICK i : i = Min(I)
  OBVIOUS
<1>7. i \in I /\ \A k \in I : i <= k
  BY <1>2, <1>6, MinNat
<1>8. ASSUME NEW n \in todo, n # Markets[i] PROVE Precedes(Markets[i], n)
  <2>1. PICK k \in I : Markets[k] = n
    BY <1>3
  <2>2. i < k /\ i \in 1..Len(Markets) /\ k \in 1..Len(Markets)
    BY <1>4, <1>7, <1>8, <2>1
  <2> QED BY <2>1, <2>2 DEF Precedes
<1> QED BY <1>4, <1>5, <1>6, <1>7, <1>8

\* A snapshot is written, and locked.
LEMMA WriteStep ==
    ASSUME IInv, NEW j \in Jobs, Write(j)
    PROVE  IInv'
<1>1. PICK b : b = jobs[j]
  OBVIOUS
<1>2. PICK m : m = First(b.todo)
  OBVIOUS
<1> DEFINE s == [b EXCEPT !.todo = b.todo \ {m}]
<1>3. /\ jobs \in [Jobs -> JobStates] /\ b \in JobStates /\ b.date \in Dates
      /\ b.todo \in SUBSET MarketSet /\ b.todo # {} /\ b.phase = "write"
  BY <1>1 DEF IInv, JobsInv, JobStates, Write
<1>4. m \in b.todo /\ m \in MarketSet /\ \A n \in b.todo : n # m => Precedes(m, n)
  BY <1>2, <1>3, FirstPrecedes
<1>5. /\ s \in JobStates /\ s.phase = "write" /\ s.date = b.date /\ s.got = b.got
      /\ s.left = b.left /\ s.errors = b.errors /\ s.todo = b.todo \ {m}
  BY <1>3 DEF JobStates
<1>6. /\ jobs' = [jobs EXCEPT ![j] = s] /\ locks[b.date][m] = Free
      /\ locks' = [locks EXCEPT ![b.date][m] = j]
      /\ UNCHANGED <<setting, published, archive, reader, served>>
  BY <1>1, <1>2 DEF Write, Become
<1> HIDE DEF s
<1>7. \A k \in Jobs : jobs'[k] = IF k = j THEN s ELSE jobs[k]
  BY <1>3, <1>6
<1>8. JobsInv'
  <2>1. jobs' \in [Jobs -> JobStates]
    BY <1>3, <1>5, <1>6
  <2>2. \A k \in Jobs, n \in MarketSet :
          jobs'[k].got[n] # 0 => IsPublished(jobs'[k].date, n, jobs'[k].got[n])
    BY <1>1, <1>5, <1>7 DEF IInv, JobsInv
  <2> QED BY <1>6, <2>1, <2>2, Frame DEF JobsInv
<1>9. LocksInv'
  <2>1. locks = [d \in Dates |-> [n \in MarketSet |-> locks[d][n]]]
    BY DEF IInv, LocksInv
  <2>2. /\ locks' = [d \in Dates |-> [n \in MarketSet |-> locks'[d][n]]]
        /\ \A d \in Dates, n \in MarketSet :
             locks'[d][n] = IF d = b.date /\ n = m THEN j ELSE locks[d][n]
    <3> DEFINE row == [locks[b.date] EXCEPT ![m] = j]
    <3>1. locks' = [d \in Dates |-> IF d = b.date THEN row ELSE locks[d]]
      BY <1>6, <2>1
    <3>2. locks[b.date] = [n \in MarketSet |-> locks[b.date][n]]
      BY <1>3, <2>1
    <3>3. /\ row = [n \in MarketSet |-> row[n]]
          /\ \A n \in MarketSet : row[n] = IF n = m THEN j ELSE locks[b.date][n]
      BY <1>4, <3>2
    <3>4. \A d \in Dates : locks[d] = [n \in MarketSet |-> locks[d][n]]
      BY <2>1
    <3> HIDE DEF row
    <3>5. \A d \in Dates : locks'[d] = IF d = b.date THEN row ELSE locks[d]
      BY <3>1
    <3>6. \A d \in Dates : locks'[d] = [n \in MarketSet |-> locks'[d][n]]
      BY <3>3, <3>4, <3>5
    <3>7. locks' = [d \in Dates |-> locks'[d]]
      BY <3>1
    <3>8. locks' = [d \in Dates |-> [n \in MarketSet |-> locks'[d][n]]]
      BY <3>6, <3>7
    <3> QED BY <1>3, <3>3, <3>5, <3>8
  <2>3. HasWritten(s, b.date, m)
    BY <1>4, <1>5 DEF HasWritten
  <2>4. ASSUME NEW d \in Dates, NEW n \in MarketSet, locks[d][n] = j, j # Free
        PROVE  HasWritten(s, d, n)
    <3>1. HasWritten(b, d, n)
      BY <1>1, <2>4 DEF IInv, LocksInv
    <3> QED BY <1>5, <3>1 DEF HasWritten
  <2>5. j # Free
    BY DEF Jobs, Free
  <2>6. ASSUME NEW d \in Dates, NEW n \in MarketSet
        PROVE  /\ locks'[d][n] \in Jobs \cup {Free}
               /\ locks'[d][n] # Free => HasWritten(jobs'[locks'[d][n]], d, n)
    <3>1. locks[d][n] \in Jobs \cup {Free}
          /\ (locks[d][n] # Free => HasWritten(jobs[locks[d][n]], d, n))
      BY DEF IInv, LocksInv
    <3> QED BY <1>7, <2>2, <2>3, <2>4, <2>5, <3>1
  <2> QED BY <2>2, <2>6 DEF LocksInv, HasWritten
<1>10. BackfillInv'
  <2>1. "backfill" \in Jobs
    BY DEF Jobs
  <2>2. PICK settled : settled = Settled
    OBVIOUS
  <2>3. NoHole(jobs["backfill"], settled)
    BY <2>2 DEF IInv, BackfillInv
  <2>4. NoHole(jobs'["backfill"], settled)
    BY <1>1, <1>3, <1>5, <1>7, <2>1, <2>3 DEF NoHole
  <2> QED BY <1>6, <2>2, <2>4, Frame DEF BackfillInv
<1> QED BY <1>6, <1>8, <1>9, <1>10, Frame, ReadersFrame DEF IInv

\* A transaction that ends gives its locks back, and its job no longer writes.
LEMMA TransactionEnds ==
    ASSUME IInv, NEW j \in Jobs, NEW s \in JobStates,
           jobs' = [jobs EXCEPT ![j] = s], locks' = Released(j), UNCHANGED published,
           \A m \in MarketSet : s.got[m] = 0
    PROVE  JobsInv' /\ LocksInv' /\ jobs'[j] = s /\ \A k \in Jobs \ {j} : jobs'[k] = jobs[k]
<1>1. jobs \in [Jobs -> JobStates]
  BY DEF IInv, JobsInv
<1>2. jobs' \in [Jobs -> JobStates] /\ \A k \in Jobs : jobs'[k] = IF k = j THEN s ELSE jobs[k]
  BY <1>1
<1>3. JobsInv'
  <2>1. \A k \in Jobs, m \in MarketSet :
          jobs'[k].got[m] # 0 => IsPublished(jobs'[k].date, m, jobs'[k].got[m])
    BY <1>2 DEF IInv, JobsInv
  <2> QED BY <1>2, <2>1 DEF JobsInv, IsPublished
<1>4. /\ locks' = [d \in Dates |-> [m \in MarketSet |-> locks'[d][m]]]
      /\ \A d \in Dates, m \in MarketSet :
           locks'[d][m] = IF locks[d][m] = j THEN Free ELSE locks[d][m]
  BY DEF Released
<1>5. ASSUME NEW d \in Dates, NEW m \in MarketSet
      PROVE  /\ locks'[d][m] \in Jobs \cup {Free}
             /\ locks'[d][m] # Free => HasWritten(jobs'[locks'[d][m]], d, m)
  <2>1. locks[d][m] \in Jobs \cup {Free}
        /\ (locks[d][m] # Free => HasWritten(jobs[locks[d][m]], d, m))
    BY DEF IInv, LocksInv
  <2> QED BY <1>2, <1>4, <2>1
<1>6. LocksInv'
  BY <1>4, <1>5 DEF LocksInv, HasWritten
<1> QED BY <1>2, <1>3, <1>6

\* What a backfill leaves behind stays settled when more is.
LEMMA MoreSettled ==
    ASSUME NEW b, NEW settled, NEW more, settled \subseteq more, NoHole(b, settled)
    PROVE  NoHole(b, more)
BY DEF NoHole

\* The transaction fails.
LEMMA RollbackStep ==
    ASSUME IInv, NEW j \in Jobs, Rollback(j)
    PROVE  IInv'
<1>1. PICK b : b = jobs[j]
  OBVIOUS
<1>2. PICK settled : settled = Settled
  OBVIOUS
<1>3. b \in JobStates /\ b.left \in Seq(Dates) /\ "backfill" \in Jobs
  BY <1>1 DEF IInv, JobsInv, JobStates, Jobs
<1> DEFINE s == IF j = "refresh" THEN NoJob ELSE NextDate(b.left, TRUE)
<1>4. s \in JobStates /\ (\A m \in MarketSet : s.got[m] = 0) /\ NoHole(s, settled)
  <2>1. NoHole(NoJob, settled)
    BY NoJobType DEF NoHole
  <2> QED BY <1>3, <2>1, NoJobType, NextDateInv
<1>5. /\ jobs' = [jobs EXCEPT ![j] = s] /\ locks' = Released(j)
      /\ UNCHANGED <<setting, published, archive, reader, served>>
  BY <1>1 DEF Rollback, Become
<1> HIDE DEF s
<1>6. /\ JobsInv' /\ LocksInv' /\ jobs'[j] = s
      /\ \A k \in Jobs \ {j} : jobs'[k] = jobs[k]
  BY <1>4, <1>5, TransactionEnds
<1>7. NoHole(jobs'["backfill"], settled)
  BY <1>2, <1>3, <1>4, <1>6 DEF IInv, BackfillInv
<1>8. BackfillInv'
  BY <1>2, <1>5, <1>7, Frame DEF BackfillInv
<1> QED BY <1>5, <1>6, <1>8, Frame, ReadersFrame DEF IInv

\* A snapshot is its hash and the rows of that report.
LEMMA SnapshotParts ==
    ASSUME NEW d, NEW m, NEW v
    PROVE  /\ Snapshot(d, m, v) = [hash |-> v, rows |-> Report[d][m][v]]
           /\ Snapshot(d, m, v).hash = v
           /\ Snapshot(d, m, v).rows = Report[d][m][v]
BY DEF Snapshot

\* The transaction commits: its snapshots are whole, the others as they were.
LEMMA CommitStep ==
    ASSUME IInv, NEW j \in Jobs, Commit(j)
    PROVE  IInv'
<1>1. PICK b : b = jobs[j]
  OBVIOUS
<1>2. PICK settled, more : settled = Settled /\ more = Settled'
  OBVIOUS
<1>3. /\ b \in JobStates /\ b.left \in Seq(Dates) /\ "backfill" \in Jobs
      /\ b.date \in Dates /\ b.errors \in BOOLEAN
      /\ \A m \in MarketSet : b.got[m] # 0 => IsPublished(b.date, m, b.got[m])
  BY <1>1 DEF IInv, JobsInv, JobStates, Jobs
<1>4. PICK missed \in BOOLEAN : missed = (\E m \in MarketSet : b.got[m] = 0)
  OBVIOUS
<1>5. PICK errors \in BOOLEAN : errors = (b.errors \/ missed)
  BY <1>3
<1> DEFINE s == IF j = "refresh" THEN NoJob ELSE NextDate(b.left, errors)
<1>6. /\ jobs' = [jobs EXCEPT ![j] = s] /\ locks' = Released(j)
      /\ archive' = Written(j) /\ b.phase = "write"
      /\ UNCHANGED <<setting, published, reader, served>>
  BY <1>1, <1>4, <1>5, Zenon DEF Commit, Become
<1>7. archive = [d \in Dates |-> [m \in MarketSet |-> archive[d][m]]]
  BY DEF IInv, ArchiveInv
<1>8. /\ archive' = [d \in Dates |-> [m \in MarketSet |-> archive'[d][m]]]
      /\ \A d \in Dates, m \in MarketSet :
           archive'[d][m] = IF d = b.date /\ b.got[m] # 0 THEN Snapshot(d, m, b.got[m])
                            ELSE archive[d][m]
  BY <1>1, <1>3, <1>6, <1>7 DEF Written
<1>9. ArchiveInv'
  <2>1. ASSUME NEW d \in Dates, NEW m \in MarketSet
        PROVE  \/ archive'[d][m] = NoSnapshot
               \/ /\ archive'[d][m] = [hash |-> archive'[d][m].hash,
                                       rows |-> archive'[d][m].rows]
                  /\ IsPublished(d, m, archive'[d][m].hash)
    <3>1. CASE d = b.date /\ b.got[m] # 0
      <4>1. archive'[d][m] = Snapshot(d, m, b.got[m]) /\ IsPublished(d, m, b.got[m])
        BY <1>3, <1>8, <3>1
      <4> QED BY <4>1, SnapshotParts
    <3>2. CASE ~(d = b.date /\ b.got[m] # 0)
      BY <1>8, <3>2 DEF IInv, ArchiveInv
    <3> QED BY <3>1, <3>2
  <2> QED BY <1>6, <1>8, <2>1 DEF ArchiveInv, IsPublished
<1>10. \A m \in MarketSet : b.got[m] # 0 =>
          Sound(b.date, m, archive'[b.date][m].hash, archive'[b.date][m].rows)
  BY <1>3, <1>8, SnapshotParts DEF Sound
<1>11. \A d \in Dates : WholeAt(d) => WholeAt(d)'
  <2> SUFFICES ASSUME NEW d \in Dates, WholeAt(d), NEW m \in MarketSet
               PROVE  Sound(d, m, archive'[d][m].hash, archive'[d][m].rows)
    BY DEF WholeAt, Sound
  <2> QED BY <1>8, <1>10 DEF WholeAt
<1>12. settled \subseteq more
  BY <1>2, <1>6, <1>11 DEF Settled, Closed
<1>13. ~missed => b.date \in more
  <2>1. ~missed => WholeAt(b.date)'
    BY <1>4, <1>10 DEF WholeAt, Sound
  <2> QED BY <1>2, <1>3, <2>1 DEF Settled
<1>14. j = "backfill" => NoHole(b, more)
  BY <1>1, <1>2, <1>12, MoreSettled DEF IInv, BackfillInv
<1>15. /\ s \in JobStates /\ \A m \in MarketSet : s.got[m] = 0
       /\ j = "backfill" => NoHole(s, more)
  <2>1. CASE j = "refresh"
    BY <2>1, NoJobType
  <2>2. CASE j = "backfill"
    <3>1. errors \/ \A i \in 1..Len(Asked) :
                       \/ Asked[i] \in more
                       \/ \E k \in 1..Len(b.left) : Asked[i] = b.left[k]
      BY <1>5, <1>6, <1>13, <1>14, <2>2 DEF NoHole
    <3> QED BY <1>3, <2>2, <3>1, NextDateInv
  <2> QED BY <2>1, <2>2 DEF Jobs
<1> HIDE DEF s
<1>16. /\ JobsInv' /\ LocksInv' /\ jobs'[j] = s
       /\ \A k \in Jobs \ {j} : jobs'[k] = jobs[k]
  BY <1>6, <1>15, TransactionEnds
<1>17. NoHole(jobs'["backfill"], more)
  <2>1. CASE j = "backfill"
    BY <1>15, <1>16, <2>1
  <2>2. CASE j # "backfill"
    <3>1. NoHole(jobs["backfill"], settled) /\ jobs'["backfill"] = jobs["backfill"]
      BY <1>2, <1>3, <1>16, <2>2 DEF IInv, BackfillInv
    <3> QED BY <1>12, <3>1, MoreSettled
  <2> QED BY <2>1, <2>2
<1>18. BackfillInv'
  BY <1>2, <1>17 DEF BackfillInv
<1>19. (setting \in Settings)' /\ PublishedInv'
  BY <1>6 DEF IInv, PublishedInv
<1> QED BY <1>6, <1>9, <1>16, <1>18, <1>19, ReadersFrame DEF IInv

-----------------------------------------------------------------------------
(* Steps of the markets, of what is lost, and of a reader *)

\* What has been published stays published, for a job, a reader and an answer.
LEMMA PublishStep ==
    ASSUME IInv, NEW d0 \in Dates, NEW m0 \in MarketSet, Publish(d0, m0)
    PROVE  IInv'
<1>1. /\ UNCHANGED <<setting, archive, locks, jobs, reader, served>>
      /\ published' = [published EXCEPT ![d0][m0] = published[d0][m0] + 1]
      /\ published[d0][m0] < Len(Report[d0][m0])
  BY DEF Publish
<1>2. /\ published = [d \in Dates |-> [m \in MarketSet |-> published[d][m]]]
      /\ \A d \in Dates, m \in MarketSet : published[d][m] \in 0..Len(Report[d][m])
      /\ \A d \in Dates, m \in MarketSet : Len(Report[d][m]) \in Nat
  BY ReportAssumption DEF IInv, PublishedInv
<1>3. \A d \in Dates, m \in MarketSet :
        published'[d][m] = IF d = d0 /\ m = m0 THEN published[d][m] + 1 ELSE published[d][m]
  BY <1>1, <1>2
<1>4. published' = [d \in Dates |-> [m \in MarketSet |-> published'[d][m]]]
  <2> DEFINE row == [published[d0] EXCEPT ![m0] = published[d0][m0] + 1]
  <2>1. published' = [d \in Dates |-> IF d = d0 THEN row ELSE published[d]]
    BY <1>1, <1>2
  <2>2. published[d0] = [m \in MarketSet |-> published[d0][m]]
    BY <1>2
  <2>3. row = [m \in MarketSet |-> row[m]]
    BY <2>2
  <2>4. \A d \in Dates : published[d] = [m \in MarketSet |-> published[d][m]]
    BY <1>2
  <2> HIDE DEF row
  <2>5. \A d \in Dates : published'[d] = [m \in MarketSet |-> published'[d][m]]
    BY <2>1, <2>3, <2>4
  <2>6. published' = [d \in Dates |-> published'[d]]
    BY <2>1
  <2> QED BY <2>5, <2>6
<1>5. PublishedInv'
  <2>1. \A d \in Dates, m \in MarketSet : published'[d][m] \in 0..Len(Report[d][m])
    BY <1>1, <1>2, <1>3
  <2> QED BY <1>4, <2>1 DEF PublishedInv
<1>6. ASSUME NEW d \in Dates, NEW m \in MarketSet, NEW v, v \in 1..published[d][m]
      PROVE  v \in 1..published'[d][m]
  BY <1>2, <1>3, <1>6
<1>7. ArchiveInv'
  BY <1>1, <1>6 DEF IInv, ArchiveInv, IsPublished
<1>8. JobsInv'
  <2>1. ASSUME NEW j \in Jobs, NEW m \in MarketSet, jobs[j].got[m] # 0
        PROVE  jobs[j].got[m] \in 1..published'[jobs[j].date][m]
    <3>1. jobs[j].date \in Dates /\ jobs[j].got[m] \in 1..published[jobs[j].date][m]
      BY <2>1 DEF IInv, JobsInv, JobStates, IsPublished
    <3> QED BY <1>6, <3>1
  <2> QED BY <1>1, <2>1 DEF IInv, JobsInv, IsPublished
<1>9. LocksInv' /\ BackfillInv' /\ (setting \in Settings)'
  BY <1>1 DEF IInv, LocksInv, HasWritten, BackfillInv, Settled, Closed, WholeAt
<1>10. (1..RunDate) \ Weekend \subseteq Dates
  BY RunDateAssumption DEF Dates
<1>11. ReaderInv'
  BY <1>1, <1>6, <1>10 DEF IInv, ReaderInv, IsPublished
<1>12. ASSUME NEW window, WindowIsWhole(window) PROVE WindowIsWhole(window)'
  <2>1. ASSUME NEW d \in DOMAIN window, NEW m \in MarketSet
        PROVE  \E v \in 1..published'[d][m] :
                 [s \in Symbols[m] \cap DOMAIN window[d] |-> window[d][s]] = Report[d][m][v]
    <3>1. d \in Dates
      BY <1>10, <1>12 DEF WindowIsWhole
    <3>2. PICK v \in 1..published[d][m] :
            [s \in Symbols[m] \cap DOMAIN window[d] |-> window[d][s]] = Report[d][m][v]
      BY <1>12 DEF WindowIsWhole
    <3>3. v \in 1..published'[d][m]
      BY <1>6, <3>1
    <3> QED BY <3>2, <3>3
  <2> QED BY <1>12, <2>1 DEF WindowIsWhole
<1>13. ServedInv'
  <2>1. ASSUME served.kind = "tracks" PROVE WindowIsWhole(served.window)'
    <3>1. PICK window : window = served.window
      OBVIOUS
    <3>2. WindowIsWhole(window)'
      BY <1>12, <2>1, <3>1 DEF IInv, ServedInv
    <3>3. (served.window)' = window
      BY <1>1, <3>1
    <3> QED BY <3>2, <3>3 DEF WindowIsWhole
  <2> QED BY <1>1, <2>1 DEF IInv, ServedInv
<1> QED BY <1>5, <1>7, <1>8, <1>9, <1>11, <1>13 DEF IInv

\* Rows are lost while no call runs; the snapshot keeps its hash.
LEMMA DamageStep ==
    ASSUME IInv, NEW d0 \in Dates, NEW m0 \in MarketSet, Damage(d0, m0)
    PROVE  IInv'
<1>1. PICK lost : lost = [s \in {} |-> 0]
  OBVIOUS
<1>2. /\ UNCHANGED <<setting, published, locks, jobs, reader, served>>
      /\ archive' = [archive EXCEPT ![d0][m0].rows = lost]
      /\ archive[d0][m0].hash # 0 /\ jobs["backfill"].phase = "idle"
  BY <1>1 DEF Damage, Jobs, Sound
<1>3. /\ archive = [d \in Dates |-> [m \in MarketSet |-> archive[d][m]]]
      /\ \A d \in Dates, m \in MarketSet :
           \/ archive[d][m] = NoSnapshot
           \/ /\ archive[d][m] = [hash |-> archive[d][m].hash, rows |-> archive[d][m].rows]
              /\ archive[d][m].hash \in 1..published[d][m]
  BY DEF IInv, ArchiveInv, IsPublished
<1> DEFINE cell == [archive[d0][m0] EXCEPT !.rows = lost]
           row  == [archive[d0] EXCEPT ![m0] = cell]
<1>4. archive' = [d \in Dates |-> IF d = d0 THEN row ELSE archive[d]]
  BY <1>2, <1>3
<1>5. archive[d0] = [m \in MarketSet |-> archive[d0][m]]
  BY <1>3
<1>6. row = [m \in MarketSet |-> IF m = m0 THEN cell ELSE archive[d0][m]]
  BY <1>5
<1>7. cell = [hash |-> archive[d0][m0].hash, rows |-> lost]
  <2>1. archive[d0][m0] # NoSnapshot
    BY <1>2 DEF NoSnapshot
  <2>2. archive[d0][m0] = [hash |-> archive[d0][m0].hash, rows |-> archive[d0][m0].rows]
    BY <1>3, <2>1
  <2> QED BY <2>2
<1>8. archive[d0][m0].hash \in 1..published[d0][m0]
  <2>1. archive[d0][m0] # NoSnapshot
    BY <1>2 DEF NoSnapshot
  <2> QED BY <1>3, <2>1
<1> HIDE DEF cell, row
<1>9. \A d \in Dates, m \in MarketSet :
        archive'[d][m] = IF d = d0 /\ m = m0 THEN cell ELSE archive[d][m]
  BY <1>4, <1>6
<1>10. archive' = [d \in Dates |-> [m \in MarketSet |-> archive'[d][m]]]
  <2>1. \A d \in Dates : archive[d] = [m \in MarketSet |-> archive[d][m]]
    BY <1>3
  <2>2. row = [m \in MarketSet |-> row[m]]
    BY <1>6
  <2>3. \A d \in Dates : archive'[d] = [m \in MarketSet |-> archive'[d][m]]
    BY <1>4, <2>1, <2>2
  <2>4. archive' = [d \in Dates |-> archive'[d]]
    BY <1>4
  <2> QED BY <2>3, <2>4
<1>11. ArchiveInv'
  <2>1. ASSUME NEW d \in Dates, NEW m \in MarketSet
        PROVE  \/ archive'[d][m] = NoSnapshot
               \/ /\ archive'[d][m] = [hash |-> archive'[d][m].hash,
                                       rows |-> archive'[d][m].rows]
                  /\ archive'[d][m].hash \in 1..published[d][m]
    <3>1. CASE d = d0 /\ m = m0
      <4>1. archive'[d][m] = [hash |-> archive[d0][m0].hash, rows |-> lost]
        BY <1>7, <1>9, <3>1
      <4> QED BY <1>8, <3>1, <4>1
    <3>2. CASE ~(d = d0 /\ m = m0)
      BY <1>3, <1>9, <3>2
    <3> QED BY <3>1, <3>2
  <2> QED BY <1>2, <1>10, <2>1 DEF ArchiveInv, IsPublished
<1>12. BackfillInv'
  BY <1>2 DEF BackfillInv, NoHole
<1>13. (setting \in Settings)' /\ PublishedInv' /\ JobsInv' /\ LocksInv'
  BY <1>2 DEF IInv, PublishedInv, JobsInv, LocksInv, HasWritten, IsPublished
<1> QED BY <1>2, <1>11, <1>12, <1>13, ReadersFrame DEF IInv

\* A reader finds only published reports, of dates on which there are any.
LEMMA ReadSnapshotsStep ==
    ASSUME IInv, ReadSnapshots
    PROVE  IInv'
<1> DEFINE first == Max({1, RunDate - Span})
           dates == {d \in first..RunDate : \A m \in MarketSet : archive[d][m] # NoSnapshot}
<1>1. /\ UNCHANGED <<setting, published, archive, locks, jobs>>
      /\ served' = [kind |-> "none"]
      /\ reader' = [phase |-> "rows", hashes |->
                      [d \in dates |-> [m \in MarketSet |-> archive[d][m].hash]]]
  BY DEF ReadSnapshots
<1>2. RunDate \in Nat /\ Span \in Nat /\ RunDate <= LastDate /\ LastDate \in Nat
  BY RunDateAssumption DEF Dates
<1>3. first \in Int /\ first >= 1
  <2>1. \E x \in {1, RunDate - Span} : \A y \in {1, RunDate - Span} : x >= y
    BY <1>2
  <2>2. first \in {1, RunDate - Span} /\ \A y \in {1, RunDate - Span} : first >= y
    BY <2>1 DEF Max
  <2> QED BY <1>2, <2>2
<1> HIDE DEF first
<1>4. first..RunDate \subseteq 1..RunDate /\ 1..RunDate \subseteq Dates
  BY <1>2, <1>3 DEF Dates
<1>5. ASSUME NEW d \in dates, NEW m \in MarketSet
      PROVE  IsPublished(d, m, archive[d][m].hash)
  BY <1>4 DEF IInv, ArchiveInv
<1>6. ASSUME NEW d \in dates PROVE d \notin Weekend
  <2>1. PICK m : m \in MarketSet
    BY MarketsAssumption DEF MarketSet
  <2>2. d \in Dates
    BY <1>4
  <2>3. archive[d][m].hash \in 1..published[d][m]
        /\ published[d][m] \in 0..Len(Report[d][m])
    BY <1>5, <2>1, <2>2 DEF IInv, PublishedInv, IsPublished
  <2>4. Len(Report[d][m]) \in Nat /\ Len(Report[d][m]) # 0
    BY <2>1, <2>2, <2>3, ReportAssumption
  <2> QED BY <2>1, <2>2, <2>4, ReportAssumption
<1>7. ReaderInv'
  <2>1. DOMAIN reader'.hashes = dates
        /\ \A d \in dates, m \in MarketSet : reader'.hashes[d][m] = archive[d][m].hash
    BY <1>1
  <2>2. dates \in SUBSET ((1..RunDate) \ Weekend)
    BY <1>4, <1>6
  <2> HIDE DEF dates
  <2> QED BY <1>1, <1>5, <2>1, <2>2 DEF ReaderInv, IsPublished
<1>8. ServedInv'
  BY <1>1 DEF ServedInv
<1>9. JobsInv' /\ LocksInv' /\ BackfillInv'
  BY <1>1, Frame DEF IInv, JobsInv, LocksInv, HasWritten, BackfillInv
<1> QED BY <1>1, <1>7, <1>8, <1>9, Frame DEF IInv

\* The rows of both markets, as one function.
AllRows(rows) ==
    [s \in UNION {DOMAIN rows[m] : m \in MarketSet} |->
        rows[CHOOSE m \in MarketSet : s \in DOMAIN rows[m]][s]]

\* What a date's rows have of one market.
RowsOf(m, all) == [s \in Symbols[m] \cap DOMAIN all |-> all[s]]

\* The rows of a date, put together from sound snapshots of both markets, are
\* those of either report.
LEMMA RowsOfDate ==
    ASSUME PublishedInv, NEW d \in Dates, NEW hashes, NEW rows,
           \A m \in MarketSet : /\ IsPublished(d, m, hashes[m])
                                /\ rows[m] = Report[d][m][hashes[m]]
    PROVE  /\ DOMAIN AllRows(rows) \subseteq Stocks
           /\ \A m \in MarketSet : RowsOf(m, AllRows(rows)) = Report[d][m][hashes[m]]
<1>1. \A m \in MarketSet : IsReport(m, rows[m])
  <2> SUFFICES ASSUME NEW m \in MarketSet PROVE IsReport(m, rows[m])
    OBVIOUS
  <2>1. hashes[m] \in 1..published[d][m] /\ published[d][m] \in 0..Len(Report[d][m])
        /\ Len(Report[d][m]) \in Nat
    BY ReportAssumption DEF PublishedInv, IsPublished
  <2>2. hashes[m] \in 1..Len(Report[d][m])
    BY <2>1
  <2> QED BY <2>2, ReportAssumption
<1>2. PICK all : all = AllRows(rows)
  OBVIOUS
<1>3. \A s : s \in DOMAIN all <=> \E m \in MarketSet : s \in DOMAIN rows[m]
  BY <1>2 DEF AllRows
<1>4. \A m \in MarketSet : /\ DOMAIN rows[m] \subseteq Symbols[m]
                           /\ rows[m] = [s \in DOMAIN rows[m] |-> rows[m][s]]
  BY <1>1 DEF IsReport
<1>5. DOMAIN all \subseteq Stocks
  <2>1. ASSUME NEW s \in DOMAIN all PROVE s \in Stocks
    <3>1. PICK m \in MarketSet : s \in DOMAIN rows[m]
      BY <1>3
    <3>2. s \in Symbols[m]
      BY <1>4, <3>1
    <3> QED BY <3>2 DEF Stocks
  <2> QED BY <2>1
<1>6. ASSUME NEW m \in MarketSet
      PROVE  [s \in Symbols[m] \cap DOMAIN all |-> all[s]] = rows[m]
  <2>1. \A s \in Symbols[m] : \A n \in MarketSet : s \in DOMAIN rows[n] => n = m
    BY <1>4, MarketsAssumption
  <2>2. Symbols[m] \cap DOMAIN all = DOMAIN rows[m]
    BY <1>3, <1>4, <2>1
  <2>3. ASSUME NEW s \in DOMAIN rows[m] PROVE all[s] = rows[m][s]
    <3>1. \A n \in MarketSet : s \in DOMAIN rows[n] => n = m
      BY <1>4, <2>1, <2>3
    <3>2. (CHOOSE n \in MarketSet : s \in DOMAIN rows[n]) = m
      BY <3>1
    <3>3. s \in UNION {DOMAIN rows[n] : n \in MarketSet}
      OBVIOUS
    <3> QED BY <1>2, <3>2, <3>3 DEF AllRows
  <2>4. [s \in Symbols[m] \cap DOMAIN all |-> all[s]] = [s \in DOMAIN rows[m] |-> rows[m][s]]
    BY <2>2, <2>3
  <2> QED BY <1>4, <2>4
<1> QED BY <1>2, <1>5, <1>6 DEF RowsOf

\* A reader ranks its window only when each snapshot is sound with the rows it
\* found.
LEMMA ReadRowsStep ==
    ASSUME IInv, ReadRows
    PROVE  IInv'
<1> DEFINE dates == DOMAIN reader.hashes
           window == [d \in dates |-> [s \in UNION {DOMAIN archive[d][m].rows : m \in MarketSet} |->
                        archive[d][CHOOSE m \in MarketSet : s \in DOMAIN archive[d][m].rows].rows[s]]]
<1>1. /\ UNCHANGED <<setting, published, archive, locks, jobs>>
      /\ reader.phase = "rows" /\ reader' = [phase |-> "idle"]
  BY DEF ReadRows
<1>2. served'.kind = "tracks" =>
        /\ \A d \in dates, m \in MarketSet :
             Sound(d, m, reader.hashes[d][m], archive[d][m].rows)
        /\ RunDate \in dates
        /\ served'.window = window /\ served'.tracks = Tracks(window)
        /\ served'.blocking = Blocking(LastOf(dates, MarketDays))
  <2> DEFINE intact == \A d \in dates, m \in MarketSet :
                          Sound(d, m, reader.hashes[d][m], archive[d][m].rows)
  <2>1. served' = CASE ~intact -> [kind |-> "invalid"]
                    [] intact /\ RunDate \notin dates -> [kind |-> "unavailable"]
                    [] OTHER -> [kind |-> "tracks", window |-> window, tracks |-> Tracks(window),
                                 baseline |-> Baseline(window),
                                 blocking |-> Blocking(LastOf(dates, MarketDays))]
    BY DEF ReadRows
  <2> HIDE DEF intact, window, dates
  <2>2. CASE ~intact
    BY <2>1, <2>2
  <2>3. CASE intact /\ RunDate \notin dates
    BY <2>1, <2>3
  <2>4. CASE intact /\ RunDate \in dates
    <3>1. served' = [kind |-> "tracks", window |-> window, tracks |-> Tracks(window),
                     baseline |-> Baseline(window),
                     blocking |-> Blocking(LastOf(dates, MarketDays))]
      BY <2>1, <2>4
    <3> QED BY <2>4, <3>1 DEF intact
  <2> QED BY <2>2, <2>3, <2>4
<1>3. /\ dates \in SUBSET ((1..RunDate) \ Weekend) /\ (1..RunDate) \ Weekend \subseteq Dates
      /\ \A d \in dates, m \in MarketSet : IsPublished(d, m, reader.hashes[d][m])
  BY <1>1, RunDateAssumption DEF IInv, ReaderInv, Dates
<1>4. ASSUME \A d \in dates, m \in MarketSet :
               Sound(d, m, reader.hashes[d][m], archive[d][m].rows)
      PROVE  WindowIsWhole(window)
  <2>1. DOMAIN window = dates
    OBVIOUS
  <2>2. ASSUME NEW d \in dates
        PROVE  /\ DOMAIN window[d] \subseteq Stocks
               /\ \A m \in MarketSet :
                    [s \in Symbols[m] \cap DOMAIN window[d] |-> window[d][s]]
                      = Report[d][m][reader.hashes[d][m]]
    <3>1. PICK rows : rows = [m \in MarketSet |-> archive[d][m].rows]
      OBVIOUS
    <3>2. PICK hashes : hashes = reader.hashes[d]
      OBVIOUS
    <3>3. \A m \in MarketSet : rows[m] = archive[d][m].rows
      BY <3>1
    <3>4. PICK all : all = window[d]
      OBVIOUS
    <3>5. all = [s \in UNION {DOMAIN archive[d][m].rows : m \in MarketSet} |->
                   archive[d][CHOOSE m \in MarketSet : s \in DOMAIN archive[d][m].rows].rows[s]]
      BY <3>4
    <3>6. {DOMAIN archive[d][m].rows : m \in MarketSet} = {DOMAIN rows[m] : m \in MarketSet}
      BY <3>3
    <3>7. ASSUME NEW s \in UNION {DOMAIN rows[m] : m \in MarketSet}
          PROVE  archive[d][CHOOSE m \in MarketSet : s \in DOMAIN archive[d][m].rows].rows[s]
                   = rows[CHOOSE m \in MarketSet : s \in DOMAIN rows[m]][s]
      <4>1. PICK n : n = CHOOSE m \in MarketSet : s \in DOMAIN rows[m]
        OBVIOUS
      <4>2. n \in MarketSet
        BY <4>1
      <4>3. \A m : (m \in MarketSet /\ s \in DOMAIN archive[d][m].rows)
                      <=> (m \in MarketSet /\ s \in DOMAIN rows[m])
        BY <3>3
      <4>4. (CHOOSE m \in MarketSet : s \in DOMAIN archive[d][m].rows) = n
        BY <4>1, <4>3
      <4> QED BY <3>3, <4>1, <4>2, <4>4
    <3>8. all = AllRows(rows)
      BY <3>5, <3>6, <3>7 DEF AllRows
    <3>9. /\ d \in Dates
          /\ \A m \in MarketSet : /\ IsPublished(d, m, hashes[m])
                                  /\ rows[m] = Report[d][m][hashes[m]]
      BY <1>3, <1>4, <3>2, <3>3 DEF Sound
    <3>10. PublishedInv
      BY DEF IInv
    <3>11. /\ DOMAIN all \subseteq Stocks
           /\ \A m \in MarketSet :
                [s \in Symbols[m] \cap DOMAIN all |-> all[s]] = Report[d][m][hashes[m]]
      <4>1. /\ DOMAIN AllRows(rows) \subseteq Stocks
            /\ \A m \in MarketSet : RowsOf(m, AllRows(rows)) = Report[d][m][hashes[m]]
        BY <3>9, <3>10, RowsOfDate
      <4> QED BY <3>8, <4>1 DEF RowsOf
    <3> HIDE DEF window
    <3> QED BY <3>2, <3>4, <3>11
  <2> HIDE DEF window
  <2>3. \A d \in dates, m \in MarketSet : reader.hashes[d][m] \in 1..published[d][m]
    BY <1>3 DEF IsPublished
  <2> QED BY <1>3, <2>1, <2>2, <2>3 DEF WindowIsWhole
<1>5. DOMAIN window = dates
  OBVIOUS
<1> HIDE DEF window
<1>6. ServedInv'
  <2>1. ASSUME served'.kind = "tracks"
        PROVE  WindowIsWhole(served.window)'
    BY <1>1, <1>2, <1>4, <2>1 DEF WindowIsWhole
  <2> QED BY <1>2, <1>5, <2>1 DEF ServedInv
<1>7. ReaderInv'
  BY <1>1 DEF ReaderInv
<1>8. JobsInv' /\ LocksInv' /\ BackfillInv'
  BY <1>1, Frame DEF IInv, JobsInv, LocksInv, HasWritten, BackfillInv
<1> QED BY <1>1, <1>6, <1>7, <1>8, Frame DEF IInv

-----------------------------------------------------------------------------
(* The theorems *)

\* What is archived at first has been published.
LEMMA InitIInv == Init => IInv
<1> SUFFICES ASSUME Init PROVE IInv
  OBVIOUS
<1>1. /\ setting \in Settings /\ published = Known
      /\ archive = [d \in Dates |-> [m \in MarketSet |->
                      IF d \in setting.archived THEN Snapshot(d, m, 1) ELSE NoSnapshot]]
      /\ locks = [d \in Dates |-> [m \in MarketSet |-> Free]]
      /\ jobs = [j \in Jobs |-> NoJob]
      /\ reader.phase = "idle" /\ served.kind = "none"
  BY DEF Init
<1>2. PublishedInv
  BY <1>1, ReportAssumption DEF PublishedInv
<1>3. ArchiveInv
  <2>1. ASSUME NEW d \in Dates, NEW m \in MarketSet
        PROVE  \/ archive[d][m] = NoSnapshot
               \/ /\ archive[d][m] = [hash |-> archive[d][m].hash, rows |-> archive[d][m].rows]
                  /\ archive[d][m].hash \in 1..published[d][m]
    <3>1. CASE d \in setting.archived
      <4>1. archive[d][m] = Snapshot(d, m, 1)
        BY <1>1, <3>1
      <4>2. Known[d][m] # 0 /\ Known[d][m] \in 0..Len(Report[d][m])
            /\ Len(Report[d][m]) \in Nat
        BY <1>1, <3>1, ReportAssumption
      <4> QED BY <1>1, <4>1, <4>2, SnapshotParts
    <3>2. CASE d \notin setting.archived
      BY <1>1, <3>2
    <3> QED BY <3>1, <3>2
  <2>2. archive = [d \in Dates |-> [m \in MarketSet |-> archive[d][m]]]
    BY <1>1
  <2> QED BY <2>1, <2>2 DEF ArchiveInv, IsPublished
<1>4. JobsInv
  BY <1>1, NoJobType DEF JobsInv
<1>5. LocksInv
  BY <1>1 DEF LocksInv
<1>6. BackfillInv
  BY <1>1, NoJobType DEF BackfillInv, NoHole, Jobs
<1>7. ReaderInv /\ ServedInv
  BY <1>1 DEF ReaderInv, ServedInv
<1> QED BY <1>1, <1>2, <1>3, <1>4, <1>5, <1>6, <1>7 DEF IInv

\* Every step keeps the invariant.
LEMMA NextIInv == IInv /\ [Next]_vars => IInv'
<1> SUFFICES ASSUME IInv, [Next]_vars PROVE IInv'
  OBVIOUS
<1>1. CASE \E d \in Dates, m \in MarketSet : Publish(d, m) \/ Damage(d, m)
  BY <1>1, PublishStep, DamageStep
<1>2. CASE StartRefresh \/ Backfill
  BY <1>2, StartStep, BackfillStep DEF Backfill
<1>3. CASE \E j \in Jobs : Step(j) \/ Rollback(j)
  BY <1>3, FetchStep, WriteStep, CommitStep, RollbackStep DEF Step
<1>4. CASE ReadSnapshots \/ ReadRows
  BY <1>4, ReadSnapshotsStep, ReadRowsStep
<1>5. CASE UNCHANGED vars
  <2>1. UNCHANGED <<setting, published, archive, locks, jobs, reader, served>>
    BY <1>5 DEF vars
  <2>2. JobsInv' /\ LocksInv' /\ BackfillInv'
    BY <2>1, Frame DEF IInv, JobsInv, LocksInv, HasWritten, BackfillInv
  <2> QED BY <2>1, <2>2, Frame, ReadersFrame DEF IInv
<1> QED BY <1>1, <1>2, <1>3, <1>4, <1>5 DEF Next

\* Whatever the calendar, the reports, the failures and the overlap of a
\* refresh, a backfill and a reader (institutional_flow_archive.py and
\* institutional_flow_backfill.py), the invariant holds.
THEOREM Inductive == Spec => []IInv
<1>1. Init => IInv
  BY InitIInv
<1>2. IInv /\ [Next]_vars => IInv'
  BY NextIInv
<1> QED BY <1>1, <1>2, PTL DEF Spec

\* What a request ranks of a date and market is one published report, whole,
\* although it reads snapshots and rows in two queries; every accumulation is
\* a run of weekdays without a hole, and a replay that calls its history ready
\* has all of it (institutional_archive_universe.py).
THEOREM WholeReports == Spec => []ReadersSeeWholeReports
<1>1. IInv => ReadersSeeWholeReports
  BY Served, Unbroken, Ready DEF IInv, ReadersSeeWholeReports
<1> QED BY <1>1, Inductive, PTL

\* A backfill that ends without an error has left every open weekday of its
\* range with both markets, each with the rows of one report
\* (institutional_flow_backfill.py).
THEOREM BackfillWhole == Spec => BackfillIsWhole
<1> DEFINE Kept == Completed =>
              \A i \in 1..Len(Asked), m \in MarketSet :
                Asked[i] \notin Weekend \cup Closed =>
                  Sound(Asked[i], m, archive'[Asked[i]][m].hash, archive'[Asked[i]][m].rows)
<1>1. IInv /\ IInv' /\ [Next]_vars => [Kept]_vars
  <2> SUFFICES ASSUME IInv', Next, Completed,
                      NEW i \in 1..Len(Asked), NEW m \in MarketSet,
                      Asked[i] \notin Weekend \cup Closed
               PROVE  Sound(Asked[i], m, archive'[Asked[i]][m].hash, archive'[Asked[i]][m].rows)
    OBVIOUS
  <2>1. setting' = setting
    BY DEF Next, Publish, Damage, StartRefresh, Backfill, StartBackfill, CheckDate,
           ResolveSession, EndBackfill, Step, Fetch, BeginWrites, Write, Commit, Rollback,
           ReadSnapshots, ReadRows
  <2>2. Closed' = Closed
    BY <2>1 DEF Closed
  <2>3. NoHole(jobs["backfill"], Settled)'
    BY DEF IInv, BackfillInv
  <2>4. Asked[i] \in Settled'
    BY <2>3 DEF NoHole, Completed
  <2>5. WholeAt(Asked[i])'
    BY <2>2, <2>4 DEF Settled
  <2> QED BY <2>5 DEF WholeAt, Sound
<1> QED BY <1>1, Inductive, PTL DEF Spec, BackfillIsWhole

\* A call waits for a row lock when the snapshot it writes next is locked.
WaitsForLock(j) ==
    /\ jobs[j].phase = "write" /\ jobs[j].todo # {}
    /\ locks[jobs[j].date][First(jobs[j].todo)] # Free

\* A refresh and a backfill that write the same date never wait for each
\* other: both lock the markets in one order (institutional_flow_archive.py).
THEOREM NoMutualWait == Spec => []~\A j \in Jobs : WaitsForLock(j)
<1>1. ASSUME IInv, NEW j \in Jobs, NEW k \in Jobs, j # k, Jobs = {j, k},
             WaitsForLock(j), jobs[k].todo # {}
      PROVE  Precedes(First(jobs[j].todo), First(jobs[k].todo))
  <2>1. jobs[j].date \in Dates /\ jobs[j].todo \in SUBSET MarketSet
        /\ jobs[k].todo \in SUBSET MarketSet
    BY <1>1 DEF IInv, JobsInv, JobStates
  <2>2. PICK m : m = First(jobs[j].todo)
    OBVIOUS
  <2>3. m \in jobs[j].todo /\ m \in MarketSet /\ First(jobs[k].todo) \in jobs[k].todo
    BY <1>1, <2>1, <2>2, FirstPrecedes DEF WaitsForLock
  <2>4. PICK h : h = locks[jobs[j].date][m]
    OBVIOUS
  <2>5. h \in Jobs /\ HasWritten(jobs[h], jobs[j].date, m)
    BY <1>1, <2>1, <2>2, <2>3, <2>4 DEF IInv, LocksInv, WaitsForLock
  <2>6. h = k
    BY <1>1, <2>3, <2>5 DEF HasWritten
  <2> QED BY <2>2, <2>3, <2>5, <2>6 DEF HasWritten
<1>2. ~\E m, n : Precedes(m, n) /\ Precedes(n, m)
  <2> SUFFICES ASSUME NEW m, NEW n, Precedes(m, n), Precedes(n, m) PROVE FALSE
    OBVIOUS
  <2>1. PICK i, k \in 1..Len(Markets) : i < k /\ Markets[i] = m /\ Markets[k] = n
    BY DEF Precedes
  <2>2. PICK x, y \in 1..Len(Markets) : x < y /\ Markets[x] = n /\ Markets[y] = m
    BY DEF Precedes
  <2>3. i = y /\ k = x
    BY <2>1, <2>2, MarketsAssumption
  <2> QED BY <2>1, <2>2, <2>3, MarketsAssumption
<1>3. IInv => ~\A j \in Jobs : WaitsForLock(j)
  <2> SUFFICES ASSUME IInv, \A j \in Jobs : WaitsForLock(j) PROVE FALSE
    OBVIOUS
  <2>1. /\ "refresh" \in Jobs /\ "backfill" \in Jobs /\ "refresh" # "backfill"
        /\ Jobs = {"refresh", "backfill"} /\ Jobs = {"backfill", "refresh"}
    BY DEF Jobs
  <2>2. jobs["refresh"].todo # {} /\ jobs["backfill"].todo # {}
    BY <2>1 DEF WaitsForLock
  <2> QED BY <1>1, <1>2, <2>1, <2>2
<1> QED BY <1>3, Inductive, PTL
=============================================================================
