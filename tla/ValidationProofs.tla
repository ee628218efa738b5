-------------------------- MODULE ValidationProofs --------------------------
(***************************************************************************)
(* Proofs about ForwardValidation, for any candidates, workers, windows    *)
(* and bounds: what is stored of a window is what became of it, and due    *)
(* calls one at a time never turn a settled window back; and about         *)
(* RuleGovernance, for any symbols, dates, limits and stored results: what *)
(* a monthly review of those results judges and proposes.                  *)
(***************************************************************************)
EXTENDS ForwardValidation, RuleGovernance, FiniteSetTheorems, WellFoundedInduction, TLAPS

-----------------------------------------------------------------------------
(* Sets of days *)

Upto(S, d) == {e \in S : e <= d}

\* Days of T of which none before the last is missing.
InitialPart(P, T) == P \subseteq T /\ \A d \in P, e \in T : e <= d => e \in P

\* A nonempty set of natural numbers has a least element.
LEMMA LeastNat ==
    ASSUME NEW T \in SUBSET Nat, T # {}
    PROVE  \E x \in T : \A y \in T : x <= y
<1>1. PICK x \in T : \A y \in T : ~(<<y, x>> \in OpToRel(<, Nat))
  BY WFMin, NatLessThanWellFounded
<1>2. ASSUME NEW y \in T PROVE x <= y
  <2>1. x \in Nat /\ y \in Nat
    OBVIOUS
  <2>2. ~(y < x)
    BY <1>1, <2>1, Zenon DEF OpToRel
  <2> QED
    BY <2>1, <2>2
<1> QED
  BY <1>2

\* Sets of days are finite, and so are their parts.
LEMMA DaysFinite ==
    ASSUME NEW n \in Nat, NEW S \in SUBSET (0 .. n)
    PROVE  /\ IsFiniteSet(S) /\ Cardinality(S) \in Nat
           /\ \A d : /\ IsFiniteSet(Upto(S, d)) /\ Cardinality(Upto(S, d)) \in Nat
                     /\ Cardinality(Upto(S, d)) <= Cardinality(S)
<1>1. IsFiniteSet(0 .. n)
  BY FS_Interval
<1>2. IsFiniteSet(S)
  BY <1>1, FS_Subset
<1>3. \A d : Upto(S, d) \in SUBSET S
  BY DEF Upto
<1> QED
  BY <1>2, <1>3, FS_Subset, FS_CardinalityType

\* The n-th day of a set that has as many is one of it.
LEMMA NthIsOne ==
    ASSUME NEW n \in Nat, NEW S \in SUBSET (0 .. n), NEW w \in Nat \ {0},
           Cardinality(S) >= w
    PROVE  Nth(S, w) \in S /\ Cardinality(Upto(S, Nth(S, w))) = w
<1> DEFINE count(d) == Cardinality(Upto(S, d))
           T == {d \in 0 .. n : count(d) >= w}
<1> HIDE DEF count, T
<1>1. \A d : IsFiniteSet(Upto(S, d)) /\ count(d) \in Nat
  BY DaysFinite DEF count
<1>8. \A d \in S : d \in Int /\ 0 <= d /\ d <= n
  OBVIOUS
<1>9. \A d : d \in T <=> d \in 0 .. n /\ count(d) >= w
  BY DEF T
<1>2. Upto(S, n) = S
  BY <1>8 DEF Upto
<1>3. n \in T
  BY <1>2, <1>9 DEF count
<1>4. PICK m \in T : \A d \in T : m <= d
  <2>1. T \in SUBSET Nat
    BY <1>9
  <2> QED
    BY <1>3, <2>1, LeastNat
<1>5. m \in 0 .. n /\ count(m) >= w
  BY <1>9
<1>6. m \in S /\ count(m) = w
  <2>1. CASE m = 0
    <3>5. \A d \in S : d <= m => d = 0
      BY <1>8, <2>1
    <3>1. Upto(S, m) \subseteq {0}
      BY <3>5 DEF Upto
    <3>2. count(m) <= 1
      <4>1. IsFiniteSet({0}) /\ Cardinality({0}) = 1
        BY FS_Singleton
      <4> QED
        BY <3>1, <4>1, FS_Subset DEF count
    <3>3. count(m) = 1 /\ w = 1
      BY <3>2, <1>1, <1>5
    <3>4. Upto(S, m) # {}
      BY <3>3, FS_EmptySet DEF count
    <3> QED
      BY <3>1, <3>3, <3>4, <2>1 DEF Upto
  <2>2. CASE m > 0
    <3>1. m - 1 \in 0 .. n /\ ~(m <= m - 1)
      BY <1>5, <2>2
    <3>2. count(m - 1) < w
      <4>1. m - 1 \notin T
        BY <1>4, <3>1
      <4> QED
        BY <4>1, <3>1, <1>1, <1>9
    <3>5. \A d \in S : d <= m <=> d <= m - 1 \/ d = m
      BY <1>5, <1>8
    <3>3. CASE m \notin S
      <4>1. Upto(S, m) = Upto(S, m - 1)
        BY <3>3, <3>5 DEF Upto
      <4>2. count(m) = count(m - 1)
        BY <4>1 DEF count
      <4> QED
        BY <4>2, <3>2, <1>5, <1>1
    <3>4. CASE m \in S
      <4>1. Upto(S, m) = Upto(S, m - 1) \cup {m} /\ m \notin Upto(S, m - 1)
        BY <3>4, <3>1, <3>5 DEF Upto
      <4>2. count(m) = count(m - 1) + 1
        BY <4>1, <1>1, FS_AddElement DEF count
      <4> QED
        BY <4>2, <3>2, <3>4, <1>5, <1>1
    <3> QED
      BY <3>3, <3>4
  <2> QED
    BY <1>5, <2>1, <2>2
<1>7. \E d \in S : Cardinality({e \in S : e <= d}) = w
  BY <1>6 DEF Upto, count
<1> QED
  BY <1>7 DEF Nth, Upto

\* ... and the only one.
LEMMA NthIsUnique ==
    ASSUME NEW n \in Nat, NEW S \in SUBSET (0 .. n), NEW c \in S, NEW d \in S,
           Cardinality(Upto(S, c)) = Cardinality(Upto(S, d))
    PROVE  c = d
<1>1. ASSUME NEW x \in S, NEW y \in S, x < y,
             Cardinality(Upto(S, x)) = Cardinality(Upto(S, y))
      PROVE FALSE
  <2>3. \A e \in S : e \in Int
    OBVIOUS
  <2>4. (\A e \in S : e <= x => e <= y) /\ y <= y /\ ~(y <= x)
    BY <2>3, <1>1
  <2>1. Upto(S, x) \subseteq Upto(S, y) /\ y \in Upto(S, y) /\ y \notin Upto(S, x)
    BY <2>4 DEF Upto
  <2>2. IsFiniteSet(Upto(S, y))
    BY DaysFinite
  <2> QED
    BY <2>1, <2>2, <1>1, FS_Subset
<1>2. c \in Int /\ d \in Int
  OBVIOUS
<1> QED
  BY <1>1, <1>2

\* An initial part that is long enough tells the first days of the whole.
LEMMA InitialPartTells ==
    ASSUME NEW n \in Nat, NEW T \in SUBSET (0 .. n), NEW S, InitialPart(S, T),
           NEW w \in Nat \ {0}, Cardinality(S) >= w
    PROVE  /\ Nth(T, w) = Nth(S, w) /\ Nth(T, w) \in S
           /\ FirstRows(T, w) = FirstRows(S, w) /\ FirstRows(S, w) \subseteq S
           /\ Cardinality(T) >= w
<1>1. S \in SUBSET T /\ S \in SUBSET (0 .. n)
  BY DEF InitialPart
<1>2. \A d \in S : Upto(S, d) = Upto(T, d)
  BY DEF Upto, InitialPart
<1>3. Nth(S, w) \in S /\ Cardinality(Upto(S, Nth(S, w))) = w
  BY <1>1, NthIsOne
<1>4. Cardinality(T) >= w
  <2>1. Cardinality(S) <= Cardinality(T)
    BY <1>1, DaysFinite, FS_Subset
  <2>2. Cardinality(S) \in Nat /\ Cardinality(T) \in Nat
    BY <1>1, DaysFinite
  <2> QED
    BY <2>1, <2>2
<1>5. Nth(T, w) = Nth(S, w)
  <2>1. Nth(T, w) \in T /\ Cardinality(Upto(T, Nth(T, w))) = w
    BY <1>4, NthIsOne
  <2>2. Cardinality(Upto(T, Nth(S, w))) = w /\ Nth(S, w) \in T
    BY <1>1, <1>2, <1>3
  <2> QED
    BY <2>1, <2>2, NthIsUnique
<1>6. ASSUME NEW e \in T, e \notin S PROVE ~(Cardinality(Upto(T, e)) <= w)
  <2>1. \A d \in S : d <= e
    <3> SUFFICES ASSUME NEW d \in S PROVE d <= e
      OBVIOUS
    <3>1. ~(e <= d)
      BY <1>6 DEF InitialPart
    <3>2. e \in Int /\ d \in Int
      BY <1>1
    <3> QED
      BY <3>1, <3>2
  <2>2. S \cup {e} \subseteq Upto(T, e)
    BY <2>1, <1>1 DEF Upto
  <2>3. IsFiniteSet(S) /\ IsFiniteSet(Upto(T, e)) /\ Cardinality(Upto(T, e)) \in Nat
        /\ Cardinality(S) \in Nat
    BY <1>1, DaysFinite
  <2>4. Cardinality(S \cup {e}) = Cardinality(S) + 1
    BY <2>3, <1>6, FS_AddElement
  <2>5. Cardinality(S \cup {e}) <= Cardinality(Upto(T, e))
    BY <2>2, <2>3, FS_Subset
  <2> QED
    BY <2>3, <2>4, <2>5
<1>7. FirstRows(T, w) = FirstRows(S, w)
  BY <1>1, <1>2, <1>6 DEF FirstRows, Upto
<1>8. FirstRows(S, w) \subseteq S
  BY DEF FirstRows
<1> QED
  BY <1>3, <1>4, <1>5, <1>7, <1>8

\* What lies after the signal and up to a day is an initial part too.
LEMMA FutureIsInitial ==
    ASSUME NEW n \in Nat, NEW T \in SUBSET (0 .. n), NEW P, InitialPart(P, T), NEW asof \in Nat
    PROVE  InitialPart(Future(P, asof), T \ {0})
<1>1. \A d \in T : d \in Int /\ 0 <= d
  OBVIOUS
<1>2. P \subseteq T
  BY DEF InitialPart
<1>3. Future(P, asof) \subseteq T \ {0}
  <2>1. \A d \in P : d > 0 => d # 0
    BY <1>1, <1>2
  <2> QED
    BY <1>2, <2>1 DEF Future
<1>4. ASSUME NEW d \in Future(P, asof), NEW e \in T \ {0}, e <= d
      PROVE  e \in Future(P, asof)
  <2>1. d \in P /\ d > 0 /\ d <= asof
    BY DEF Future
  <2>2. d \in Int /\ e \in Int /\ 0 <= e /\ e # 0
    BY <1>1, <1>2, <2>1
  <2>3. e > 0 /\ e <= asof
    BY <1>4, <2>1, <2>2
  <2>4. e \in P
    BY <1>4, <2>1 DEF InitialPart
  <2> QED
    BY <2>3, <2>4 DEF Future
<1> QED
  BY <1>3, <1>4 DEF InitialPart

\* Cutting a history at a day, and joining two, leaves none of its days out.
LEMMA InitialCut ==
    ASSUME NEW n \in Nat, NEW T \in SUBSET (0 .. n), NEW P, InitialPart(P, T), NEW asof \in Nat
    PROVE  InitialPart({d \in P : d <= asof}, T)
<1>1. \A d \in T : d \in Int
  OBVIOUS
<1>2. \A d, e \in T : e <= d /\ d <= asof => e <= asof
  BY <1>1
<1> QED
  BY <1>2 DEF InitialPart

LEMMA InitialUnion ==
    ASSUME NEW T, NEW P, NEW Q, InitialPart(P, T), InitialPart(Q, T)
    PROVE  InitialPart(P \cup Q, T)
BY DEF InitialPart

-----------------------------------------------------------------------------
(* The inductive invariant *)

Sound(P) == InitialPart(P, sessions)

\* The calendar; every benchmark history misses none of the sessions before its
\* last, and every price stored or fetched is one the provider has.
CalendarOK == /\ setting \in Settings
              /\ sessions \subseteq 0 .. today /\ 0 \in sessions
HistoriesAreSound == Sound(index) /\ Sound(bench) /\ \A k \in Workers : Sound(call[k].index)
PricesAreQuoted == \A c \in Candidates : /\ quotes[c] \subseteq sessions /\ raw[c] \subseteq quotes[c]
                                         /\ \A k \in Workers : call[k].prices[c] \subseteq quotes[c]

\* The stored rows: a window with a target had ended.
Justified(c, w, r, days, prices) ==
    /\ r.status = "validated" =>
          /\ r.reason = "none" /\ Cardinality(days) >= w
          /\ r.target = Nth(days, w) /\ r.target <= r.asof
          /\ FirstRows(days, w) \subseteq prices
    /\ r.status = "skipped" /\ r.reason \in Terminal =>
          \/ c \in Stale
          \/ c \in Stopped /\ Cardinality(days) >= w /\ Nth(days, w) >= Stop
ResultsAreJustified ==
    \A c \in Candidates, w \in Windows :
        Justified(c, w, results[c][w], sessions \ {0}, quotes[c])

IInv == TypeOK /\ CalendarOK /\ HistoriesAreSound /\ PricesAreQuoted /\ ResultsAreJustified

\* The bounds of a setting.
LEMMA SettingFacts ==
    ASSUME setting \in Settings
    PROVE  /\ LastDay \in Nat /\ Windows \subseteq Nat \ {0} /\ Modes \subseteq {"due", "range"}
           /\ 0 \in Days /\ \A d \in Days : d \in Nat
BY SettingsAssumption DEF LastDay, Windows, Modes, Days

\* It implies what the runs check.
LEMMA IInvIsEnough == IInv => OutcomesAreSound
BY DEF IInv, OutcomesAreSound, ResultsAreJustified, Justified, ValidatedIsNthSession, GivenUpForCause

\* It holds at the start.
LEMMA InitIInv == Init => IInv
<1> SUFFICES ASSUME Init PROVE IInv
  OBVIOUS
<1> USE DEF Init
<1>1. /\ LastDay \in Nat /\ Windows \subseteq Nat \ {0} /\ 0 \in Days
  BY SettingFacts
<1>2. NoResult \in Results /\ Idle \in Calls
  BY <1>1 DEF NoResult, Results, Idle, Calls
<1>3. TypeOK
  BY <1>1, <1>2 DEF TypeOK
<1>4. CalendarOK /\ HistoriesAreSound /\ PricesAreQuoted
  BY DEF CalendarOK, HistoriesAreSound, Sound, InitialPart, PricesAreQuoted, Idle
<1>5. ResultsAreJustified
  BY DEF ResultsAreJustified, Justified, NoResult
<1> QED
  BY <1>3, <1>4, <1>5 DEF IInv

-----------------------------------------------------------------------------
(* It is inductive *)

\* As sessions are added at the end and prices become known, a justified row
\* stays so.
LEMMA JustifiedStays ==
    ASSUME NEW n \in Nat, NEW T \in SUBSET (0 .. n), NEW S, InitialPart(S, T),
           NEW prices, NEW more, prices \subseteq more,
           NEW c, NEW w \in Nat \ {0}, NEW r, Justified(c, w, r, S, prices)
    PROVE  Justified(c, w, r, T, more)
<1>1. CASE Cardinality(S) >= w
  BY <1>1, InitialPartTells DEF Justified
<1>2. CASE ~(Cardinality(S) >= w)
  BY <1>2 DEF Justified
<1> QED
  BY <1>1, <1>2

\* A new day: it comes after all others.
LEMMA TickStep == IInv /\ Tick => IInv'
<1> SUFFICES ASSUME IInv, Tick PROVE IInv'
  OBVIOUS
<1>1. /\ LastDay \in Nat /\ Windows \subseteq Nat \ {0} /\ setting' = setting
      /\ today \in 0 .. LastDay /\ today < LastDay /\ today' = today + 1
      /\ sessions \subseteq 0 .. today /\ 0 \in sessions
      /\ sessions' \in {sessions, sessions \cup {today + 1}}
      /\ UNCHANGED <<index, quotes, raw, bench, results, call>>
  BY SettingFacts DEF IInv, CalendarOK, TypeOK, Tick, Days
<1>2. sessions' \subseteq 0 .. today' /\ today' \in 0 .. LastDay /\ sessions' \subseteq 0 .. LastDay
      /\ 0 \in sessions' /\ sessions \subseteq sessions'
  BY <1>1
<1>3. InitialPart(sessions, sessions') /\ InitialPart(sessions \ {0}, sessions' \ {0})
  <2>1. \A d \in sessions : ~(today + 1 <= d)
    BY <1>1
  <2> QED
    BY <1>1, <2>1 DEF InitialPart
<1>4. \A P : Sound(P) => Sound(P)'
  BY <1>1, <1>2, <1>3 DEF Sound, InitialPart
<1>5. TypeOK'
  BY <1>1, <1>2 DEF IInv, TypeOK, Days, Windows, LastDay, Results, Calls
<1>6. CalendarOK' /\ HistoriesAreSound' /\ PricesAreQuoted'
  BY <1>1, <1>2, <1>4 DEF IInv, CalendarOK, HistoriesAreSound, PricesAreQuoted
<1>7. ResultsAreJustified'
  <2> SUFFICES ASSUME NEW c \in Candidates, NEW w \in Windows
               PROVE  Justified(c, w, results[c][w], sessions' \ {0}, quotes[c])
    BY <1>1 DEF ResultsAreJustified, Windows, Justified, Stale, Stopped
  <2>1. Justified(c, w, results[c][w], sessions \ {0}, quotes[c])
    BY DEF IInv, ResultsAreJustified
  <2>2. sessions' \ {0} \in SUBSET (0 .. LastDay) /\ w \in Nat \ {0}
    BY <1>1, <1>2
  <2> QED
    BY <1>1, <1>3, <2>1, <2>2, JustifiedStays
<1> QED
  BY <1>5, <1>6, <1>7 DEF IInv

\* The market gets ahead: histories and prices grow, the rest stays.
LEMMA MarketStep ==
    ASSUME IInv, UNCHANGED <<setting, today, sessions, results, call>>,
           Sound(index'), Sound(bench'),
           quotes' \in [Candidates -> SUBSET Days], raw' \in [Candidates -> SUBSET Days],
           \A c \in Candidates : /\ quotes[c] \subseteq quotes'[c] /\ quotes'[c] \subseteq sessions
                                 /\ raw'[c] \subseteq quotes'[c]
    PROVE  IInv'
<1>1. /\ LastDay \in Nat /\ Windows \subseteq Nat \ {0}
      /\ sessions \in SUBSET (0 .. LastDay) /\ sessions \subseteq Days
  BY SettingFacts DEF IInv, CalendarOK, TypeOK, Days
<1>2. TypeOK'
  BY <1>1 DEF IInv, TypeOK, Sound, InitialPart, Days, Windows, LastDay, Results, Calls
<1>3. CalendarOK' /\ HistoriesAreSound' /\ PricesAreQuoted'
  BY DEF IInv, CalendarOK, HistoriesAreSound, PricesAreQuoted, Sound
<1>4. ResultsAreJustified'
  <2> SUFFICES ASSUME NEW c \in Candidates, NEW w \in Windows
               PROVE  Justified(c, w, results[c][w], sessions \ {0}, quotes'[c])
    BY DEF ResultsAreJustified, Windows, Justified, Stale, Stopped
  <2>1. Justified(c, w, results[c][w], sessions \ {0}, quotes[c])
    BY DEF IInv, ResultsAreJustified
  <2>2. quotes[c] \subseteq quotes'[c]
    OBVIOUS
  <2> QED
    BY <2>1, <2>2 DEF Justified
<1> QED
  BY <1>2, <1>3, <1>4 DEF IInv

\* The provider gets the next session of the benchmark.
LEMMA PublishIndexStep == IInv /\ PublishIndex => IInv'
<1> SUFFICES ASSUME IInv, PublishIndex PROVE IInv'
  OBVIOUS
<1> DEFINE rest == sessions \ index
<1>1. /\ sessions \in SUBSET Nat /\ rest \in SUBSET Nat /\ rest # {}
      /\ index' = index \cup {Min(rest)}
      /\ UNCHANGED <<setting, today, sessions, quotes, raw, bench, results, call>>
      /\ Sound(index) /\ Sound(bench)
  BY SettingFacts DEF IInv, TypeOK, CalendarOK, HistoriesAreSound, PublishIndex, Sound, InitialPart, Days
<1>2. Min(rest) \in rest /\ \A d \in rest : Min(rest) <= d
  <2> HIDE DEF rest
  <2>1. \E x \in rest : \A y \in rest : x <= y
    BY <1>1, LeastNat
  <2> QED
    BY <2>1 DEF Min
<1>3. Sound(index')
  <2>1. index' \subseteq sessions
    BY <1>1, <1>2 DEF Sound, InitialPart
  <2>2. ASSUME NEW d \in index', NEW e \in sessions, e <= d PROVE e \in index'
    <3>1. CASE d \in index
      BY <3>1, <2>2, <1>1 DEF Sound, InitialPart
    <3>2. CASE d = Min(rest)
      <4>1. CASE e \in rest
        <5>1. d <= e /\ d \in Int /\ e \in Int
          BY <4>1, <3>2, <1>1, <1>2
        <5> QED
          BY <5>1, <2>2
      <4>2. CASE e \notin rest
        BY <4>2, <1>1
      <4> QED
        BY <4>1, <4>2
    <3> QED
      BY <3>1, <3>2, <1>1
  <2> QED
    BY <2>1, <2>2 DEF Sound, InitialPart
<1> QED
  BY <1>1, <1>3, MarketStep DEF IInv, TypeOK, PricesAreQuoted, Sound

LEMMA StoreBenchmarkStep == IInv /\ StoreBenchmark => IInv'
<1> SUFFICES ASSUME IInv, StoreBenchmark PROVE IInv'
  OBVIOUS
<1> QED
  BY MarketStep DEF StoreBenchmark, IInv, TypeOK, HistoriesAreSound, PricesAreQuoted, Sound

LEMMA PublishQuoteStep == \A c \in Candidates : IInv /\ PublishQuote(c) => IInv'
<1> SUFFICES ASSUME NEW c \in Candidates, IInv, PublishQuote(c) PROVE IInv'
  OBVIOUS
<1>1. sessions \subseteq Days
  BY SettingFacts DEF IInv, TypeOK
<1>2. PICK d \in sessions : quotes' = [quotes EXCEPT ![c] = @ \cup {d}]
  BY DEF PublishQuote, Traded
<1>3. quotes' \in [Candidates -> SUBSET Days]
  BY <1>1, <1>2 DEF IInv, TypeOK
<1> QED
  BY <1>2, <1>3, MarketStep
  DEF PublishQuote, IInv, TypeOK, HistoriesAreSound, PricesAreQuoted, Sound

LEMMA StoreRowsStep == \A c \in Candidates : IInv /\ StoreRows(c) => IInv'
<1> SUFFICES ASSUME NEW c \in Candidates, IInv, StoreRows(c) PROVE IInv'
  OBVIOUS
<1>1. raw' = [raw EXCEPT ![c] = quotes[c]] /\ raw' \in [Candidates -> SUBSET Days]
  BY DEF StoreRows, IInv, TypeOK
<1> QED
  BY <1>1, MarketStep DEF StoreRows, IInv, TypeOK, HistoriesAreSound, PricesAreQuoted, Sound

\* A step of one request that writes nothing.
LEMMA CallStep ==
    ASSUME IInv, NEW k \in Workers, NEW new \in Calls, call' = [call EXCEPT ![k] = new],
           UNCHANGED <<external, results>>,
           Sound(new.index), \A c \in Candidates : new.prices[c] \subseteq quotes[c]
    PROVE  IInv'
<1> USE DEF external
<1>1. TypeOK'
  BY DEF IInv, TypeOK, Days, Windows, LastDay, Results, Calls
<1>2. call' \in [Workers -> Calls] /\ \A j \in Workers : call'[j] = IF j = k THEN new ELSE call[j]
  BY DEF IInv, TypeOK
<1>3. CalendarOK' /\ HistoriesAreSound' /\ PricesAreQuoted'
  BY <1>2 DEF IInv, CalendarOK, HistoriesAreSound, PricesAreQuoted, Sound
<1>4. ResultsAreJustified'
  BY DEF IInv, ResultsAreJustified, Windows, Justified, Stale, Stopped
<1> QED
  BY <1>1, <1>3, <1>4 DEF IInv

LEMMA BeginStep ==
    ASSUME IInv, NEW k \in Workers, NEW mode \in Modes, NEW asof \in Days, Begin(k, mode, asof)
    PROVE  IInv'
<1> DEFINE prices == [c \in Candidates |-> {d \in raw[c] : d <= asof}]
           calendar == {d \in bench : d <= asof}
           new == [phase |-> IF mode = "due" THEN "begun" ELSE "ready",
                   mode |-> mode, asof |-> asof, prices |-> prices, index |-> calendar,
                   pending |-> IF mode = "due" THEN Pending(asof, prices, calendar)
                               ELSE [c \in Candidates |-> Windows]]
<1>1. /\ LastDay \in Nat /\ asof \in Nat /\ mode \in {"due", "range"}
      /\ sessions \in SUBSET (0 .. LastDay) /\ Sound(bench)
  BY SettingFacts DEF IInv, CalendarOK, TypeOK, HistoriesAreSound, Days
<1>2. call' = [call EXCEPT ![k] = new] /\ UNCHANGED <<external, results>>
  BY DEF Begin
<1>3. Pending(asof, prices, calendar) \in [Candidates -> SUBSET Windows]
  BY DEF Pending, Discovered
<1>4. prices \in [Candidates -> SUBSET Days] /\ calendar \in SUBSET Days
  BY DEF IInv, TypeOK
<1>5. new \in Calls
  <2> HIDE DEF prices, calendar
  <2> QED
    BY <1>1, <1>3, <1>4 DEF Calls
<1>6. Sound(calendar)
  BY <1>1, InitialCut DEF Sound
<1>7. \A c \in Candidates : prices[c] \subseteq quotes[c]
  BY DEF IInv, PricesAreQuoted
<1>8. new.index = calendar /\ new.prices = prices
  OBVIOUS
<1> HIDE DEF new, prices, calendar
<1> QED
  BY <1>2, <1>5, <1>6, <1>7, <1>8, CallStep

LEMMA FetchIndexStep ==
    ASSUME IInv, NEW k \in Workers, FetchIndex(k)
    PROVE  IInv'
<1> DEFINE more == call[k].index \cup {d \in index : d <= call[k].asof}
           new == [call[k] EXCEPT !.phase = "indexed",
                                  !.index = IF IndexNeeded(k) THEN more ELSE @]
<1>1. /\ LastDay \in Nat /\ call[k] \in Calls /\ call[k].asof \in Nat
      /\ sessions \in SUBSET (0 .. LastDay) /\ index \subseteq Days
      /\ Sound(index) /\ Sound(call[k].index)
  BY SettingFacts DEF IInv, CalendarOK, TypeOK, HistoriesAreSound, Calls, Days
<1>2. call' = [call EXCEPT ![k] = new] /\ UNCHANGED <<external, results>>
  BY DEF FetchIndex
<1>3. Sound(more)
  <2>1. InitialPart({d \in index : d <= call[k].asof}, sessions)
    BY <1>1, InitialCut DEF Sound
  <2> QED
    BY <1>1, <2>1, InitialUnion DEF Sound
<1>4. more \in SUBSET Days
  BY <1>1 DEF Calls
<1>5. new \in Calls /\ new.index \in {more, call[k].index} /\ new.prices = call[k].prices
  <2> HIDE DEF more
  <2> QED
    BY <1>1, <1>4 DEF Calls
<1>6. \A c \in Candidates : new.prices[c] \subseteq quotes[c]
  BY <1>5 DEF IInv, PricesAreQuoted
<1>7. Sound(new.index)
  BY <1>1, <1>3, <1>5
<1> HIDE DEF new
<1> QED
  BY <1>2, <1>5, <1>6, <1>7, CallStep

LEMMA FetchQuotesStep ==
    ASSUME IInv, NEW k \in Workers, NEW found, FetchQuotes(k, found)
    PROVE  IInv'
<1> DEFINE got == QuotesNeeded(k) \cap found
           prices == [c \in Candidates |-> call[k].prices[c] \cup
                        (IF c \in got THEN {d \in quotes[c] : d <= call[k].asof} ELSE {})]
           new == [call[k] EXCEPT !.phase = "ready", !.prices = prices]
<1>1. call[k] \in Calls /\ Sound(call[k].index) /\ quotes \in [Candidates -> SUBSET Days]
  BY DEF IInv, TypeOK, HistoriesAreSound
<1>2. call' = [call EXCEPT ![k] = new] /\ UNCHANGED <<external, results>>
  BY DEF FetchQuotes
<1>3. prices \in [Candidates -> SUBSET Days]
  BY <1>1 DEF Calls
<1>4. \A c \in Candidates : prices[c] \subseteq quotes[c]
  BY DEF IInv, PricesAreQuoted
<1>5. new \in Calls /\ new.index = call[k].index /\ new.prices = prices
  <2> HIDE DEF prices
  <2> QED
    BY <1>1, <1>3 DEF Calls
<1> HIDE DEF new, prices
<1> QED
  BY <1>1, <1>2, <1>4, <1>5, CallStep

LEMMA AbortStep ==
    ASSUME IInv, NEW k \in Workers, Abort(k)
    PROVE  IInv'
<1>1. /\ Idle \in Calls /\ Sound(Idle.index) /\ Idle.prices = [c \in Candidates |-> {}]
  BY SettingFacts DEF IInv, CalendarOK, Idle, Calls, Sound, InitialPart
<1> QED
  BY <1>1, CallStep DEF Abort

\* What a call finds out about a window is what became of it.
LEMMA OutcomeJustified ==
    ASSUME IInv, NEW k \in Workers, NEW c \in Candidates, NEW w \in Windows
    PROVE  /\ Outcome(k, c, w) \in Results
           /\ Justified(c, w, Outcome(k, c, w), sessions \ {0}, quotes[c])
<1> DEFINE at     == call[k]
           prices == at.prices[c]
           market == Future(at.index, at.asof)
           days   == sessions \ {0}
           r      == Evaluate(c, w, at.asof, prices, at.index)
           out    == Diagnosed(c, w, r, at.index)
<1>1. /\ LastDay \in Nat /\ w \in Nat \ {0} /\ at.asof \in Days /\ at.asof \in Nat /\ 0 \in Days
      /\ sessions \in SUBSET (0 .. LastDay) /\ days \in SUBSET (0 .. LastDay)
      /\ prices \subseteq quotes[c] /\ InitialPart(at.index, sessions)
  BY SettingFacts DEF IInv, CalendarOK, TypeOK, HistoriesAreSound, PricesAreQuoted, Sound, Calls, Days
<1> HIDE DEF days, prices
<1>2. InitialPart(market, days)
  BY <1>1, FutureIsInitial DEF days
<1>3. market \in SUBSET (0 .. LastDay) /\ Cardinality(market) \in Nat
  <2>1. market \in SUBSET (0 .. LastDay)
    BY <1>1, <1>2 DEF InitialPart
  <2> QED
    BY <1>1, <2>1, DaysFinite
<1>4. \A d \in market : d <= at.asof /\ d \in Days
  BY <1>3 DEF Future, Days
<1>5. ASSUME Cardinality(market) >= w
      PROVE  /\ Nth(days, w) = Nth(market, w) /\ FirstRows(days, w) = FirstRows(market, w)
             /\ Cardinality(days) >= w /\ Nth(market, w) <= at.asof /\ Nth(market, w) \in Days
  BY <1>1, <1>2, <1>4, <1>5, InitialPartTells
<1>6. \/ r = Skip("stale_candidate_price", at.asof) /\ c \in Stale
      \/ \E reason \in Reasons \ Terminal : r = Skip(reason, at.asof)
      \/ /\ r = [status |-> "validated", reason |-> "none", target |-> Nth(market, w), asof |-> at.asof]
         /\ Cardinality(market) >= w /\ FirstRows(market, w) \subseteq prices
  <2> HIDE DEF at, market
  <2>1. ~(Cardinality(Future(at.index, at.asof)) < w) <=> Cardinality(market) >= w
    BY <1>1, <1>3 DEF market
  <2> QED
    BY <2>1 DEF Evaluate, Reasons, Terminal, market
<1>7. CASE r = Skip("stale_candidate_price", at.asof) /\ c \in Stale
  <2>1. out = r
    BY <1>7 DEF Diagnosed, Skip
  <2>2. out \in Results /\ out.status = "skipped"
    BY <2>1, <1>7, <1>1 DEF Skip, Results, Reasons
  <2> QED
    BY <2>2, <1>7 DEF Justified, Outcome, days, prices
<1>8. CASE \E reason \in Reasons \ Terminal : r = Skip(reason, at.asof)
  <2>1. PICK reason \in Reasons \ Terminal : r = Skip(reason, at.asof)
    BY <1>8
  <2>2. /\ r \in Results /\ r.status = "skipped" /\ r.reason \notin Terminal /\ r.asof = at.asof
    BY <2>1, <1>1 DEF Skip, Results
  <2>3. CASE out = r
    BY <2>2, <2>3 DEF Justified, Outcome, days, prices
  <2>4. CASE out # r
    <3>1. /\ Evidence(c, at.asof) /\ Cardinality(market) >= w /\ Nth(market, w) >= Stop
          /\ out = [r EXCEPT !.reason = "trading_terminated_in_window", !.target = Nth(market, w)]
      BY <2>2, <2>4 DEF Diagnosed
    <3>2. out \in Results /\ out.status = "skipped"
      BY <3>1, <2>2, <1>5 DEF Results, Reasons
    <3>3. c \in Stopped /\ Nth(days, w) >= Stop /\ Cardinality(days) >= w
      BY <3>1, <1>5 DEF Evidence
    <3> QED
      BY <3>2, <3>3 DEF Justified, Outcome, days, prices
  <2> QED
    BY <2>3, <2>4
<1>9. CASE /\ r = [status |-> "validated", reason |-> "none", target |-> Nth(market, w), asof |-> at.asof]
           /\ Cardinality(market) >= w /\ FirstRows(market, w) \subseteq prices
  <2>1. out = r
    BY <1>9 DEF Diagnosed
  <2>2. r \in Results
    BY <1>1, <1>5, <1>9 DEF Results
  <2>3. Justified(c, w, r, days, quotes[c])
    BY <1>1, <1>5, <1>9 DEF Justified
  <2> QED
    BY <2>1, <2>2, <2>3 DEF Outcome, days, prices
<1> QED
  BY <1>6, <1>7, <1>8, <1>9

LEMMA CommitStep ==
    ASSUME IInv, NEW k \in Workers, Commit(k)
    PROVE  IInv'
<1>1. /\ results' = [c \in Candidates |-> [w \in Windows |->
                       IF Evaluated(k, c, w) THEN Outcome(k, c, w) ELSE results[c][w]]]
      /\ call' = [call EXCEPT ![k] = Idle] /\ UNCHANGED external
  BY DEF Commit
<1>2. \A c \in Candidates, w \in Windows :
         /\ results'[c][w] \in Results
         /\ Justified(c, w, results'[c][w], sessions \ {0}, quotes[c])
  BY <1>1, OutcomeJustified DEF IInv, TypeOK, ResultsAreJustified
<1>3. /\ Idle \in Calls /\ Sound(Idle.index) /\ Idle.prices = [c \in Candidates |-> {}]
  BY SettingFacts DEF IInv, CalendarOK, Idle, Calls, Sound, InitialPart
<1>4. results' \in [Candidates -> [Windows -> Results]]
  BY <1>1, <1>2
<1>5. call' \in [Workers -> Calls] /\ \A j \in Workers : call'[j] \in {Idle, call[j]}
  BY <1>1, <1>3 DEF IInv, TypeOK
<1> USE DEF external
<1>6. TypeOK'
  BY <1>1, <1>4, <1>5 DEF IInv, TypeOK, Days, Windows, LastDay, Results, Calls
<1>7. CalendarOK' /\ HistoriesAreSound' /\ PricesAreQuoted'
  BY <1>1, <1>3, <1>5 DEF IInv, CalendarOK, HistoriesAreSound, PricesAreQuoted, Sound
<1>8. ResultsAreJustified'
  BY <1>1, <1>2 DEF ResultsAreJustified, Windows, Justified, Stale, Stopped
<1> QED
  BY <1>6, <1>7, <1>8 DEF IInv

\* Every step keeps it.
LEMMA NextIInv == IInv /\ [Next]_vars => IInv'
<1> SUFFICES ASSUME IInv, [Next]_vars PROVE IInv'
  OBVIOUS
<1>1. CASE Market
  BY <1>1, TickStep, PublishIndexStep, StoreBenchmarkStep, PublishQuoteStep, StoreRowsStep DEF Market
<1>2. ASSUME NEW k \in Workers, Handle(k) PROVE IInv'
  BY <1>2, BeginStep, FetchIndexStep, FetchQuotesStep, CommitStep, AbortStep DEF Handle
<1>3. CASE UNCHANGED vars
  BY <1>3, MarketStep DEF vars, IInv, TypeOK, HistoriesAreSound, PricesAreQuoted, Sound
<1> QED
  BY <1>1, <1>2, <1>3 DEF Next

-----------------------------------------------------------------------------
(* Due calls one at a time *)

\* What a due call has taken on is still open: no other call has written since.
PendingIsOpen ==
    \A k \in Workers :
        /\ Modes = {"due"} => call[k].mode = "due"
        /\ call[k].mode = "due" =>
              \A c \in Candidates : \A w \in call[k].pending[c] :
                  ~Settled(c, results[c][w], call[k].asof)

LEMMA InitPendingIsOpen == Init => PendingIsOpen
BY DEF Init, PendingIsOpen, Idle

\* A step that touches no result and, of the requests, at most what one has fetched.
LEMMA PendingStays ==
    ASSUME PendingIsOpen, UNCHANGED <<setting, results>>,
           \A k \in Workers : /\ call'[k].mode = call[k].mode /\ call'[k].asof = call[k].asof
                              /\ call'[k].pending = call[k].pending
    PROVE  PendingIsOpen'
BY DEF PendingIsOpen, Modes, Settled, SettledRadar, SettledAnalysis, ProvenTermination, Evidence,
       Lifecycle, Stopped

LEMMA NextPendingIsOpen ==
    ASSUME \A j, k \in Workers : j = k, IInv, PendingIsOpen, [Next]_vars
    PROVE  PendingIsOpen'
<1>1. call \in [Workers -> Calls] /\ Modes \subseteq {"due", "range"}
  BY SettingFacts DEF IInv, CalendarOK, TypeOK
<1>2. CASE Market
  <2>1. UNCHANGED <<setting, results, call>>
    BY <1>2 DEF Market, Tick, PublishIndex, StoreBenchmark, PublishQuote, StoreRows
  <2> QED
    BY <2>1, PendingStays
<1>3. ASSUME NEW k \in Workers, NEW mode \in Modes, NEW asof \in Days, Begin(k, mode, asof)
      PROVE  PendingIsOpen'
  <2> DEFINE prices == [c \in Candidates |-> {d \in raw[c] : d <= asof}]
             calendar == {d \in bench : d <= asof}
             new == [phase |-> IF mode = "due" THEN "begun" ELSE "ready",
                     mode |-> mode, asof |-> asof, prices |-> prices, index |-> calendar,
                     pending |-> IF mode = "due" THEN Pending(asof, prices, calendar)
                                 ELSE [c \in Candidates |-> Windows]]
  <2>1. call' = [call EXCEPT ![k] = new] /\ UNCHANGED <<setting, results>>
    BY <1>3 DEF Begin, external
  <2>2. /\ new.mode = mode /\ new.asof = asof
        /\ mode = "due" => new.pending = Pending(asof, prices, calendar)
    OBVIOUS
  <2> HIDE DEF new, prices, calendar
  <2>3. \A j \in Workers : call'[j] = new
    BY <1>1, <2>1
  <2>4. \A c \in Candidates : \A w \in Pending(asof, prices, calendar)[c] :
           ~Settled(c, results[c][w], asof)
    BY DEF Pending
  <2>5. UNCHANGED <<Lifecycle, Stopped, Modes>>
    BY <2>1 DEF Lifecycle, Stopped, Modes
  <2> QED
    BY <2>1, <2>2, <2>3, <2>4, <2>5
    DEF PendingIsOpen, Settled, SettledRadar, SettledAnalysis, ProvenTermination, Evidence
<1>4. ASSUME NEW k \in Workers, FetchIndex(k) \/ \E found \in SUBSET Candidates : FetchQuotes(k, found)
      PROVE  PendingIsOpen'
  <2>1. UNCHANGED <<setting, results>>
    BY <1>4 DEF FetchIndex, FetchQuotes, external
  <2>2. \A j \in Workers : /\ call'[j].mode = call[j].mode /\ call'[j].asof = call[j].asof
                           /\ call'[j].pending = call[j].pending
    BY <1>1, <1>4 DEF FetchIndex, FetchQuotes, Calls
  <2> QED
    BY <2>1, <2>2, PendingStays
<1>5. ASSUME NEW k \in Workers, Commit(k) \/ Abort(k) PROVE PendingIsOpen'
  <2>1. \A j \in Workers : call'[j] = Idle
    BY <1>1, <1>5 DEF Commit, Abort
  <2> QED
    BY <2>1 DEF PendingIsOpen, Idle
<1>6. CASE UNCHANGED vars
  BY <1>6, PendingStays DEF vars
<1> QED
  BY <1>2, <1>3, <1>4, <1>5, <1>6 DEF Next, Handle

\* A commit writes nothing over a validated window that had ended by its day.
LEMMA SettledStaysStep ==
    ASSUME \A j, k \in Workers : j = k, IInv, PendingIsOpen, [Next]_vars,
           NEW c \in Candidates, NEW w \in Windows, NEW k \in Workers,
           Modes = {"due"}, results' # results, results[c][w].status = "validated",
           results[c][w].target <= call[k].asof
    PROVE  results'[c][w] = results[c][w]
<1>1. PICK j \in Workers : Commit(j)
  BY DEF Next, Market, Handle, Tick, PublishIndex, StoreBenchmark, PublishQuote, StoreRows,
         Begin, FetchIndex, FetchQuotes, Abort, vars
<1>2. j = k /\ call[k].mode = "due"
  BY DEF PendingIsOpen
<1>3. results[c][w].reason = "none"
  BY DEF IInv, ResultsAreJustified, Justified
<1>4. Settled(c, results[c][w], call[k].asof)
  BY <1>3 DEF Settled, SettledRadar, SettledAnalysis
<1>5. ~Evaluated(k, c, w)
  BY <1>2, <1>4 DEF Evaluated, ReadyWindows, PendingIsOpen
<1> QED
  BY <1>1, <1>2, <1>5 DEF Commit

-----------------------------------------------------------------------------
(* Theorems *)

\* The inductive invariant: benchmark histories have no hole, prices are the
\* provider's, and every settled row is justified by the sessions so far.
THEOREM Inductive == Spec => []IInv
BY InitIInv, NextIInv, PTL DEF Spec

\* What is stored of a window is what became of it, for any candidates, windows,
\* calendar and number of overlapping calls.
THEOREM OutcomesSound == Spec => []OutcomesAreSound
BY Inductive, IInvIsEnough, PTL

\* With one request at a time, and due ones only, a validated window that had ended
\* by the day asked for is never turned back into a skip and never moves.
THEOREM SettledKept ==
    ASSUME \A j, k \in Workers : j = k
    PROVE  Spec => SettledStays
<1>1. Init => PendingIsOpen
  BY InitPendingIsOpen
<1>2. IInv /\ PendingIsOpen /\ [Next]_vars => PendingIsOpen'
  BY NextPendingIsOpen
<1>3. IInv /\ PendingIsOpen /\ [Next]_vars =>
        [\A c \in Candidates, w \in Windows, k \in Workers :
            (/\ Modes = {"due"} /\ call[k] # Idle /\ results' # results /\ results[c][w].status = "validated"
             /\ results[c][w].target <= call[k].asof)
            => results'[c][w] = results[c][w]]_vars
  BY SettledStaysStep
<1> QED
  BY <1>1, <1>2, <1>3, Inductive, PTL DEF Spec, SettledStays

-----------------------------------------------------------------------------
(* RuleGovernance: the inductive invariant *)

\* What may be stored of a symbol and window.
StoredRows == {NoOutcome} \cup {verdicts[p] : verdicts \in Verdicts, p \in Symbols \X Horizons}
ResultTables == [Symbols \X Horizons -> StoredRows]
RulesTablesOK ==
    /\ runs \in [Dates -> Seq(Pools)]
    /\ outcomes \in [Dates -> Seq(ResultTables)]
CohortIsBounded ==
    review.phase # "idle" => \E n \in Nat : review.cohort \subseteq 0 .. n

RulesIInv == RulesTypeOK /\ RulesTablesOK /\ CohortIsBounded /\ ReasonTellsEligible

LEMMA StoredHasStatus == RulesAssumption => \A r \in StoredRows : r.status \in Statuses
BY DEF RulesAssumption, StoredAssumption, StoredRows, NoOutcome, Statuses

LEMMA RulesInitHolds == RulesInit => RulesIInv
<1> SUFFICES ASSUME RulesInit PROVE RulesIInv
  OBVIOUS
<1> USE DEF RulesInit
<1>1. RulesTypeOK
  BY DEF RulesTypeOK
<1>2. RulesTablesOK
  BY DEF RulesTablesOK
<1>3. CohortIsBounded /\ ReasonTellsEligible
  BY DEF CohortIsBounded, ReasonTellsEligible
<1> QED
  BY <1>1, <1>2, <1>3 DEF RulesIInv

\* A run is appended with the results of all its candidates missing.
LEMMA SaveRunStep ==
    ASSUME RulesAssumption, RulesIInv, NEW d \in Dates, SaveRun(d)
    PROVE  RulesIInv'
<1> DEFINE missing == [p \in Symbols \X Horizons |-> NoOutcome]
<1>1. PICK pool \in Pools :
          /\ runs' = [runs EXCEPT ![d] = Append(@, pool)]
          /\ outcomes' = [outcomes EXCEPT ![d] = Append(@, missing)]
          /\ report' = NoReport /\ review' = review
  BY DEF SaveRun
<1>2. missing \in ResultTables
  BY DEF StoredRows, ResultTables
<1>3. /\ runs \in [Dates -> Seq(Pools)]
      /\ outcomes \in [Dates -> Seq(ResultTables)]
      /\ RulesTypeOK
  BY DEF RulesIInv, RulesTablesOK
<1>4. \A p \in Symbols \X Horizons : missing[p] = NoOutcome /\ missing[p].status \in Statuses
  BY DEF NoOutcome, Statuses
<1> HIDE DEF missing
<1>5. RulesTablesOK'
  <2>1. runs' \in [Dates -> Seq(Pools)]
    BY <1>1, <1>3
  <2>2. outcomes' \in [Dates -> Seq(ResultTables)]
    BY <1>1, <1>2, <1>3
  <2> QED
    BY <2>1, <2>2 DEF RulesTablesOK
<1>6. \A e \in Dates : e # d => runs'[e] = runs[e] /\ outcomes'[e] = outcomes[e]
  BY <1>1, <1>3
<1>7. runs'[d] = Append(runs[d], pool) /\ outcomes'[d] = Append(outcomes[d], missing)
  BY <1>1, <1>3
<1>8. /\ runs[d] \in Seq(Pools) /\ Len(outcomes[d]) = Len(runs[d]) /\ Len(runs[d]) \in Nat
      /\ outcomes[d] \in Seq(ResultTables)
  BY <1>3 DEF RulesTypeOK
<1>9. /\ Len(runs'[d]) = Len(runs[d]) + 1 /\ Len(outcomes'[d]) = Len(runs[d]) + 1
      /\ \A i \in 1 .. Len(runs[d]) : runs'[d][i] = runs[d][i] /\ outcomes'[d][i] = outcomes[d][i]
      /\ outcomes'[d][Len(runs[d]) + 1] = missing
  BY <1>7, <1>8
<1>10. \A e \in Dates : \A i \in 1 .. Len(runs'[e]), p \in Symbols \X Horizons :
          /\ outcomes'[e][i][p].status \in Statuses
          /\ runs'[e][i][p[1]] = Absent => outcomes'[e][i][p] = NoOutcome
  <2> SUFFICES ASSUME NEW e \in Dates, NEW i \in 1 .. Len(runs'[e]), NEW p \in Symbols \X Horizons
               PROVE  /\ outcomes'[e][i][p].status \in Statuses
                      /\ runs'[e][i][p[1]] = Absent => outcomes'[e][i][p] = NoOutcome
    OBVIOUS
  <2>1. CASE e # d
    <3>1. runs'[e] = runs[e] /\ outcomes'[e] = outcomes[e] /\ i \in 1 .. Len(runs[e])
      BY <2>1, <1>6
    <3> QED
      BY <3>1, <1>3 DEF RulesTypeOK
  <2>2. CASE e = d /\ i \in 1 .. Len(runs[d])
    BY <2>2, <1>3, <1>9 DEF RulesTypeOK
  <2>3. CASE e = d /\ i = Len(runs[d]) + 1
    BY <2>3, <1>4, <1>9
  <2>4. e = d => i \in 1 .. Len(runs[d]) \/ i = Len(runs[d]) + 1
    BY <1>8, <1>9
  <2> QED
    BY <2>1, <2>2, <2>3, <2>4
<1>11. RulesTypeOK'
  <2>1. \A e \in Dates : Len(outcomes'[e]) = Len(runs'[e])
    BY <1>6, <1>9, <1>3 DEF RulesTypeOK
  <2> QED
    BY <1>1, <1>3, <1>10, <2>1 DEF RulesTypeOK
<1>12. CohortIsBounded' /\ ReasonTellsEligible'
  BY <1>1 DEF RulesIInv, CohortIsBounded, ReasonTellsEligible
<1> QED
  BY <1>5, <1>11, <1>12 DEF RulesIInv

\* Results are stored of the latest run's candidates only.
LEMMA StoreResultsStep ==
    ASSUME RulesAssumption, RulesIInv, NEW d \in Dates, StoreResults(d)
    PROVE  RulesIInv'
<1> DEFINE i == Latest(d)
           Stores(verdicts) == [p \in Symbols \X Horizons |->
               IF runs[d][i][p[1]] = Absent \/ verdicts[p] = NoOutcome
               THEN outcomes[d][i][p] ELSE verdicts[p]]
<1>1. PICK verdicts \in Verdicts :
          /\ i > 0 /\ outcomes' = [outcomes EXCEPT ![d][i] = Stores(verdicts)]
          /\ report' = NoReport /\ UNCHANGED <<runs, review>>
  BY DEF StoreResults
<1>2. /\ runs \in [Dates -> Seq(Pools)]
      /\ outcomes \in [Dates -> Seq(ResultTables)]
      /\ RulesTypeOK
  BY DEF RulesIInv, RulesTablesOK
<1>3. /\ i \in 1 .. Len(runs[d]) /\ Len(outcomes[d]) = Len(runs[d])
      /\ outcomes[d] \in Seq(ResultTables)
  BY <1>1, <1>2 DEF RulesTypeOK, Latest
<1>4. outcomes[d][i] \in [Symbols \X Horizons -> StoredRows]
  <2>1. outcomes[d][i] \in ResultTables
    BY <1>3
  <2> QED
    BY <2>1 DEF ResultTables
<1> HIDE DEF i
<1>5. \A p \in Symbols \X Horizons :
          /\ Stores(verdicts)[p] \in StoredRows
          /\ runs[d][i][p[1]] = Absent => Stores(verdicts)[p] = NoOutcome
  <2>1. \A p \in Symbols \X Horizons :
            runs[d][i][p[1]] = Absent => outcomes[d][i][p] = NoOutcome
    BY <1>2, <1>3 DEF RulesTypeOK
  <2> QED
    BY <2>1, <1>4 DEF StoredRows
<1>6. Stores(verdicts) \in ResultTables
  BY <1>5 DEF ResultTables
<1> DEFINE stored == Stores(verdicts)
<1> HIDE DEF stored, Stores
<1>7. outcomes' = [outcomes EXCEPT ![d] = [outcomes[d] EXCEPT ![i] = stored]]
  BY <1>1, <1>2 DEF stored
<1>8. [outcomes[d] EXCEPT ![i] = stored] \in Seq(ResultTables)
      /\ Len([outcomes[d] EXCEPT ![i] = stored]) = Len(outcomes[d])
  BY <1>3, <1>6 DEF stored
<1>9. RulesTablesOK'
  BY <1>1, <1>2, <1>7, <1>8 DEF RulesTablesOK
<1>10. \A e \in Dates : \A j \in 1 .. Len(runs[e]), p \in Symbols \X Horizons :
          /\ outcomes'[e][j][p].status \in Statuses
          /\ runs[e][j][p[1]] = Absent => outcomes'[e][j][p] = NoOutcome
  <2> SUFFICES ASSUME NEW e \in Dates, NEW j \in 1 .. Len(runs[e]), NEW p \in Symbols \X Horizons
               PROVE  /\ outcomes'[e][j][p].status \in Statuses
                      /\ runs[e][j][p[1]] = Absent => outcomes'[e][j][p] = NoOutcome
    OBVIOUS
  <2>1. CASE e = d /\ j = i
    <3>1. outcomes'[e][j] = stored
      BY <2>1, <1>2, <1>3, <1>7
    <3> QED
      BY <3>1, <2>1, <1>5, StoredHasStatus DEF stored
  <2>2. CASE ~(e = d /\ j = i)
    <3>1. outcomes'[e][j] = outcomes[e][j]
      BY <2>2, <1>2, <1>3, <1>7
    <3> QED
      BY <3>1, <1>2 DEF RulesTypeOK
  <2> QED
    BY <2>1, <2>2
<1>11. RulesTypeOK'
  <2>1. \A e \in Dates : Len(outcomes'[e]) = Len(runs[e])
    BY <1>2, <1>7, <1>8 DEF RulesTypeOK
  <2> QED
    BY <1>1, <1>2, <1>10, <2>1 DEF RulesTypeOK
<1>12. CohortIsBounded' /\ ReasonTellsEligible'
  BY <1>1 DEF RulesIInv, CohortIsBounded, ReasonTellsEligible
<1> QED
  BY <1>9, <1>11, <1>12 DEF RulesIInv

\* Where the tables stay, they stay well formed.
LEMMA RulesTablesStay == RulesTablesOK /\ UNCHANGED <<runs, outcomes>> => RulesTablesOK'
BY DEF RulesTablesOK

-----------------------------------------------------------------------------
(* RuleGovernance: months and gates *)

\* The last few of a set of months are few.
LEMMA LastFew ==
    ASSUME NEW n \in Nat, NEW T \in SUBSET (0 .. n), NEW size \in Nat \ {0}
    PROVE  Cardinality({x \in T : Cardinality({k \in T : k > x}) < size}) <= size
<1> DEFINE C == {x \in T : Cardinality({k \in T : k > x}) < size}
<1> SUFFICES Cardinality(C) <= size
  OBVIOUS
<1>0. T \subseteq Nat /\ C \subseteq T /\ IsFiniteSet(T) /\ Cardinality({}) = 0
  <2>1. IsFiniteSet(0 .. n) /\ 0 .. n \subseteq Nat /\ T \subseteq 0 .. n
    BY FS_Interval
  <2> QED
    BY <2>1, FS_Subset, FS_EmptySet
<1>1. CASE C = {}
  <2> HIDE DEF C
  <2> QED
    BY <1>0, <1>1
<1>2. CASE C # {}
  <2>1. C \in SUBSET Nat
    BY <1>0
  <2>2. PICK x \in C : \A y \in C : x <= y
    <3> HIDE DEF C
    <3> QED
      BY <1>2, <2>1, LeastNat
  <2> DEFINE later == {k \in T : k > x}
  <2>3. Cardinality(later) < size
    BY <2>2
  <2>4. IsFiniteSet(later) /\ x \notin later
    <3>1. later \subseteq T
      OBVIOUS
    <3>2. x \notin later
      <4>1. x \in Nat
        BY <2>1
      <4>2. ~(x > x)
        BY <4>1
      <4> QED
        BY <4>2
    <3> QED
      BY <1>0, <3>1, <3>2, FS_Subset
  <2>5. C \subseteq later \cup {x}
    <3> SUFFICES ASSUME NEW y \in C, y # x PROVE y > x
      BY <1>0
    <3>1. x \in Nat /\ y \in Nat /\ x <= y
      BY <2>1, <2>2
    <3> QED
      BY <3>1
  <2> HIDE DEF later, C
  <2>6. IsFiniteSet(later \cup {x}) /\ Cardinality(later \cup {x}) = Cardinality(later) + 1
    BY <2>4, FS_AddElement
  <2>7. Cardinality(C) <= Cardinality(later) + 1 /\ Cardinality(C) \in Nat /\ Cardinality(later) \in Nat
    BY <2>4, <2>5, <2>6, FS_Subset, FS_CardinalityType
  <2> QED
    BY <2>3, <2>7 DEF C
<1> QED
  BY <1>1, <1>2

\* The last of a nonempty set of months, which Max names.
LEMMA LastMonth ==
    ASSUME NEW n \in Nat, NEW T \in SUBSET (0 .. n), T # {}
    PROVE  Max(T) \in T /\ \A d \in T : d <= Max(T)
<1> DEFINE U == {n - d : d \in T}
<1>1. \A d \in T : d \in Int /\ 0 <= d /\ d <= n
  OBVIOUS
<1>2. U \in SUBSET Nat /\ U # {}
  <2>1. \A d \in T : n - d \in Nat
    BY <1>1
  <2> QED
    BY <2>1
<1>3. PICK x \in U : \A y \in U : x <= y
  BY <1>2, LeastNat
<1>4. PICK d \in T : x = n - d
  OBVIOUS
<1>5. \A e \in T : d >= e
  <2> SUFFICES ASSUME NEW e \in T PROVE d >= e
    OBVIOUS
  <2>1. n - d <= n - e
    BY <1>3, <1>4
  <2> QED
    BY <2>1, <1>1
<1>6. Max(T) \in T /\ \A e \in T : Max(T) >= e
  BY <1>5 DEF Max
<1> QED
  BY <1>6, <1>1

LEMMA CohortIsFew ==
    ASSUME RulesAssumption, NEW m \in Months
    PROVE  /\ Cohort(m) \subseteq Months /\ Cohort(m) \subseteq 0 .. m /\ m \in Nat
           /\ Cardinality(Cohort(m)) <= CohortSize
<1> DEFINE mature == {n \in {k \in Months : k <= m} : Mature(n)}
<1>1. Months \subseteq Nat /\ m \in Nat
  BY DEF RulesAssumption, DatesAssumption, Months
<1>2. mature \in SUBSET (0 .. m) /\ mature \subseteq Months
  <2>1. \A k \in Months : k <= m => k \in 0 .. m
    BY <1>1
  <2> QED
    BY <2>1
<1>3. Cohort(m) = {n \in mature : Cardinality({k \in mature : k > n}) < CohortSize}
  BY DEF Cohort
<1> HIDE DEF mature
<1>4. Cardinality(Cohort(m)) <= CohortSize
  BY <1>1, <1>2, <1>3, LastFew DEF RulesAssumption, LimitsAssumption
<1> QED
  BY <1>1, <1>2, <1>3, <1>4

\* The cascade names the first gate that is shut, and says "eligible" only
\* when there is none.
LEMMA RuleReasonIsFirst ==
    ASSUME NEW gates, Len(gates) = 9
    PROVE  Reason(gates) = "eligible" <=> \A i \in 1..Len(gates) : gates[i]
<1> DEFINE shut == {i \in 1..9 : ~gates[i]} \cup {10}
<1>1. shut \in SUBSET Nat /\ shut # {} /\ \A i \in shut : i \in 1..10
  OBVIOUS
<1>2. \E x \in shut : \A y \in shut : x <= y
  BY <1>1, LeastNat
<1>3. Min(shut) \in shut /\ \A y \in shut : Min(shut) <= y
  BY <1>2 DEF Min
<1>4. Reason(gates) = GateReasons[Min(shut)]
  BY DEF Reason, GateReasons
<1>5. \A i \in 1..10 : GateReasons[i] = "eligible" <=> i = 10
  BY DEF GateReasons
<1>6. Min(shut) \in 1..10
  BY <1>1, <1>3
<1>7. Min(shut) = 10 <=> shut = {10}
  BY <1>1, <1>3
<1>8. shut = {10} <=> \A i \in 1..9 : gates[i]
  OBVIOUS
<1> HIDE DEF shut
<1> QED
  BY <1>4, <1>5, <1>6, <1>7, <1>8

LEMMA RuleGateCount == \A read, pool, before, after, lower : Len(Gates(read, pool, before, after, lower)) = 9
BY DEF Gates

\* What is true once every gate is open.
LEMMA RuleGatesOpen ==
    ASSUME NEW read, NEW pool, NEW before, NEW after, NEW lower, NEW gates,
           gates = Gates(read, pool, before, after, lower), \A i \in 1..Len(gates) : gates[i]
    PROVE  /\ Cardinality(read.cohort) = CohortSize
           /\ pool # "capacity_exceeded"
           /\ EnoughSamples(before, after, read.cohort)
           /\ TrainingGains(before, after, read.cohort, lower)
           /\ HorizonsKept(before, after, read.cohort)
<1> DEFINE g1 == Cardinality(read.cohort) = CohortSize
           g2 == pool # "capacity_exceeded"
           g4 == ReplayCovered(DatesOf(read.cohort), read.cohort)
           g5 == pool = "complete"
           g6 == EnoughSamples(before, after, read.cohort)
           g7 == EnoughBlocks(before, after, read.cohort)
           g8 == TrainingGains(before, after, read.cohort, lower)
           g9 == HorizonsKept(before, after, read.cohort)
<1>1. gates = <<g1, g2, read.covered, g4, g5, g6, g7, g8, g9>>
  BY DEF Gates
<1> HIDE DEF g1, g2, g4, g5, g6, g7, g8, g9
<1>2. g1 /\ g2 /\ g6 /\ g8 /\ g9
  <2>1. Len(gates) = 9 /\ 1 \in 1..9 /\ 2 \in 1..9 /\ 6 \in 1..9 /\ 8 \in 1..9 /\ 9 \in 1..9
    BY <1>1
  <2>2. gates[1] /\ gates[2] /\ gates[6] /\ gates[8] /\ gates[9]
    BY <2>1
  <2>3. gates[1] = g1 /\ gates[2] = g2 /\ gates[6] = g6 /\ gates[8] = g8 /\ gates[9] = g9
    BY <1>1
  <2> QED
    BY <2>2, <2>3
<1> QED
  BY <1>2 DEF g1, g2, g6, g8, g9

-----------------------------------------------------------------------------
(* RuleGovernance: the report *)

\* Equal scores give equal ranks, and a set of rows gains nothing over itself.
LEMMA GainsOnlyWhenStepped ==
    ASSUME NEW variant, NEW rows, NEW cohort, NEW lower,
           TrainingGains(Top("baseline", rows), Top(variant, rows), cohort, lower)
    PROVE  Stepped(variant)
<1> SUFFICES ASSUME ~Stepped(variant) PROVE FALSE
  OBVIOUS
<1>1. \A s, t : Before(variant, s, t) = Before("baseline", s, t)
  BY DEF Stepped, Before
<1>2. Top(variant, rows) = Top("baseline", rows)
  BY <1>1 DEF Top
<1> DEFINE training == InMonths(Top("baseline", rows), Training(cohort))
<1>3. Gains(training, training, "excess")
  BY <1>2 DEF TrainingGains
<1> HIDE DEF training
<1> QED
  BY <1>3 DEF Gains

\* What a report says of a variant.
Replayed(cohort, pool) == IF pool = "capacity_exceeded" THEN {} ELSE Eligible(DatesOf(cohort))
LEMMA RuleReportFacts ==
    ASSUME NEW variant \in Variants, WriteReport(variant)
    PROVE  \E pool, lower, gates :
              LET rows == Replayed(review.cohort, pool)
                  before == Top("baseline", rows)
                  after == Top(variant, rows)
              IN  /\ pool = PoolStatus(review.exceeded, DatesOf(review.cohort))
                  /\ gates = Gates(review, pool, before, after, lower)
                  /\ report'.pool = pool /\ report'.variant = variant
                  /\ \A w \in Horizons : report'.ablation[w]
                        = Ablation(pool, InWindow(before, w), InWindow(Top("ablated", rows), w))
                  /\ \A v \in {"baseline", variant} : report'.counted[v] = Top(v, rows)
                  /\ report'.eligible <=> (\A i \in 1..Len(gates) : gates[i])
                  /\ report'.reason = Reason(gates)
                  /\ report' # NoReport
<1> DEFINE pool == PoolStatus(review.exceeded, DatesOf(review.cohort))
           rows == Replayed(review.cohort, pool)
           before == Top("baseline", rows)
           without == Top("ablated", rows)
           after == Top(variant, rows)
<1>1. PICK lower \in BOOLEAN :
        report' = [pool |-> pool, variant |-> variant,
                   ablation |-> [w \in Horizons |-> Ablation(pool, InWindow(before, w), InWindow(without, w))],
                   buckets |-> [p \in Horizons \X {Bucket[s] : s \in Symbols} |->
                       BucketAblation(pool, InWindow(before, p[1]), InWindow(without, p[1]), p[2])],
                   counted |-> [v \in {"baseline", variant} |->
                                    IF v = "baseline" THEN before ELSE after],
                   eligible |-> (\A i \in 1..Len(Gates(review, pool, before, after, lower)) :
                                     Gates(review, pool, before, after, lower)[i])
                                 /\ Stepped(variant),
                   reason |-> Reason(Gates(review, pool, before, after, lower))]
  BY DEF WriteReport, Replayed
<1> DEFINE gates == Gates(review, pool, before, after, lower)
<1>2. (\A i \in 1..Len(gates) : gates[i]) => Stepped(variant)
  <2> SUFFICES ASSUME \A i \in 1..Len(gates) : gates[i] PROVE Stepped(variant)
    OBVIOUS
  <2>1. TrainingGains(before, after, review.cohort, lower)
    <3> HIDE DEF pool, before, after
    <3> QED
      BY RuleGatesOpen
  <2> HIDE DEF pool, rows
  <2> QED
    BY <2>1, GainsOnlyWhenStepped
<1>3. \A v \in {"baseline", variant} :
          (IF v = "baseline" THEN before ELSE after) = Top(v, rows)
  BY DEF Variants
<1>4. pool # "none"
  BY DEF PoolStatus
<1> HIDE DEF pool, before, without, after, gates
<1>5. /\ report'.pool = pool /\ report'.variant = variant
      /\ \A w \in Horizons : report'.ablation[w] = Ablation(pool, InWindow(before, w), InWindow(without, w))
      /\ \A v \in {"baseline", variant} :
            report'.counted[v] = IF v = "baseline" THEN before ELSE after
      /\ report'.eligible = ((\A i \in 1..Len(gates) : gates[i]) /\ Stepped(variant))
      /\ report'.reason = Reason(gates)
  BY <1>1 DEF gates
<1>6. report' # NoReport
  BY <1>4, <1>5 DEF NoReport
<1>7. report'.eligible <=> (\A i \in 1..Len(gates) : gates[i])
  BY <1>2, <1>5
<1>8. /\ report'.pool = pool /\ report'.variant = variant
      /\ \A w \in Horizons : report'.ablation[w] = Ablation(pool, InWindow(before, w), InWindow(without, w))
      /\ \A v \in {"baseline", variant} : report'.counted[v] = Top(v, rows)
      /\ report'.reason = Reason(gates)
  BY <1>3, <1>5
<1>9. /\ pool = PoolStatus(review.exceeded, DatesOf(review.cohort))
      /\ gates = Gates(review, pool, before, after, lower)
  BY DEF pool, gates
<1> HIDE DEF rows
<1>10. rows = Replayed(review.cohort, pool) /\ before = Top("baseline", rows)
       /\ after = Top(variant, rows) /\ without = Top("ablated", rows)
  BY DEF rows, before, after, without
<1> QED
  BY <1>6, <1>7, <1>8, <1>9, <1>10

\* Both queries of a call leave the tables as they are.
LEMMA RulesTypeStays ==
    ASSUME RulesIInv, UNCHANGED <<runs, outcomes>>,
           review'.phase # "idle" =>
              review'.cohort \subseteq Months /\ Cardinality(review'.cohort) <= CohortSize
    PROVE  RulesTypeOK' /\ RulesTablesOK'
<1>1. RulesTablesOK'
  BY RulesTablesStay DEF RulesIInv
<1>2. RulesTypeOK'
  BY DEF RulesIInv, RulesTypeOK
<1> QED
  BY <1>1, <1>2

LEMMA RulesWatermarkStep ==
    ASSUME RulesAssumption, RulesIInv, NEW m \in Months, ReadWatermarks(m)
    PROVE  RulesIInv'
<1>1. /\ UNCHANGED <<runs, outcomes>> /\ report' = NoReport
      /\ review'.cohort = Cohort(m)
  BY DEF ReadWatermarks
<1>2. /\ Cohort(m) \subseteq Months /\ Cohort(m) \subseteq 0 .. m /\ m \in Nat
      /\ Cardinality(Cohort(m)) <= CohortSize
  BY CohortIsFew
<1>3. RulesTypeOK' /\ RulesTablesOK'
  BY <1>1, <1>2, RulesTypeStays
<1>4. CohortIsBounded' /\ ReasonTellsEligible'
  BY <1>1, <1>2 DEF CohortIsBounded, ReasonTellsEligible
<1> QED
  BY <1>3, <1>4 DEF RulesIInv

LEMMA RulesPreflightStep ==
    ASSUME RulesIInv, Preflight
    PROVE  RulesIInv'
<1>1. /\ UNCHANGED <<runs, outcomes, report>> /\ review.phase = "preflight"
      /\ review'.cohort = review.cohort
  BY DEF Preflight
<1>2. /\ review.cohort \subseteq Months /\ Cardinality(review.cohort) <= CohortSize
      /\ \E n \in Nat : review.cohort \subseteq 0 .. n
  BY <1>1 DEF RulesIInv, RulesTypeOK, CohortIsBounded
<1>3. RulesTypeOK' /\ RulesTablesOK'
  BY <1>1, <1>2, RulesTypeStays
<1>4. CohortIsBounded' /\ ReasonTellsEligible'
  BY <1>1, <1>2 DEF RulesIInv, CohortIsBounded, ReasonTellsEligible
<1> QED
  BY <1>3, <1>4 DEF RulesIInv

LEMMA RulesReportStep ==
    ASSUME RulesIInv, NEW variant \in Variants, WriteReport(variant)
    PROVE  RulesIInv'
<1>1. UNCHANGED <<runs, outcomes>> /\ review' = [phase |-> "idle"]
  BY DEF WriteReport
<1>2. RulesTypeOK' /\ RulesTablesOK'
  BY <1>1, RulesTypeStays
<1>3. CohortIsBounded'
  BY <1>1 DEF CohortIsBounded
<1>4. ReasonTellsEligible'
  <2>1. PICK gates : /\ Len(gates) = 9 /\ report'.reason = Reason(gates)
                     /\ report'.eligible <=> (\A i \in 1..Len(gates) : gates[i])
    BY RuleReportFacts, RuleGateCount
  <2>2. Reason(gates) = "eligible" <=> \A i \in 1..Len(gates) : gates[i]
    BY <2>1, RuleReasonIsFirst
  <2> QED
    BY <2>1, <2>2 DEF ReasonTellsEligible
<1> QED
  BY <1>2, <1>3, <1>4 DEF RulesIInv

LEMMA RulesStepHolds ==
    ASSUME RulesAssumption PROVE RulesIInv /\ [RulesNext]_rulesVars => RulesIInv'
<1> SUFFICES ASSUME RulesIInv, [RulesNext]_rulesVars PROVE RulesIInv'
  OBVIOUS
<1>1. CASE UNCHANGED rulesVars
  <2>1. UNCHANGED <<runs, outcomes, review, report>>
    BY <1>1 DEF rulesVars
  <2>2. RulesTypeOK' /\ RulesTablesOK'
    BY <2>1, RulesTypeStays DEF RulesIInv, RulesTypeOK
  <2>3. CohortIsBounded' /\ ReasonTellsEligible'
    BY <2>1 DEF RulesIInv, CohortIsBounded, ReasonTellsEligible
  <2> QED
    BY <2>2, <2>3 DEF RulesIInv
<1> QED
  BY <1>1, SaveRunStep, StoreResultsStep, RulesWatermarkStep, RulesPreflightStep, RulesReportStep
  DEF RulesNext

\* Every stored result belongs to a candidate, a cohort is a bounded few of the
\* known months, and a report's flag and reason agree.
THEOREM RulesSafe == ASSUME RulesAssumption PROVE RulesSpec => []RulesIInv
<1>1. RulesInit => RulesIInv
  BY RulesInitHolds
<1>2. RulesIInv /\ [RulesNext]_rulesVars => RulesIInv'
  BY RulesStepHolds
<1> QED
  BY <1>1, <1>2, PTL DEF RulesSpec

-----------------------------------------------------------------------------
(* RuleGovernance: what a report rests on *)

\* Only WriteReport leaves a new report.
LEMMA ReportIsWritten ==
    ASSUME RulesNext, Written
    PROVE  /\ review.phase = "load" /\ UNCHANGED <<runs, outcomes>>
           /\ \E variant \in Variants : WriteReport(variant)
<1>1. report' # NoReport /\ report' # report
  BY DEF Written
<1>2. PICK variant \in Variants : WriteReport(variant)
  BY <1>1 DEF RulesNext, SaveRun, StoreResults, ReadWatermarks, Preflight
<1> QED
  BY <1>2 DEF WriteReport

\* A pool that is complete keeps every row of the cohort.
LEMMA CompletePool ==
    ASSUME NEW exceeded, NEW dates, PoolStatus(exceeded, dates) = "complete"
    PROVE  Eligible(dates) = Rows(dates)
BY DEF PoolStatus

\* JudgedOnFullPool, of a report.
LEMMA JudgedHolds ==
    ASSUME NEW variant \in Variants, WriteReport(variant),
           NEW w0 \in Horizons, report'.ablation[w0] \in {"review_group_removal", "keep_group"},
           NEW d \in DatesOf(review.cohort), NEW s \in Symbols, s \in CandidatesOf(d)
    PROVE  /\ runs[d][Latest(d)][s].complete /\ runs[d][Latest(d)][s].reproduces
           /\ \A w \in Horizons : Stored(d, s, w) # NoOutcome
<1>1. PICK pool, before, without :
        /\ pool = PoolStatus(review.exceeded, DatesOf(review.cohort))
        /\ report'.ablation[w0] = Ablation(pool, before, without)
  BY RuleReportFacts
<1>2. pool \in {"capacity_exceeded", "not_applicable", "incomplete", "complete"}
  BY <1>1 DEF PoolStatus
<1>3. pool = "complete"
  BY <1>1, <1>2 DEF Ablation
<1>4. Eligible(DatesOf(review.cohort)) = Rows(DatesOf(review.cohort))
  BY <1>1, <1>3, CompletePool
<1>5. \A w \in Horizons : Replayable(d, s, w) /\ Reproduces(d, s)
  <2> SUFFICES ASSUME NEW w \in Horizons PROVE Replayable(d, s, w) /\ Reproduces(d, s)
    OBVIOUS
  <2> DEFINE row == <<d, s, w>>
  <2>1. row \in Rows(DatesOf(review.cohort)) /\ row[1] = d /\ row[2] = s /\ row[3] = w
    BY DEF Rows
  <2>2. row \in Eligible(DatesOf(review.cohort))
    BY <1>4, <2>1
  <2> HIDE DEF row
  <2> QED
    BY <2>1, <2>2 DEF Eligible
<1> QED
  BY <1>5 DEF Replayable, Reproduces

\* CountedByRankAlone, of a report.
LEMMA CountedHolds ==
    ASSUME RulesAssumption, NEW variant \in Variants, WriteReport(variant),
           report'.pool = "complete", NEW v \in {"baseline", report'.variant},
           NEW row \in report'.counted[v]
    PROVE  Cardinality({t \in CandidatesOf(row[1]) : Before(v, t, row[2])}) < Cutoff
<1>1. PICK pool :
        /\ pool = PoolStatus(review.exceeded, DatesOf(review.cohort))
        /\ report'.pool = pool /\ report'.variant = variant
        /\ \A u \in {"baseline", variant} : report'.counted[u] = Top(u, Replayed(review.cohort, pool))
  BY RuleReportFacts
<1> DEFINE dates == DatesOf(review.cohort)
           ahead == {t \in CandidatesOf(row[1]) : Before(v, t, row[2])}
           others == {other \in Rows(dates) : /\ <<other[1], other[3]>> = <<row[1], row[3]>>
                                              /\ Before(v, other[2], row[2])}
<1>2. Eligible(dates) = Rows(dates)
  BY <1>1, CompletePool
<1>3. row \in Top(v, Rows(dates))
  <2>1. row \in Top(v, Replayed(review.cohort, pool))
    BY <1>1
  <2> QED
    BY <1>1, <1>2, <2>1 DEF Replayed
<1>4. row \in Rows(dates) /\ Cardinality(others) < Cutoff
  BY <1>3 DEF Top
<1>5. /\ row[1] \in dates /\ row[2] \in Symbols /\ row[3] \in Horizons
      /\ CandidatesOf(row[1]) \subseteq Symbols
  BY <1>4 DEF Rows, CandidatesOf
<1>6. IsFiniteSet(Symbols) /\ IsFiniteSet(ahead)
  <2>1. IsFiniteSet(Symbols) /\ ahead \subseteq Symbols
    BY <1>5 DEF RulesAssumption, LimitsAssumption
  <2> QED
    BY <2>1, FS_Subset
<1> DEFINE RowOf(t) == <<row[1], t, row[3]>>
<1>7. \A t \in ahead : RowOf(t) \in others
  <2> SUFFICES ASSUME NEW t \in ahead PROVE RowOf(t) \in others
    OBVIOUS
  <2>1. t \in CandidatesOf(row[1]) /\ Before(v, t, row[2])
    OBVIOUS
  <2>2. RowOf(t) \in Rows(dates)
    BY <1>5, <2>1 DEF Rows
  <2> QED
    BY <2>1, <2>2
<1>8. IsFiniteSet(others)
  <2> DEFINE all == {RowOf(t) : t \in Symbols}
             rowOf == [t \in Symbols |-> RowOf(t)]
  <2>1. IsFiniteSet(all)
    <3>1. rowOf \in Surjection(Symbols, all)
      BY DEF Surjection
    <3> QED
      BY <1>6, <3>1, FS_Surjection
  <2>2. others \subseteq all
    <3> SUFFICES ASSUME NEW other \in others PROVE other \in all
      OBVIOUS
    <3>1. other[2] \in Symbols /\ other = <<other[1], other[2], other[3]>>
          /\ other[1] = row[1] /\ other[3] = row[3]
      BY DEF Rows
    <3>2. other = RowOf(other[2])
      BY <3>1
    <3> QED
      BY <3>1, <3>2
  <2> QED
    BY <2>1, <2>2, FS_Subset
<1> HIDE DEF ahead, others
<1>9. Cardinality(ahead) <= Cardinality(others)
  <2> DEFINE f == [t \in ahead |-> RowOf(t)]
  <2>1. f \in Injection(ahead, others)
    BY <1>7 DEF Injection, IsInjective
  <2> QED
    BY <1>8, <2>1, FS_Injection
<1>10. Cardinality(ahead) \in Nat /\ Cardinality(others) \in Nat /\ Cutoff \in Nat
  BY <1>6, <1>8, FS_CardinalityType DEF RulesAssumption, LimitsAssumption
<1> QED
  BY <1>4, <1>9, <1>10 DEF ahead

\* The months of a cohort are evaluated when it is counted.
LEMMA CohortHolds ==
    ASSUME NEW m \in Months, NEW d \in DatesOf(Cohort(m)), NEW s \in Symbols, NEW w \in Horizons,
           Latest(d) > 0, runs[d][Latest(d)][s] # Absent
    PROVE  /\ outcomes[d][Latest(d)][<<s, w>>] # NoOutcome
           /\ outcomes[d][Latest(d)][<<s, w>>].identity = "valid"
<1>1. d \in Dates /\ Mature(MonthOf[d])
  BY DEF DatesOf, Cohort
<1>2. s \in CandidatesOf(d)
  <2>1. Len(<<>>) = 0
    OBVIOUS
  <2>2. runs[d] # <<>>
    BY <2>1 DEF Latest
  <2> QED
    BY <2>2 DEF CandidatesOf
<1> DEFINE x == <<d, s>>
<1>3. x \in Selected(MonthOf[d]) /\ x[1] = d /\ x[2] = s
  BY <1>1, <1>2 DEF Selected, DatesOf
<1> HIDE DEF x
<1>4. RowStatus(d, s, w) # "missing"
  BY <1>1, <1>3 DEF Mature
<1> QED
  BY <1>4 DEF RowStatus, Stored

\* NoHorizonGivenUp, of a report.
LEMMA HorizonsHold ==
    ASSUME RulesAssumption, RulesIInv, NEW variant \in Variants, WriteReport(variant),
           report'.eligible, NEW w \in Horizons
    PROVE  LET rows == Eligible(DatesOf(review.cohort)) IN
           \E m \in review.cohort :
            /\ \A n \in review.cohort : n <= m
            /\ \A v \in {"baseline", report'.variant} : \E row \in Top(v, rows) :
                  row[3] = w /\ MonthOf[row[1]] = m
            /\ \A v \in {"baseline", report'.variant} : \E row \in Top(v, rows) :
                  row[3] = w /\ MonthOf[row[1]] < m
            /\ GainsAtLeast(InWindow(InMonths(Top("baseline", rows), {m}), w),
                            InWindow(InMonths(Top(report'.variant, rows), {m}), w),
                            "excess", -ExcessSlack)
<1> DEFINE rows == Eligible(DatesOf(review.cohort))
           cohort == review.cohort
           m == Max(cohort)
<1>1. PICK pool, lower, gates :
        /\ gates = Gates(review, pool, Top("baseline", Replayed(cohort, pool)),
                                       Top(variant, Replayed(cohort, pool)), lower)
        /\ report'.variant = variant
        /\ report'.eligible <=> (\A i \in 1..Len(gates) : gates[i])
  BY RuleReportFacts
<1>2. /\ Cardinality(cohort) = CohortSize /\ pool # "capacity_exceeded"
      /\ EnoughSamples(Top("baseline", Replayed(cohort, pool)), Top(variant, Replayed(cohort, pool)), cohort)
      /\ HorizonsKept(Top("baseline", Replayed(cohort, pool)), Top(variant, Replayed(cohort, pool)), cohort)
  BY <1>1, RuleGatesOpen
<1>3. Replayed(cohort, pool) = rows
  BY <1>2 DEF Replayed
<1>4. PICK n \in Nat : cohort \subseteq Months /\ cohort \subseteq 0 .. n
  BY DEF WriteReport, RulesIInv, RulesTypeOK, CohortIsBounded
<1>5. m \in cohort /\ \A k \in cohort : k <= m
  <2>1. cohort # {}
    <3>1. Cardinality({}) = 0 /\ CohortSize # 0
      BY FS_EmptySet DEF RulesAssumption, LimitsAssumption
    <3> QED
      BY <1>2, <3>1
  <2> HIDE DEF cohort
  <2> QED
    BY <1>4, <2>1, LastMonth
<1>6. Holdout(cohort) = {m} /\ Training(cohort) = cohort \ {m}
  BY <1>2 DEF Holdout, Training
<1> DEFINE Of(v, months) == InWindow(InMonths(Top(v, rows), months), w)
<1>7. \A v \in {"baseline", variant}, months \in {cohort \ {m}, {m}} : Of(v, months) # {}
  <2>1. \A v \in {"baseline", variant}, months \in {cohort \ {m}, {m}} :
            Cardinality(Of(v, months)) >= MinSamples
    <3> HIDE DEF m, cohort, rows
    <3> QED
      BY <1>2, <1>3, <1>6 DEF EnoughSamples
  <2>2. Cardinality({}) = 0 /\ ~(0 >= MinSamples)
    BY FS_EmptySet DEF RulesAssumption, LimitsAssumption
  <2> HIDE DEF Of
  <2> QED
    BY <2>1, <2>2
<1>8. \A v, months : \A row \in Of(v, months) :
          row \in Top(v, rows) /\ row[3] = w /\ MonthOf[row[1]] \in months
  BY DEF InWindow, InMonths
<1>9. \A k \in cohort \ {m} : k < m
  <2>1. \A k \in cohort : k \in Nat
    BY <1>4
  <2> QED
    BY <1>5, <2>1
<1>10. GainsAtLeast(Of("baseline", {m}), Of(variant, {m}), "excess", -ExcessSlack)
  <2> HIDE DEF m, cohort, rows
  <2> QED
    BY <1>2, <1>3, <1>6 DEF HorizonsKept
<1>11. \A v \in {"baseline", variant} :
          /\ \E row \in Top(v, rows) : row[3] = w /\ MonthOf[row[1]] = m
          /\ \E row \in Top(v, rows) : row[3] = w /\ MonthOf[row[1]] < m
  <2> HIDE DEF Of, m, cohort, rows
  <2> QED
    BY <1>7, <1>8, <1>9
<1> HIDE DEF m, rows
<1> QED
  BY <1>1, <1>5, <1>10, <1>11 DEF rows

-----------------------------------------------------------------------------
(* RuleGovernance: theorem *)

\* RulesReportIsSound (daily_radar/rule_governance.py and calibration/governance.py):
\* whatever reruns and validation calls commit between the queries of a review, a
\* month counts only when it is evaluated in every window, a rule group is judged
\* only on a full pool, a candidate counts by its rank alone, the reason says
\* "eligible" exactly of what is, and a configuration is proposed only when every
\* window has selected outcomes in both months and no window of the holdout pays.
THEOREM RulesReportSound == ASSUME RulesAssumption PROVE RulesSpec => RulesReportIsSound
<1> DEFINE Judged ==
             (\E w \in Horizons : report'.ablation[w] \in {"review_group_removal", "keep_group"})
                => \A d \in DatesOf(review.cohort), s \in Symbols :
                     s \in CandidatesOf(d) =>
                       /\ runs[d][Latest(d)][s].complete /\ runs[d][Latest(d)][s].reproduces
                       /\ \A w \in Horizons : Stored(d, s, w) # NoOutcome
           Counted ==
             report'.pool = "complete" =>
               \A variant \in {"baseline", report'.variant} : \A row \in report'.counted[variant] :
                 Cardinality({t \in CandidatesOf(row[1]) : Before(variant, t, row[2])}) < Cutoff
           Kept ==
             report'.eligible =>
               LET rows == Eligible(DatesOf(review.cohort)) IN
               \A w \in Horizons : \E m \in review.cohort :
                 /\ \A n \in review.cohort : n <= m
                 /\ \A v \in {"baseline", report'.variant} : \E row \in Top(v, rows) :
                       row[3] = w /\ MonthOf[row[1]] = m
                 /\ \A v \in {"baseline", report'.variant} : \E row \in Top(v, rows) :
                       row[3] = w /\ MonthOf[row[1]] < m
                 /\ GainsAtLeast(InWindow(InMonths(Top("baseline", rows), {m}), w),
                                 InWindow(InMonths(Top(report'.variant, rows), {m}), w),
                                 "excess", -ExcessSlack)
           Verified ==
             \A d \in DatesOf(review'.cohort), s \in Symbols, w \in Horizons :
               Latest(d) > 0 /\ runs[d][Latest(d)][s] # Absent =>
                   outcomes[d][Latest(d)][<<s, w>>] # NoOutcome
                   /\ outcomes[d][Latest(d)][<<s, w>>].identity = "valid"
           Called == review.phase = "idle" /\ review'.phase = "preflight"
<1>1. ASSUME RulesIInv, RulesNext, Written PROVE Judged /\ Counted /\ Kept
  <2>1. PICK variant \in Variants : WriteReport(variant)
    BY <1>1, ReportIsWritten
  <2>2. Judged
    BY <2>1, JudgedHolds
  <2>3. Counted
    BY <2>1, CountedHolds
  <2>4. Kept
    BY <1>1, <2>1, HorizonsHold
  <2> QED
    BY <2>2, <2>3, <2>4
<1>2. ASSUME RulesNext, Called PROVE Verified
  <2>1. PICK m \in Months : ReadWatermarks(m)
    BY <1>2 DEF RulesNext, SaveRun, StoreResults, Preflight, WriteReport
  <2>2. review'.cohort = Cohort(m)
    BY <2>1 DEF ReadWatermarks
  <2> QED
    BY <2>2, CohortHolds
<1> HIDE DEF Judged, Counted, Kept, Verified, Called
<1>3. RulesIInv /\ [RulesNext]_rulesVars =>
        /\ [Written => Judged]_rulesVars /\ [Written => Counted]_rulesVars
        /\ [Written => Kept]_rulesVars /\ [Called => Verified]_rulesVars
  BY <1>1, <1>2
<1>4. RulesSpec => []RulesIInv
  BY RulesSafe
<1>5. RulesSpec => /\ [][Written => Judged]_rulesVars /\ [][Written => Counted]_rulesVars
                   /\ [][Written => Kept]_rulesVars /\ [][Called => Verified]_rulesVars
  BY <1>3, <1>4, PTL DEF RulesSpec
<1>6. RulesIInv => RulesTypeOK /\ ReasonTellsEligible
  BY DEF RulesIInv
<1>7. RulesSpec => []RulesTypeOK /\ []ReasonTellsEligible
  BY <1>4, <1>6, PTL
<1>8. [Written => Judged]_rulesVars <=>
        [Written /\ (\E w \in Horizons : report'.ablation[w] \in {"review_group_removal", "keep_group"})
          => \A d \in DatesOf(review.cohort), s \in Symbols :
               s \in CandidatesOf(d) =>
                 /\ runs[d][Latest(d)][s].complete /\ runs[d][Latest(d)][s].reproduces
                 /\ \A w \in Horizons : Stored(d, s, w) # NoOutcome]_rulesVars
  BY DEF Judged
<1>9. [Written => Counted]_rulesVars <=>
        [Written /\ report'.pool = "complete" =>
          \A variant \in {"baseline", report'.variant} : \A row \in report'.counted[variant] :
            Cardinality({t \in CandidatesOf(row[1]) : Before(variant, t, row[2])}) < Cutoff]_rulesVars
  BY DEF Counted
<1>10. [Written => Kept]_rulesVars <=>
        [Written /\ report'.eligible =>
          LET rows == Eligible(DatesOf(review.cohort)) IN
          \A w \in Horizons : \E m \in review.cohort :
            /\ \A n \in review.cohort : n <= m
            /\ \A v \in {"baseline", report'.variant} : \E row \in Top(v, rows) :
                  row[3] = w /\ MonthOf[row[1]] = m
            /\ \A v \in {"baseline", report'.variant} : \E row \in Top(v, rows) :
                  row[3] = w /\ MonthOf[row[1]] < m
            /\ GainsAtLeast(InWindow(InMonths(Top("baseline", rows), {m}), w),
                            InWindow(InMonths(Top(report'.variant, rows), {m}), w),
                            "excess", -ExcessSlack)]_rulesVars
  BY DEF Kept
<1>11. [Called => Verified]_rulesVars <=>
        [review.phase = "idle" /\ review'.phase = "preflight" =>
          \A d \in DatesOf(review'.cohort), s \in Symbols, w \in Horizons :
            Latest(d) > 0 /\ runs[d][Latest(d)][s] # Absent =>
                outcomes[d][Latest(d)][<<s, w>>] # NoOutcome
                /\ outcomes[d][Latest(d)][<<s, w>>].identity = "valid"]_rulesVars
  BY DEF Called, Verified
<1>12. RulesSpec => JudgedOnFullPool
  BY <1>5, <1>8, PTL DEF JudgedOnFullPool
<1>13. RulesSpec => CountedByRankAlone
  BY <1>5, <1>9, PTL DEF CountedByRankAlone
<1>14. RulesSpec => NoHorizonGivenUp
  BY <1>5, <1>10, PTL DEF NoHorizonGivenUp
<1>15. RulesSpec => CohortFullyEvaluated
  BY <1>5, <1>11, PTL DEF CohortFullyEvaluated
<1> QED
  BY <1>7, <1>12, <1>13, <1>14, <1>15 DEF RulesReportIsSound, EvidenceIsWhole, ProposalsAreSafe
=============================================================================
