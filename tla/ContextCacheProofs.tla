------------------------- MODULE ContextCacheProofs -------------------------
(***************************************************************************)
(* Proofs about ContextCache, for any number of symbols, workers, dates    *)
(* and calls: "completed" is no empty promise, alone a required call       *)
(* fetches nothing a second time, and readers' contexts only improve.      *)
(***************************************************************************)
EXTENDS ContextCache, TLAPS, NaturalsInduction, WellFoundedInduction

-----------------------------------------------------------------------------
(* The inductive invariant *)

OneWorker == \A v, w \in Workers : v = w
\* An overlapping upsert of a margin context fetched before its source completed
\* may replace a complete one: what is promised of margin needs one worker.
Steady == Recent /\ (Margin => OneWorker)
Solid(row) == row.fresh = "fresh" /\ row.pay \in {"full", "inapplicable"}

\* A row of a symbol under a key says what the source says of that day.
Truthful(s, key, row) ==
    /\ key.tag = "dated" =>
         /\ source[s][key.day] \in {"partial", "full"}
         /\ row.pay \in {"empty", "partial", "full"}
         /\ row.pay = "full" => source[s][key.day] = "full"
         /\ Recent /\ ~Margin => Solid(row)
    /\ key.tag = "inapplicable" =>
         source[s][key.day] = "inapplicable" /\ row.fresh = "fresh" /\ row.pay = "inapplicable"
    /\ key.tag = "missing" => row.fresh = "missing" /\ row.pay = "empty"
TableIsSound == \A s \in Symbols, k \in Keys :
    \/ rows[s][k] = NoRow
    \/ rows[s][k].stamp \in 1 .. calls /\ Truthful(s, k, rows[s][k])

\* The answers of a call: of symbols it asked for, for keys of its day or before.
AnswersAreSound(c) ==
    /\ \A s \in Symbols : c.answer[s] # NoItem =>
         /\ c.phase = "storing" /\ s \in c.need
         /\ c.answer[s].key \in Keys /\ Truthful(s, c.answer[s].key, c.answer[s].row)
         /\ c.answer[s].key.day <= c.day
         /\ c.answer[s].key.tag # "dated" => c.answer[s].key.day = c.day
         /\ Recent /\ c.answer[s].key.tag = "dated" => c.answer[s].row.fresh = "fresh"
    /\ \A s \in c.todo \cup c.at : c.answer[s] # NoItem
\* What its session holds and has selected is or was in the table, and stays there.
SelectionIsSound(c) ==
    /\ \A s \in Symbols : c.held[s] # NoItem =>
         /\ c.held[s].key \in Stored(s) /\ c.held[s].row.stamp > 0
         /\ Truthful(s, c.held[s].key, c.held[s].row)
    /\ \A s, t \in c.at : s = t
    /\ \A s \in c.at : c.base.stamp > 0 =>
         c.answer[s].key \in Stored(s) /\ Truthful(s, c.answer[s].key, c.base)
\* What it is going to commit.
WritesAreSound(c) ==
    \A s \in Symbols : c.pend[s] # NoItem =>
        /\ c.phase = "storing" /\ c.answer[s] # NoItem /\ c.pend[s].key = c.answer[s].key
        /\ c.pend[s].row.stamp = c.start /\ Truthful(s, c.pend[s].key, c.pend[s].row)
\* With one worker nothing a call has read is out of date, it is later than all
\* it has read, and it replaces no fresh row by a poorer one.
ReadsAreCurrent(c) ==
    /\ \A s \in Symbols, k \in Keys : rows[s][k].stamp < c.start
    /\ \A s \in Symbols : c.held[s] # NoItem => c.held[s].row = rows[s][c.held[s].key]
    /\ \A s \in c.at : c.base = rows[s][c.answer[s].key]
    /\ \A s \in Symbols :
         c.answer[s] # NoItem /\ rows[s][c.answer[s].key].pay = "full" => c.answer[s].row.pay = "full"
    /\ \A s \in Symbols :
         c.pend[s] # NoItem /\ Recent /\ Solid(rows[s][c.pend[s].key]) => Solid(c.pend[s].row)
\* What a required call is going to report is in the table or about to be.
PromiseHolds(c) ==
    /\ \A s \in c.syms \ c.need : HasFresh(s, c.day)
    /\ \A s \in c.need \ (c.todo \cup c.at) :
         c.phase = "storing" /\ ~Incomplete(c, s) =>
            \/ HasFresh(s, c.day)
            \/ c.pend[s].key = c.answer[s].key /\ Solid(c.pend[s].row)
CallIsSound(c, n) ==
    IF c.kind = "idle" THEN c = Idle
    ELSE /\ c.kind \in Kinds /\ c.start \in 1 .. n
         /\ AnswersAreSound(c) /\ SelectionIsSound(c) /\ WritesAreSound(c)
         /\ OneWorker => ReadsAreCurrent(c)
         /\ Alone => \A s \in c.need : ~HasFresh(s, c.day)
         /\ Steady /\ c.kind = "required" => PromiseHolds(c)
CallsAreSound == \A w \in Workers : CallIsSound(call[w], calls)

\* Required calls made alone hide no fresh row of a day from its readers.
Tops(s, day) == {k \in Eligible(s, day) : \A l \in Eligible(s, day) : Sorted(s, k, l)}
FreshIsOnTop ==
    Alone => \A s \in Symbols, d \in Days : HasFresh(s, d) =>
        \A k \in Tops(s, d) : Reusable(k, rows[s][k], d)

CompletedIsBacked ==
    Steady => \A d \in Days : step[d].status = "completed" =>
        \A s \in step[d].syms : HasFresh(s, d)

IInv == /\ setting \in Settings /\ TypeOK /\ TableIsSound /\ CallsAreSound
        /\ FreshIsOnTop /\ CompletedIsBacked

-----------------------------------------------------------------------------
(* The readers *)

\* A bounded nonempty set of natural numbers has a greatest element.
LEMMA GreatestNat ==
    ASSUME NEW n \in Nat, NEW T \in SUBSET (0 .. n), T # {}
    PROVE  \E x \in T : \A y \in T : y <= x
<1> DEFINE U == {n - x : x \in T}
<1>1. U \in SUBSET Nat /\ U # {}
  <2>1. \A x \in T : n - x \in Nat
    OBVIOUS
  <2> QED
    BY <2>1
<1> HIDE DEF U
<1>2. PICK u \in U : \A y \in U : ~(<<y, u>> \in OpToRel(<, Nat))
  BY <1>1, WFMin, NatLessThanWellFounded
<1>3. PICK x \in T : u = n - x
  BY DEF U
<1>4. ASSUME NEW y \in T PROVE y <= x
  <2>1. n - y \in U /\ n - y \in Nat /\ u \in Nat
    BY <1>1 DEF U
  <2>2. ~(n - y < u)
    BY <1>2, <2>1, Zenon DEF OpToRel
  <2> QED
    BY <1>3, <2>1, <2>2
<1> QED
  BY <1>4

\* The bounds of a setting.
LEMMA SettingFacts ==
    ASSUME setting \in Settings
    PROVE  /\ LastDay \in Nat /\ StaleAfter \in Nat /\ MaxCalls \in Nat /\ Margin \in BOOLEAN
           /\ Kinds \subseteq {"required", "plain"}
           /\ \A d \in Days : d \in Nat /\ d <= LastDay
BY SettingsAssumption DEF LastDay, StaleAfter, MaxCalls, Margin, Kinds, Days

\* Who finds a row reads a latest one.
LEMMA WinnerIsTop ==
    ASSUME setting \in Settings, TypeOK, NEW s \in Symbols, NEW day \in Days, Eligible(s, day) # {}
    PROVE  Winner(s, day) \in Tops(s, day) /\ Winner(s, day) # NoKey
<1> DEFINE E == Eligible(s, day)
           Dates == {k.day : k \in E}
<1>1. \A k \in E : k \in Keys /\ k.day \in 0 .. LastDay /\ rows[s][k].stamp \in 0 .. MaxCalls
  <2>1. \A k \in E : k \in Keys
    BY DEF Eligible, Stored
  <2>2. \A k \in Keys : k.day \in 0 .. LastDay
    BY DEF Keys, Days
  <2>3. \A k \in Keys : rows[s][k] \in Rows
    BY DEF TypeOK
  <2>4. \A row \in Rows : row.stamp \in 0 .. MaxCalls
    BY DEF Rows
  <2> HIDE DEF E
  <2> QED
    BY <2>1, <2>2, <2>3, <2>4
<1>2. LastDay \in Nat /\ MaxCalls \in Nat
  BY SettingFacts
<1>3. PICK k1 \in E : \A l \in E : l.day <= k1.day
  <2>1. Dates \in SUBSET (0 .. LastDay) /\ Dates # {}
    BY <1>1
  <2>2. \E x \in Dates : \A y \in Dates : y <= x
    <3> HIDE DEF Dates
    <3> QED
      BY <1>2, <2>1, GreatestNat
  <2> QED
    BY <2>2
<1> DEFINE Last == {k \in E : k.day = k1.day}
           Stamps == {rows[s][k].stamp : k \in Last}
<1>4. PICK k2 \in Last : \A l \in Last : rows[s][l].stamp <= rows[s][k2].stamp
  <2>1. Stamps \in SUBSET (0 .. MaxCalls) /\ Stamps # {}
    BY <1>1
  <2>2. \E x \in Stamps : \A y \in Stamps : y <= x
    <3> HIDE DEF Stamps
    <3> QED
      BY <1>2, <2>1, GreatestNat
  <2> QED
    BY <2>2
<1>5. ASSUME NEW l \in E PROVE Sorted(s, k2, l)
  <2>1. l.day <= k1.day /\ k2.day = k1.day /\ l.day \in Nat /\ k1.day \in Nat
    BY <1>1, <1>3
  <2>2. CASE l.day = k1.day
    <3>1. rows[s][l].stamp <= rows[s][k2].stamp
      BY <1>4, <2>2
    <3> QED
      BY <1>1, <2>1, <2>2, <3>1 DEF Sorted
  <2>3. CASE l.day # k1.day
    BY <2>1, <2>3 DEF Sorted
  <2> QED
    BY <2>2, <2>3
<1>6. Winner(s, day) = CHOOSE k \in E : \A l \in E : Sorted(s, k, l)
  BY DEF Winner
<1>7. Winner(s, day) \in E /\ \A l \in E : Sorted(s, Winner(s, day), l)
  <2> HIDE DEF E
  <2> QED
    BY <1>5, <1>6
<1> QED
  BY <1>1, <1>7 DEF Tops, Keys, NoKey

\* What a reader of the day counts on is a stored row.
LEMMA ReaderFindsFresh ==
    ASSUME setting \in Settings, TypeOK, NEW s \in Symbols, NEW day \in Days, ReaderHas(s, day)
    PROVE  HasFresh(s, day)
<1>1. Eligible(s, day) # {}
  BY DEF ReaderHas, Winner
<1>2. Winner(s, day) \in Stored(s)
  BY <1>1, WinnerIsTop DEF Tops, Eligible
<1> QED
  BY <1>2 DEF ReaderHas, HasFresh

\* Alone, a fresh row of the day is what its readers get.
LEMMA FreshIsRead ==
    ASSUME IInv, Alone, NEW s \in Symbols, NEW day \in Days, HasFresh(s, day)
    PROVE  ReaderHas(s, day)
<1>1. PICK k \in Stored(s) : Reusable(k, rows[s][k], day)
  BY DEF HasFresh
<1>2. k \in Eligible(s, day)
  BY <1>1, SettingFacts DEF Reusable, Eligible, IInv
<1>3. Winner(s, day) \in Tops(s, day) /\ Winner(s, day) # NoKey
  BY <1>2, WinnerIsTop DEF IInv
<1> QED
  BY <1>3 DEF IInv, FreshIsOnTop, ReaderHas

\* A solid row under a key of the day is one a reader may count on.
LEMMA SolidIsFresh ==
    ASSUME NEW s \in Symbols, NEW k \in Stored(s), k.tag # "missing", Solid(rows[s][k])
    PROVE  HasFresh(s, k.day)
BY DEF HasFresh, Stored, Keys, Reusable, Solid

\* Single-worker use is what "alone" assumes.
LEMMA AloneIsSteady == Alone => OneWorker /\ (Recent => Steady)
BY DEF Alone, OneWorker, Steady

\* The invariant implies what its readers are promised.
LEMMA IInvIsEnough == IInv => TypeOK /\ CompletedReadsFresh
<1> SUFFICES ASSUME IInv, Alone, Recent, NEW d \in Days, step[d].status = "completed",
                    NEW s \in step[d].syms
             PROVE  ReaderHas(s, d)
  BY DEF IInv, CompletedReadsFresh
<1>1. HasFresh(s, d) /\ s \in Symbols
  BY AloneIsSteady DEF IInv, CompletedIsBacked, TypeOK
<1> QED
  BY <1>1, FreshIsRead

-----------------------------------------------------------------------------
(* Answers and writes *)

LEMMA InitIInv == Init => IInv
<1> SUFFICES ASSUME Init PROVE IInv
  OBVIOUS
<1>1. /\ LastDay \in Nat /\ MaxCalls \in Nat /\ 0 \in Days /\ 0 \in 0 .. MaxCalls
  BY SettingFacts DEF Init, Days
<1>2. NoRow \in Rows /\ NoRow.stamp = 0
  BY <1>1 DEF NoRow, Rows
<1>3. rows = [s \in Symbols |-> [k \in Keys |-> NoRow]]
  BY DEF Init
<1>4. rows \in [Symbols -> [Keys -> Rows]]
  BY <1>2, <1>3
<1>5. NoItem \in Items /\ NoItems \in [Symbols -> Items]
  BY <1>2 DEF NoItem, Items, NoItems
<1>6. Idle \in Calls
  BY <1>1, <1>2, <1>5 DEF Idle, Calls
<1>7. source \in [Symbols -> [Days -> Sourced]]
  BY DEF Init, Sourced
<1>8. TypeOK
  BY <1>1, <1>4, <1>6, <1>7 DEF Init, TypeOK, NoStep
<1>9. \A s \in Symbols : Stored(s) = {}
  BY <1>2, <1>3 DEF Stored
<1>10. CallsAreSound
  BY DEF Init, CallsAreSound, CallIsSound, Idle
<1>11. TableIsSound
  BY <1>3 DEF TableIsSound
<1>12. FreshIsOnTop /\ CompletedIsBacked
  BY <1>9 DEF Init, FreshIsOnTop, CompletedIsBacked, HasFresh, NoStep
<1> QED
  BY <1>8, <1>10, <1>11, <1>12 DEF Init, IInv

\* Keys and rows by their parts.
LEMMA KeyFacts ==
    /\ \A d \in Days : Dated(d) \in Keys /\ Inapplicable(d) \in Keys /\ MissingOn(d) \in Keys
    /\ \A k \in Keys : /\ k.day \in Days /\ k.tag \in {"dated", "inapplicable", "missing"}
                       /\ k = [tag |-> k.tag, day |-> k.day] /\ k # NoKey
BY DEF Keys, Dated, Inapplicable, MissingOn, NoKey

\* An unwritten key has no row; a stored row is one of a call begun.
LEMMA TableFacts ==
    ASSUME IInv, NEW s \in Symbols, NEW k \in Keys
    PROVE  /\ rows[s][k] \in Rows /\ rows[s][k].stamp \in 0 .. calls /\ calls \in 0 .. MaxCalls
           /\ MaxCalls \in Nat /\ calls \in Nat /\ rows[s][k].stamp \in Nat
           /\ k \in Stored(s) <=> rows[s][k].stamp > 0
           /\ k \notin Stored(s) => rows[s][k] = NoRow
           /\ k \in Stored(s) => Truthful(s, k, rows[s][k])
<1>1. rows[s][k] \in Rows /\ calls \in 0 .. MaxCalls /\ MaxCalls \in Nat
  BY SettingFacts DEF IInv, TypeOK
<1>2. rows[s][k] = NoRow \/ (rows[s][k].stamp \in 1 .. calls /\ Truthful(s, k, rows[s][k]))
  BY DEF IInv, TableIsSound
<1> QED
  BY <1>1, <1>2 DEF Stored, NoRow

\* What the provider answers is what the source says now, and no poorer than
\* what an earlier answer left in the table.
LEMMA AnswerFacts ==
    ASSUME IInv, NEW s \in Symbols, NEW day \in Days, NEW item \in Answers(s, day), item # NoItem
    PROVE  /\ item \in Items /\ item.key \in Keys /\ item.key.day <= day
           /\ item.key.tag # "dated" => item.key.day = day
           /\ Truthful(s, item.key, item.row)
           /\ Recent /\ item.key.tag = "dated" => item.row.fresh = "fresh"
           /\ rows[s][item.key].pay = "full" => item.row.pay = "full"
<1>1. /\ day \in Nat /\ day <= LastDay /\ LastDay \in Nat /\ StaleAfter \in Nat /\ MaxCalls \in Nat
      /\ Margin \in BOOLEAN /\ \A d \in Days : d \in Nat /\ d <= LastDay
      /\ \A d \in Days : source[s][d] \in Sourced
  BY SettingFacts DEF IInv, TypeOK
<1>2. ASSUME item.key \in Keys, Truthful(s, item.key, item.row), rows[s][item.key].pay = "full"
      PROVE  item.key.tag = "dated" /\ source[s][item.key.day] = "full"
  <2>1. rows[s][item.key] # NoRow
    BY <1>2 DEF NoRow
  <2>2. Truthful(s, item.key, rows[s][item.key])
    BY <1>2, <2>1, TableFacts
  <2> QED
    BY <1>2, <2>2, KeyFacts DEF Truthful
<1>3. CASE item = [key |-> MissingOn(day), row |-> Row("missing", "empty")]
  <2>1. item.row \in Rows /\ item.key \in Keys
    BY <1>1, <1>3, KeyFacts DEF Row, Rows
  <2>2. Truthful(s, item.key, item.row)
    BY <1>3 DEF MissingOn, Row, Truthful
  <2> QED
    BY <1>1, <1>2, <1>3, <2>1, <2>2 DEF MissingOn, Items
<1>4. CASE /\ source[s][day] = "inapplicable"
           /\ item = [key |-> Inapplicable(day), row |-> Row("fresh", "inapplicable")]
  <2>1. item.row \in Rows /\ item.key \in Keys
    BY <1>1, <1>4, KeyFacts DEF Row, Rows
  <2>2. Truthful(s, item.key, item.row)
    BY <1>4 DEF Inapplicable, Row, Truthful
  <2> QED
    BY <1>1, <1>2, <1>4, <2>1, <2>2 DEF Inapplicable, Items
<1>5. ASSUME NEW a \in Published(s, day),
             item = [key |-> Dated(a), row |-> Row(Freshness(a, day), source[s][a])]
      PROVE  /\ item \in Items /\ item.key \in Keys /\ item.key.day <= day
             /\ item.key.tag # "dated" => item.key.day = day
             /\ Truthful(s, item.key, item.row)
             /\ Recent /\ item.key.tag = "dated" => item.row.fresh = "fresh"
             /\ rows[s][item.key].pay = "full" => item.row.pay = "full"
  <2>1. a \in Days /\ a \in Nat /\ a <= day /\ source[s][a] \in {"partial", "full"}
    BY <1>1 DEF Published, Days
  <2>2. Recent => Freshness(a, day) = "fresh"
    <3>1. day - a <= LastDay
      BY <1>1, <2>1
    <3> QED
      BY <1>1, <2>1, <3>1 DEF Recent, Freshness
  <2>3. ~Margin => source[s][a] = "full"
    BY <1>1, <2>1 DEF Sourced
  <2>4. item.key \in Keys /\ item.key.tag = "dated" /\ item.key.day = a
    BY <1>5, <2>1, KeyFacts DEF Dated
  <2>5. item.row \in Rows /\ item.row.fresh = Freshness(a, day) /\ item.row.pay = source[s][a]
    BY <1>1, <1>5, <2>1 DEF Row, Rows, Freshness
  <2>6. Truthful(s, item.key, item.row)
    BY <2>1, <2>2, <2>3, <2>4, <2>5 DEF Truthful, Solid
  <2>7. item \in Items
    BY <1>5, <2>4, <2>5 DEF Items
  <2> QED
    BY <1>2, <2>1, <2>2, <2>4, <2>5, <2>6, <2>7
<1> QED
  BY <1>3, <1>4, <1>5 DEF Answers

\* What a call is going to upsert of an answer is as true, and as good as what
\* the required call counts on.
LEMMA PersistedFacts ==
    ASSUME IInv, NEW c \in Calls, AnswersAreSound(c), NEW s \in Symbols, c.answer[s] # NoItem
    PROVE  /\ Persisted(c, s) \in Rows /\ Truthful(s, c.answer[s].key, Persisted(c, s))
           /\ ~Incomplete(c, s) => Persisted(c, s) = c.answer[s].row
           /\ Recent /\ c.answer[s].key.tag = "dated" /\ c.answer[s].row.pay = "full" =>
                Solid(Persisted(c, s))
<1> DEFINE key == c.answer[s].key
           row == c.answer[s].row
<1>1. /\ row \in Rows /\ key \in Keys /\ Truthful(s, key, row) /\ c.day \in Days
      /\ Recent /\ key.tag = "dated" => row.fresh = "fresh"
  BY DEF AnswersAreSound, Calls, Items
<1>2. MaxCalls \in Nat /\ Margin \in BOOLEAN
  BY SettingFacts DEF IInv
<1>3. CASE /\ c.kind = "required" /\ Incomplete(c, s) /\ key = Dated(c.day) /\ row.fresh = "fresh"
  <2>1. Persisted(c, s) = Row("missing", "empty")
    BY <1>3 DEF Persisted
  <2>2. row.pay # "full"
    BY <1>3 DEF Incomplete, Reusable, Dated
  <2>3. ~(Recent /\ ~Margin)
    BY <1>1, <1>3, <2>2 DEF Truthful, Solid, Dated
  <2>4. Row("missing", "empty") \in Rows
    BY <1>2 DEF Row, Rows
  <2>5. Truthful(s, key, Row("missing", "empty"))
    BY <1>1, <1>3, <2>3 DEF Truthful, Dated, Row
  <2> QED
    BY <1>3, <2>1, <2>2, <2>4, <2>5
<1>4. CASE ~(c.kind = "required" /\ Incomplete(c, s) /\ key = Dated(c.day) /\ row.fresh = "fresh")
  <2>1. Persisted(c, s) = row
    BY <1>4 DEF Persisted
  <2> QED
    BY <1>1, <2>1 DEF Solid
<1> QED
  BY <1>3, <1>4

\* An update leaves a row that is as true as the three it is made of.
LEMMA MergedFacts ==
    ASSUME IInv, NEW s \in Symbols, NEW key \in Keys, NEW new \in Rows, NEW base \in Rows,
           NEW now \in Rows, Truthful(s, key, new), Truthful(s, key, base), Truthful(s, key, now)
    PROVE  /\ Merged(new, base, now) \in Rows /\ Truthful(s, key, Merged(new, base, now))
           /\ base = now /\ Solid(new) => Solid(Merged(new, base, now))
<1>1. MaxCalls \in Nat
  BY SettingFacts DEF IInv
<1>2. Merged(new, base, now) \in Rows
  BY <1>1 DEF Merged, Rows
<1>3. /\ Merged(new, base, now).fresh \in {new.fresh, now.fresh}
      /\ Merged(new, base, now).pay \in {new.pay, now.pay}
  BY DEF Merged
<1>4. Truthful(s, key, Merged(new, base, now))
  BY <1>3 DEF Truthful, Solid
<1>5. base = now /\ Solid(new) => Solid(Merged(new, base, now))
  BY DEF Merged, Solid
<1> QED
  BY <1>2, <1>4, <1>5

\* A reader may count on what a required call counts on.
LEMMA CompleteFacts ==
    ASSUME NEW c \in Calls, NEW s \in Symbols, ~Incomplete(c, s)
    PROVE  /\ c.answer[s].key.tag \in {"dated", "inapplicable"} /\ c.answer[s].key.day = c.day
           /\ Solid(c.answer[s].row)
BY DEF Incomplete, Reusable, Solid

\* In steady use, all rows under a dated key are solid or one worker writes them.
LEMMA SteadyKeeps ==
    ASSUME IInv, NEW w \in Workers, call[w].kind # "idle", Steady,
           NEW s \in Symbols, call[w].pend[s] # NoItem, Solid(rows[s][call[w].pend[s].key])
    PROVE  Solid(call[w].pend[s].row)
<1> DEFINE c == call[w]
           key == c.pend[s].key
<1>1. /\ WritesAreSound(c) /\ AnswersAreSound(c) /\ (OneWorker => ReadsAreCurrent(c))
  BY DEF IInv, CallsAreSound, CallIsSound
<1>2. key \in Keys /\ Truthful(s, key, c.pend[s].row)
  BY <1>1 DEF WritesAreSound, AnswersAreSound
<1>3. CASE OneWorker
  BY <1>1, <1>3 DEF ReadsAreCurrent, Steady
<1>4. CASE ~OneWorker
  <2>1. Recent /\ ~Margin
    BY <1>4 DEF Steady
  <2>2. key.tag # "missing"
    <3> SUFFICES ASSUME key.tag = "missing" PROVE FALSE
      OBVIOUS
    <3>1. rows[s][key] = NoRow \/ Truthful(s, key, rows[s][key])
      BY <1>2, TableFacts
    <3> QED
      BY <3>1 DEF NoRow, Truthful, Solid
  <2> QED
    BY <1>2, <2>1, <2>2, KeyFacts DEF Truthful, Solid
<1> QED
  BY <1>3, <1>4

-----------------------------------------------------------------------------
(* It is inductive *)

\* The setting and what depends on nothing else never change.
LEMMA SameSetting ==
    ASSUME setting' = setting
    PROVE  /\ Symbols' = Symbols /\ Days' = Days /\ Keys' = Keys /\ Rows' = Rows /\ Items' = Items
           /\ Workers' = Workers /\ Calls' = Calls /\ Kinds' = Kinds /\ Sourced' = Sourced
           /\ MaxCalls' = MaxCalls /\ Margin' = Margin /\ Recent' = Recent
           /\ OneWorker' = OneWorker /\ Steady' = Steady /\ Alone' = Alone
           /\ NoItems' = NoItems /\ Idle' = Idle
BY DEF Symbols, Days, Keys, Rows, Items, Workers, Calls, Kinds, Sourced, MaxCalls, Margin, Recent,
       OneWorker, Steady, Alone, NoItems, Idle, LastDay, StaleAfter

\* A step of one call that leaves the table alone.
LEMMA CallStep ==
    ASSUME IInv, UNCHANGED <<setting, rows, source, step>>, calls' \in 0 .. MaxCalls,
           calls <= calls', NEW w \in Workers, NEW new \in Calls,
           call' = [call EXCEPT ![w] = new], CallIsSound(new, calls')
    PROVE  IInv'
<1>1. /\ setting' = setting /\ rows' = rows /\ source' = source /\ step' = step
      /\ MaxCalls \in Nat /\ calls \in Nat /\ calls' \in Nat
  BY SettingFacts DEF IInv, TypeOK
<1>2. /\ call' \in [Workers -> Calls]
      /\ \A v \in Workers : call'[v] = IF v = w THEN new ELSE call[v]
  BY DEF IInv, TypeOK
<1>3. \A v \in Workers : CallIsSound(call'[v], calls')
  <2> SUFFICES ASSUME NEW v \in Workers, v # w PROVE CallIsSound(call[v], calls')
    BY <1>2
  <2>1. CallIsSound(call[v], calls)
    BY DEF IInv, CallsAreSound
  <2>2. call[v].start \in 1 .. calls => call[v].start \in 1 .. calls'
    BY <1>1
  <2> QED
    BY <2>1, <2>2 DEF CallIsSound
<1>4. CallsAreSound'
  <2> SUFFICES ASSUME NEW v \in Workers PROVE CallIsSound(call[v], calls)'
    BY <1>1, SameSetting DEF CallsAreSound
  <2>1. CallIsSound(call'[v], calls')
    BY <1>3
  <2>2. \A s, k, row : Truthful(s, k, row)' <=> Truthful(s, k, row)
    BY <1>1, SameSetting DEF Truthful
  <2>3. \A s : Stored(s)' = Stored(s)
    BY <1>1, SameSetting DEF Stored
  <2>4. \A s, d : HasFresh(s, d)' <=> HasFresh(s, d)
    BY <1>1, <2>3 DEF HasFresh
  <2>5. AnswersAreSound(call'[v]) => AnswersAreSound(call[v])'
    BY <2>2, SameSetting DEF AnswersAreSound
  <2>6. SelectionIsSound(call'[v]) => SelectionIsSound(call[v])'
    BY <2>2, <2>3, SameSetting DEF SelectionIsSound
  <2>7. WritesAreSound(call'[v]) => WritesAreSound(call[v])'
    BY <2>2, SameSetting DEF WritesAreSound
  <2>8. ReadsAreCurrent(call'[v]) => ReadsAreCurrent(call[v])'
    BY <1>1, SameSetting DEF ReadsAreCurrent
  <2>9. PromiseHolds(call'[v]) => PromiseHolds(call[v])'
    BY <2>4 DEF PromiseHolds
  <2> QED
    BY SameSetting, <1>1, <2>1, <2>4, <2>5, <2>6, <2>7, <2>8, <2>9 DEF CallIsSound
<1>5. TypeOK'
  BY <1>1, <1>2, SameSetting DEF IInv, TypeOK
<1>6. TableIsSound'
  <2> SUFFICES ASSUME NEW s \in Symbols, NEW k \in Keys
               PROVE  rows[s][k] = NoRow \/ (rows[s][k].stamp \in 1 .. calls' /\ Truthful(s, k, rows[s][k]))
    BY <1>1 DEF TableIsSound, Truthful, Symbols, Keys, Days, LastDay, Recent, StaleAfter, Margin
  <2>1. rows[s][k] = NoRow \/ (rows[s][k].stamp \in 1 .. calls /\ Truthful(s, k, rows[s][k]))
    BY DEF IInv, TableIsSound
  <2> QED
    BY <1>1, <2>1
<1>7. FreshIsOnTop' /\ CompletedIsBacked'
  BY <1>1
  DEF IInv, FreshIsOnTop, CompletedIsBacked, HasFresh, Tops, Eligible, Sorted, Stored, Keys, Days,
      LastDay, Symbols, Kinds, Workers, Recent, StaleAfter, Margin, Steady, Alone, OneWorker
<1> QED
  BY <1>1, <1>4, <1>5, <1>6, <1>7 DEF IInv

\* A call that ends without a commit.
LEMMA IdleFacts ==
    ASSUME setting \in Settings
    PROVE  Idle \in Calls /\ NoItem \in Items /\ NoRow \in Rows /\ \A n : CallIsSound(Idle, n)
<1>1. LastDay \in Nat /\ MaxCalls \in Nat /\ 0 \in Days /\ 0 \in 0 .. MaxCalls
  BY SettingFacts DEF Days
<1>2. NoItem \in Items /\ NoItems \in [Symbols -> Items] /\ NoRow \in Rows
  BY <1>1 DEF NoItem, Items, NoItems, NoRow, Rows
<1> QED
  BY <1>1, <1>2 DEF Idle, Calls, CallIsSound

LEMMA AbortStep ==
    ASSUME IInv, NEW w \in Workers, Abort(w)
    PROVE  IInv'
<1>1. calls' \in 0 .. MaxCalls /\ calls <= calls'
  BY SettingFacts DEF Abort, IInv, TypeOK
<1> QED
  BY <1>1, IdleFacts, CallStep DEF Abort, IInv

\* A call begins with what its readers see; alone, what it asks for is not there.
LEMMA BeginStep ==
    ASSUME IInv, NEW w \in Workers, Begin(w)
    PROVE  IInv'
<1> DEFINE Held(kind, day, s) ==
               IF kind = "required" /\ Winner(s, day) # NoKey
               THEN [key |-> Winner(s, day), row |-> rows[s][Winner(s, day)]] ELSE NoItem
           Needed(kind, day, syms) == IF kind = "required" THEN {s \in syms : ~ReaderHas(s, day)} ELSE syms
           Kept(kind, day, syms) == [s \in Symbols |-> IF s \in syms THEN Held(kind, day, s) ELSE NoItem]
<1>1. PICK kind \in Kinds, day \in Days, syms \in (SUBSET Symbols) \ {{}} :
         LET reads == kind = "required"
             Holds(s) == IF reads /\ Winner(s, day) # NoKey
                         THEN [key |-> Winner(s, day), row |-> rows[s][Winner(s, day)]]
                         ELSE NoItem
         IN call' = [call EXCEPT ![w] =
              [Idle EXCEPT !.kind  = kind, !.day = day, !.syms = syms,
                           !.start = calls + 1,
                           !.need  = IF reads THEN {s \in syms : ~ReaderHas(s, day)}
                                     ELSE syms,
                           !.held  = [s \in Symbols |-> IF s \in syms THEN Holds(s)
                                                        ELSE NoItem]]]
  BY DEF Begin
<1> DEFINE held == Kept(kind, day, syms)
           need == Needed(kind, day, syms)
           c == [Idle EXCEPT !.kind = kind, !.day = day, !.syms = syms, !.start = calls + 1,
                             !.need = need, !.held = held]
<1>2. /\ calls' = calls + 1 /\ calls < MaxCalls /\ calls \in Nat /\ MaxCalls \in Nat
      /\ calls' \in 0 .. MaxCalls /\ calls <= calls' /\ calls + 1 \in 1 .. calls'
      /\ Kinds \subseteq {"required", "plain"} /\ setting \in Settings /\ TypeOK
  BY SettingFacts DEF Begin, IInv, TypeOK
<1>3. /\ c.kind = kind /\ c.phase = "asked" /\ c.day = day /\ c.syms = syms /\ c.start = calls + 1
      /\ c.need = need /\ c.held = held /\ c.answer = NoItems /\ c.todo = {} /\ c.at = {}
      /\ c.base = NoRow /\ c.pend = NoItems /\ c.failed = FALSE
  BY DEF Idle
<1>4. ASSUME NEW s \in Symbols
      PROVE  /\ held[s] \in Items
             /\ held[s] # NoItem => /\ held[s].key \in Stored(s) /\ held[s].row = rows[s][held[s].key]
                                    /\ held[s].key \in Keys
  <2>1. CASE held[s] = NoItem
    BY <1>2, <2>1, IdleFacts
  <2>2. CASE held[s] # NoItem
    <3>1. held[s] = [key |-> Winner(s, day), row |-> rows[s][Winner(s, day)]] /\ Winner(s, day) # NoKey
      BY <2>2
    <3>2. Eligible(s, day) # {}
      BY <3>1 DEF Winner
    <3>3. Winner(s, day) \in Stored(s) /\ Winner(s, day) \in Keys
      BY <1>2, <3>2, WinnerIsTop DEF Tops, Eligible, Stored
    <3>4. rows[s][Winner(s, day)] \in Rows
      BY <1>2, <3>3 DEF TypeOK
    <3> HIDE DEF held
    <3> QED
      BY <3>1, <3>3, <3>4 DEF Items
  <2> QED
    BY <2>1, <2>2
<1>5. held \in [Symbols -> Items]
  BY <1>4
<1>6. need \subseteq syms /\ need \in SUBSET Symbols
  OBVIOUS
<1>7. c \in Calls
  <2>1. Idle \in Calls
    BY <1>2, IdleFacts
  <2>2. kind \in {"idle", "required", "plain"} /\ calls + 1 \in 0 .. MaxCalls
    BY <1>2
  <2> HIDE DEF held, need
  <2> QED
    BY <1>5, <1>6, <2>1, <2>2 DEF Calls
<1>8. CallIsSound(c, calls')
  <2> HIDE DEF c, need
  <2>1. AnswersAreSound(c) /\ WritesAreSound(c)
    BY <1>3 DEF AnswersAreSound, WritesAreSound, NoItems
  <2>2. SelectionIsSound(c)
    <3> SUFFICES ASSUME NEW s \in Symbols, c.held[s] # NoItem
                 PROVE  /\ c.held[s].key \in Stored(s) /\ c.held[s].row.stamp > 0
                        /\ Truthful(s, c.held[s].key, c.held[s].row)
      BY <1>3 DEF SelectionIsSound
    <3> HIDE DEF held
    <3> QED
      BY <1>3, <1>4, TableFacts
  <2>3. ReadsAreCurrent(c)
    <3>1. \A s \in Symbols, k \in Keys : rows[s][k].stamp < c.start
      BY <1>2, <1>3, TableFacts
    <3> HIDE DEF held
    <3> QED
      BY <1>3, <1>4, <3>1 DEF ReadsAreCurrent, NoItems
  <2>4. Alone => \A s \in c.need : ~HasFresh(s, c.day)
    <3> SUFFICES ASSUME Alone, NEW s \in c.need PROVE ~HasFresh(s, c.day)
      OBVIOUS
    <3>1. kind = "required"
      BY DEF Alone
    <3>2. s \in Symbols /\ ~ReaderHas(s, day)
      BY <1>3, <1>6, <3>1 DEF need
    <3> QED
      BY <1>3, <3>2, FreshIsRead
  <2>5. kind = "required" => PromiseHolds(c)
    <3> SUFFICES ASSUME kind = "required", NEW s \in syms, ~(s \in need) PROVE HasFresh(s, day)
      BY <1>3 DEF PromiseHolds
    <3>1. ReaderHas(s, day) /\ s \in Symbols
      BY DEF need
    <3> QED
      BY <1>2, <3>1, ReaderFindsFresh
  <2> QED
    BY <1>2, <1>3, <2>1, <2>2, <2>3, <2>4, <2>5 DEF CallIsSound
<1> HIDE DEF c
<1>9. call' = [call EXCEPT ![w] = c] /\ UNCHANGED <<setting, rows, source, step>>
  BY <1>1 DEF Begin, c
<1> QED
  BY <1>2, <1>7, <1>8, <1>9, CallStep

\* What is known of a call under way.
LEMMA CallFacts ==
    ASSUME IInv, NEW w \in Workers, call[w].kind # "idle"
    PROVE  /\ call[w] \in Calls /\ CallIsSound(call[w], calls) /\ setting \in Settings /\ TypeOK
           /\ call[w].kind \in Kinds /\ call[w].start \in 1 .. calls /\ call[w].start \in Nat
           /\ AnswersAreSound(call[w]) /\ SelectionIsSound(call[w]) /\ WritesAreSound(call[w])
           /\ OneWorker => ReadsAreCurrent(call[w])
           /\ Alone => \A s \in call[w].need : ~HasFresh(s, call[w].day)
           /\ Steady /\ call[w].kind = "required" => PromiseHolds(call[w])
           /\ calls \in 0 .. MaxCalls /\ calls <= calls /\ calls \in Nat
<1>1. /\ call[w] \in Calls /\ CallIsSound(call[w], calls) /\ setting \in Settings /\ TypeOK
      /\ calls \in 0 .. MaxCalls /\ MaxCalls \in Nat
  BY SettingFacts DEF IInv, TypeOK, CallsAreSound
<1> QED
  BY <1>1 DEF CallIsSound

\* Nothing is written before the provider has answered.
LEMMA AskedFacts ==
    ASSUME IInv, NEW w \in Workers, call[w].kind # "idle", call[w].phase = "asked"
    PROVE  /\ call[w].todo = {} /\ call[w].at = {}
           /\ \A s \in Symbols : call[w].pend[s] = NoItem /\ call[w].answer[s] = NoItem
<1> DEFINE c == call[w]
<1>1. c \in Calls /\ AnswersAreSound(c) /\ WritesAreSound(c)
  BY CallFacts
<1>2. \A s \in Symbols : c.pend[s] = NoItem /\ c.answer[s] = NoItem
  BY <1>1 DEF AnswersAreSound, WritesAreSound
<1>3. c.todo \cup c.at \subseteq Symbols
  BY <1>1 DEF Calls
<1> QED
  BY <1>1, <1>2, <1>3 DEF AnswersAreSound

\* Without an answer nothing is complete.
LEMMA NoAnswer ==
    ASSUME NEW c, NEW s, c.answer[s] = NoItem
    PROVE  Incomplete(c, s)
BY DEF Incomplete, Reusable, NoItem, NoKey

LEMMA FetchStep ==
    ASSUME IInv, NEW w \in Workers, Fetch(w)
    PROVE  IInv'
<1> DEFINE c == call[w]
<1>1. /\ c.kind # "idle" /\ c.phase = "asked" /\ UNCHANGED <<setting, rows, source, step, calls>>
      /\ calls' \in 0 .. MaxCalls /\ calls <= calls'
  BY CallFacts DEF Fetch
<1>2. /\ c.todo = {} /\ c.at = {} /\ c.need \subseteq Symbols /\ c.day \in Days
      /\ \A s \in Symbols : c.pend[s] = NoItem /\ c.answer[s] = NoItem
  BY <1>1, AskedFacts, CallFacts DEF Calls
<1>3. ASSUME NEW chosen \in [c.need -> UNION {Answers(s, c.day) : s \in c.need}],
             \A s \in c.need : chosen[s] \in Answers(s, c.day),
             LET answer == [s \in Symbols |-> IF s \in c.need THEN chosen[s] ELSE NoItem] IN
             call' = [call EXCEPT ![w].phase  = "storing", ![w].answer = answer,
                                  ![w].todo = {s \in c.need : answer[s] # NoItem}]
      PROVE  IInv'
  <2> DEFINE answer == [s \in Symbols |-> IF s \in c.need THEN chosen[s] ELSE NoItem]
  <2>0. /\ answer = [s \in Symbols |-> IF s \in c.need THEN chosen[s] ELSE NoItem]
        /\ call' = [call EXCEPT ![w].phase  = "storing", ![w].answer = answer,
                                ![w].todo = {s \in c.need : answer[s] # NoItem}]
    BY <1>3
  <2> HIDE DEF answer
  <2> DEFINE todo == {s \in c.need : answer[s] # NoItem}
             new == [c EXCEPT !.phase = "storing", !.answer = answer, !.todo = todo]
  <2>1. call' = [call EXCEPT ![w] = new]
    BY <2>0, CallFacts, <1>1 DEF TypeOK
  <2>2. ASSUME NEW s \in Symbols, answer[s] # NoItem
        PROVE  /\ s \in c.need /\ answer[s] \in Items /\ answer[s].key \in Keys
               /\ answer[s].key.day <= c.day
               /\ answer[s].key.tag # "dated" => answer[s].key.day = c.day
               /\ Truthful(s, answer[s].key, answer[s].row)
               /\ Recent /\ answer[s].key.tag = "dated" => answer[s].row.fresh = "fresh"
               /\ rows[s][answer[s].key].pay = "full" => answer[s].row.pay = "full"
    <3>1. s \in c.need /\ answer[s] \in Answers(s, c.day)
      BY <1>3, <2>0, <2>2
    <3> QED
      BY <1>2, <2>2, <3>1, AnswerFacts
  <2>3. answer \in [Symbols -> Items]
    BY <2>0, <2>2, IdleFacts, CallFacts, <1>1
  <2>4. new \in Calls
    <3>1. c \in Calls /\ todo \in SUBSET Symbols
      BY <1>1, <1>2, CallFacts
    <3> HIDE DEF todo
    <3> QED
      BY <2>3, <3>1 DEF Calls
  <2>5. /\ new.kind = c.kind /\ new.phase = "storing" /\ new.answer = answer /\ new.todo = todo
        /\ new.at = c.at /\ new.pend = c.pend /\ new.held = c.held /\ new.base = c.base
        /\ new.start = c.start /\ new.day = c.day /\ new.syms = c.syms /\ new.need = c.need
    BY <1>1, CallFacts DEF Calls
  <2> HIDE DEF new
  <2>6. AnswersAreSound(new)
    BY <1>2, <2>2, <2>5 DEF AnswersAreSound
  <2>7. SelectionIsSound(new) /\ WritesAreSound(new)
    BY <1>1, <1>2, <2>5, CallFacts DEF SelectionIsSound, WritesAreSound
  <2>8. OneWorker => ReadsAreCurrent(new)
    BY <1>1, <1>2, <2>2, <2>5, CallFacts DEF ReadsAreCurrent
  <2>9. Steady /\ new.kind = "required" => PromiseHolds(new)
    <3> SUFFICES ASSUME Steady, new.kind = "required" PROVE PromiseHolds(new)
      OBVIOUS
    <3>1. \A s \in new.syms \ new.need : HasFresh(s, new.day)
      BY <1>1, <2>5, CallFacts DEF PromiseHolds
    <3>2. ASSUME NEW s \in new.need \ (new.todo \cup new.at) PROVE Incomplete(new, s)
      BY <2>5, NoAnswer
    <3> QED
      BY <3>1, <3>2 DEF PromiseHolds
  <2> QED
    BY <1>1, <2>1, <2>4, <2>5, <2>6, <2>7, <2>8, <2>9, CallFacts, CallStep DEF CallIsSound
<1>4. ASSUME call' = [call EXCEPT ![w].phase = "storing", ![w].failed = TRUE]
      PROVE  IInv'
  <2> DEFINE new == [c EXCEPT !.phase = "storing", !.failed = TRUE]
  <2>1. call' = [call EXCEPT ![w] = new]
    BY <1>1, <1>4, CallFacts DEF TypeOK
  <2>2. new \in Calls
    <3>1. c \in Calls
      BY <1>1, CallFacts
    <3> HIDE DEF c
    <3> QED
      BY <3>1 DEF Calls
  <2>3. /\ new.kind = c.kind /\ new.phase = "storing" /\ new.answer = c.answer /\ new.todo = c.todo
        /\ new.at = c.at /\ new.pend = c.pend /\ new.held = c.held /\ new.base = c.base
        /\ new.start = c.start /\ new.day = c.day /\ new.syms = c.syms /\ new.need = c.need
    BY <1>1, CallFacts DEF Calls
  <2> HIDE DEF new
  <2>4. AnswersAreSound(new) /\ SelectionIsSound(new) /\ WritesAreSound(new)
    BY <1>1, <1>2, <2>3, CallFacts DEF AnswersAreSound, SelectionIsSound, WritesAreSound
  <2>5. OneWorker => ReadsAreCurrent(new)
    BY <1>1, <1>2, <2>3, CallFacts DEF ReadsAreCurrent
  <2>6. Steady /\ new.kind = "required" => PromiseHolds(new)
    <3>1. ASSUME NEW s \in new.need PROVE Incomplete(new, s)
      BY <1>2, <2>3, NoAnswer
    <3> QED
      BY <1>1, <2>3, <3>1, CallFacts DEF PromiseHolds
  <2> QED
    BY <1>1, <2>1, <2>2, <2>3, <2>4, <2>5, <2>6, CallFacts, CallStep DEF CallIsSound
<1>5. \/ \E chosen \in [c.need -> UNION {Answers(s, c.day) : s \in c.need}] :
           /\ \A s \in c.need : chosen[s] \in Answers(s, c.day)
           /\ LET answer == [s \in Symbols |-> IF s \in c.need THEN chosen[s] ELSE NoItem] IN
              call' = [call EXCEPT ![w].phase  = "storing", ![w].answer = answer,
                                   ![w].todo = {s \in c.need : answer[s] # NoItem}]
      \/ call' = [call EXCEPT ![w].phase = "storing", ![w].failed = TRUE]
  BY DEF Fetch
<1> HIDE DEF c
<1> QED
  BY <1>3, <1>4, <1>5

\* The row it selects is one the table keeps; with one worker, as it is now.
LEMMA SelectRowStep ==
    ASSUME IInv, NEW w \in Workers, SelectRow(w)
    PROVE  IInv'
<1> DEFINE c == call[w]
<1>1. /\ c.phase = "storing" /\ c.at = {} /\ UNCHANGED <<setting, rows, source, step, calls>>
  BY DEF SelectRow
<1>2. c.kind # "idle"
  BY <1>1 DEF SelectRow, IInv, CallsAreSound, CallIsSound, Idle
<1>3. PICK s \in c.todo :
        call' = [call EXCEPT ![w].at = {s}, ![w].todo = @ \ {s},
                             ![w].base = IF c.held[s].key = c.answer[s].key THEN c.held[s].row
                                         ELSE rows[s][c.answer[s].key]]
  BY DEF SelectRow
<1> DEFINE key == c.answer[s].key
           base == IF c.held[s].key = key THEN c.held[s].row ELSE rows[s][key]
           new == [c EXCEPT !.at = {s}, !.todo = c.todo \ {s}, !.base = base]
<1>4. call' = [call EXCEPT ![w] = new]
  BY <1>2, <1>3, CallFacts DEF TypeOK
<1>5. /\ c \in Calls /\ s \in Symbols /\ c.answer[s] # NoItem /\ key \in Keys
      /\ c.held[s] \in Items /\ rows[s][key] \in Rows
  BY <1>2, CallFacts DEF Calls, AnswersAreSound, TypeOK
<1>6. /\ base \in Rows
      /\ base.stamp > 0 => key \in Stored(s) /\ Truthful(s, key, base)
      /\ OneWorker => base = rows[s][key]
  <2>1. CASE c.held[s].key = key
    <3>1. c.held[s] # NoItem
      <4>1. NoItem.key = NoKey
        BY DEF NoItem
      <4> HIDE DEF c
      <4> QED
        BY <1>5, <2>1, <4>1, KeyFacts
    <3>2. /\ c.held[s].key \in Stored(s) /\ Truthful(s, c.held[s].key, c.held[s].row)
          /\ OneWorker => c.held[s].row = rows[s][c.held[s].key]
      BY <1>2, <1>5, <3>1, CallFacts DEF SelectionIsSound, ReadsAreCurrent
    <3>3. c.held[s].row \in Rows
      BY <1>5 DEF Items
    <3> QED
      BY <2>1, <3>2, <3>3
  <2>2. CASE c.held[s].key # key
    BY <1>5, <2>2, TableFacts
  <2> QED
    BY <2>1, <2>2
<1> HIDE DEF base
<1>7. new \in Calls
  BY <1>5, <1>6 DEF Calls
<1>8. /\ new.kind = c.kind /\ new.phase = c.phase /\ new.answer = c.answer /\ new.todo = c.todo \ {s}
      /\ new.at = {s} /\ new.pend = c.pend /\ new.held = c.held /\ new.base = base
      /\ new.start = c.start /\ new.day = c.day /\ new.syms = c.syms /\ new.need = c.need
  BY <1>5 DEF Calls
<1> HIDE DEF new
<1>9. AnswersAreSound(new) /\ WritesAreSound(new)
  BY <1>1, <1>2, <1>5, <1>8, CallFacts DEF AnswersAreSound, WritesAreSound
<1>10. SelectionIsSound(new)
  BY <1>2, <1>6, <1>8, CallFacts DEF SelectionIsSound
<1>11. OneWorker => ReadsAreCurrent(new)
  <2> SUFFICES ASSUME OneWorker
               PROVE  ReadsAreCurrent(new)
    OBVIOUS
  <2>1. ReadsAreCurrent(c)
    BY <1>2, CallFacts
  <2>2. \A t \in new.at : new.base = rows[t][new.answer[t].key]
    BY <1>6, <1>8
  <2> HIDE DEF c
  <2> QED
    BY <1>8, <2>1, <2>2 DEF ReadsAreCurrent
<1>12. Steady /\ new.kind = "required" => PromiseHolds(new)
  <2>1. new.todo \cup new.at = c.todo \cup c.at
    BY <1>1, <1>8
  <2>2. \A t : Incomplete(new, t) <=> Incomplete(c, t)
    BY <1>8 DEF Incomplete
  <2>3. Steady /\ c.kind = "required" => PromiseHolds(c)
    BY <1>2, CallFacts
  <2> HIDE DEF c
  <2> QED
    BY <1>8, <2>1, <2>2, <2>3 DEF PromiseHolds
<1> QED
  BY <1>1, <1>2, <1>4, <1>7, <1>8, <1>9, <1>10, <1>11, <1>12, CallFacts, CallStep DEF CallIsSound

\* Two workers in steady use write only solid rows of dated keys.
LEMMA SteadyRows ==
    ASSUME IInv, Steady, ~OneWorker, NEW s \in Symbols, NEW key \in Keys, NEW row,
           Truthful(s, key, row), key.tag # "missing"
    PROVE  Solid(row)
BY KeyFacts DEF Truthful, Solid, Steady

\* It writes a row as true as the answer, no poorer than what a single worker
\* replaces, and solid where a required call counts on it.
LEMMA WriteStep ==
    ASSUME IInv, NEW w \in Workers, call[w].kind # "idle", NEW s \in call[w].at, NEW row \in Rows,
           Truthful(s, call[w].answer[s].key, row),
           OneWorker /\ Recent /\ Solid(rows[s][call[w].answer[s].key]) => Solid(row),
           Steady /\ ~Incomplete(call[w], s) => Solid(row),
           UNCHANGED <<setting, rows, source, step, calls>>,
           call' = [call EXCEPT ![w].at = {}, ![w].pend[s] =
                      [key |-> call[w].answer[s].key, row |-> [row EXCEPT !.stamp = call[w].start]]]
    PROVE  IInv'
<1> DEFINE c == call[w]
           key == c.answer[s].key
           item == [key |-> key, row |-> [row EXCEPT !.stamp = c.start]]
           new == [c EXCEPT !.at = {}, !.pend = [c.pend EXCEPT ![s] = item]]
<1>1. /\ c \in Calls /\ s \in Symbols /\ c.answer[s] # NoItem /\ key \in Keys /\ c.phase = "storing"
      /\ \A t \in c.at : t = s
  BY CallFacts DEF Calls, AnswersAreSound, SelectionIsSound
<1>2. call' = [call EXCEPT ![w] = new]
  BY CallFacts DEF TypeOK
<1>3. item \in Items /\ item.key = key /\ item.row.stamp = c.start /\ item # NoItem
      /\ item.row.fresh = row.fresh /\ item.row.pay = row.pay
  <2>1. c.start \in 0 .. MaxCalls
    BY <1>1 DEF Calls
  <2>2. [row EXCEPT !.stamp = c.start] \in Rows
    BY <2>1 DEF Rows
  <2>3. item.key # NoKey
    BY <1>1, KeyFacts
  <2> HIDE DEF c
  <2> QED
    BY <1>1, <2>2, <2>3 DEF Items, NoItem, Rows
<1>4. Truthful(s, key, item.row) /\ (Solid(row) => Solid(item.row))
  BY <1>3 DEF Truthful, Solid
<1> HIDE DEF item
<1>5. new \in Calls
  <2> HIDE DEF c
  <2> QED
    BY <1>1, <1>3 DEF Calls
<1>6. /\ new.kind = c.kind /\ new.phase = c.phase /\ new.answer = c.answer /\ new.todo = c.todo
      /\ new.at = {} /\ new.pend = [c.pend EXCEPT ![s] = item] /\ new.held = c.held
      /\ new.base = c.base /\ new.start = c.start /\ new.day = c.day /\ new.syms = c.syms
      /\ new.need = c.need
  BY <1>1 DEF Calls
<1>7. \A t \in Symbols : new.pend[t] = IF t = s THEN item ELSE c.pend[t]
  <2>1. c.pend \in [Symbols -> Items]
    BY <1>1 DEF Calls
  <2> QED
    BY <1>6, <2>1
<1> HIDE DEF new
<1>8. AnswersAreSound(new) /\ SelectionIsSound(new)
  <2>1. AnswersAreSound(c) /\ SelectionIsSound(c)
    BY CallFacts
  <2> HIDE DEF c
  <2>2. AnswersAreSound(new)
    BY <1>6, <2>1 DEF AnswersAreSound
  <2>3. SelectionIsSound(new)
    BY <1>6, <2>1 DEF SelectionIsSound
  <2> QED
    BY <2>2, <2>3
<1>9. WritesAreSound(new)
  <2>1. WritesAreSound(c)
    BY CallFacts
  <2> HIDE DEF c
  <2> QED
    BY <1>1, <1>3, <1>4, <1>6, <1>7, <2>1 DEF WritesAreSound
<1>10. OneWorker => ReadsAreCurrent(new)
  <2> SUFFICES ASSUME OneWorker PROVE ReadsAreCurrent(new)
    OBVIOUS
  <2>1. ReadsAreCurrent(c)
    BY CallFacts
  <2>2. Recent /\ Solid(rows[s][key]) => Solid(item.row)
    BY <1>4
  <2> HIDE DEF c
  <2>3. ASSUME NEW t \in Symbols, new.pend[t] # NoItem, Recent, Solid(rows[t][new.pend[t].key])
        PROVE  Solid(new.pend[t].row)
    <3>1. CASE t = s
      BY <1>3, <1>7, <2>2, <2>3, <3>1
    <3>2. CASE t # s
      BY <1>7, <2>1, <2>3, <3>2 DEF ReadsAreCurrent
    <3> QED
      BY <3>1, <3>2
  <2> QED
    BY <1>6, <2>1, <2>3 DEF ReadsAreCurrent
<1>11. Steady /\ new.kind = "required" => PromiseHolds(new)
  <2>1. \A t : Incomplete(new, t) <=> Incomplete(c, t)
    BY <1>6 DEF Incomplete
  <2>2. Steady /\ c.kind = "required" => PromiseHolds(c)
    BY CallFacts
  <2>3. Steady /\ ~Incomplete(c, s) => Solid(item.row)
    BY <1>4
  <2>4. c.need \subseteq Symbols
    BY <1>1 DEF Calls
  <2> HIDE DEF c
  <2> QED
    BY <1>1, <1>3, <1>6, <1>7, <2>1, <2>2, <2>3, <2>4 DEF PromiseHolds
<1> QED
  BY <1>2, <1>5, <1>6, <1>8, <1>9, <1>10, <1>11, CallFacts, CallStep DEF CallIsSound

LEMMA UpsertRowStep ==
    ASSUME IInv, NEW w \in Workers, UpsertRow(w)
    PROVE  IInv'
<1> DEFINE c == call[w]
<1>1. PICK s \in c.at :
        LET key == c.answer[s].key
            new == Persisted(c, s)
            now == rows[s][key]
            Writes(row) ==
               /\ Unlocked(w, s, key)
               /\ call' = [call EXCEPT ![w].at = {}, ![w].pend[s] =
                             [key |-> key, row |-> [row EXCEPT !.stamp = c.start]]]
        IN \/ /\ c.base.stamp = 0 /\ now.stamp = 0
              /\ Writes(new)
           \/ /\ c.base.stamp = 0 /\ now.stamp # 0
              /\ Unlocked(w, s, key)
              /\ call' = [call EXCEPT ![w] = Idle]
           \/ /\ c.base.stamp # 0
              /\ Writes(Merged(new, c.base, now))
           \/ /\ c.base.stamp # 0
              /\ new = [c.base EXCEPT !.stamp = 0]
              /\ call' = [call EXCEPT ![w].at = {}]
  BY DEF UpsertRow
<1> DEFINE key == c.answer[s].key
           new == Persisted(c, s)
           now == rows[s][key]
<1>2. UNCHANGED <<setting, rows, source, step, calls>> /\ c.kind # "idle"
  <2>1. c.at # {} /\ UNCHANGED <<setting, rows, source, step, calls>>
    BY DEF UpsertRow
  <2>2. c.kind = "idle" => c = Idle
    BY DEF IInv, CallsAreSound, CallIsSound
  <2> QED
    BY <2>1, <2>2 DEF Idle
<1>3. /\ c \in Calls /\ s \in Symbols /\ c.answer[s] # NoItem /\ key \in Keys /\ c.base \in Rows
      /\ \A t \in c.at : t = s
  BY <1>2, CallFacts DEF Calls, AnswersAreSound, SelectionIsSound
<1>4. /\ new \in Rows /\ Truthful(s, key, new)
      /\ ~Incomplete(c, s) => Solid(new)
      /\ Recent /\ key.tag = "dated" /\ c.answer[s].row.pay = "full" => Solid(new)
  BY <1>2, <1>3, CallFacts, PersistedFacts, CompleteFacts
<1>5. now \in Rows /\ now.stamp \in Nat /\ (now.stamp = 0 => now = NoRow)
      /\ (key \in Stored(s) => Truthful(s, key, now))
  BY <1>3, TableFacts
<1>6. /\ c.base.stamp # 0 => key \in Stored(s) /\ Truthful(s, key, c.base)
      /\ OneWorker => c.base = now
      /\ OneWorker /\ now.pay = "full" => c.answer[s].row.pay = "full"
  <2>1. c.base.stamp \in Nat
    BY <1>3, SettingFacts DEF Rows, IInv
  <2> QED
    BY <1>2, <1>3, <2>1, CallFacts DEF SelectionIsSound, ReadsAreCurrent
<1>7. ASSUME OneWorker, Recent, key \in Stored(s), Solid(now) PROVE Solid(new)
  BY <1>3, <1>4, <1>5, <1>6, <1>7, KeyFacts DEF Truthful, Solid
<1>8. ~Incomplete(c, s) => key.tag # "missing" /\ key.day = c.day
  BY <1>3, CompleteFacts
<1> HIDE DEF new, now
<1>9. CASE /\ c.base.stamp = 0 /\ now.stamp = 0
           /\ call' = [call EXCEPT ![w].at = {}, ![w].pend[s] =
                         [key |-> key, row |-> [new EXCEPT !.stamp = c.start]]]
  <2>1. ~Solid(now)
    BY <1>5, <1>9 DEF NoRow, Solid
  <2> QED
    BY <1>2, <1>4, <1>9, <2>1, WriteStep DEF now
<1>10. CASE call' = [call EXCEPT ![w] = Idle]
  BY <1>2, <1>10, CallFacts, IdleFacts, CallStep
<1>11. CASE /\ c.base.stamp # 0
            /\ call' = [call EXCEPT ![w].at = {}, ![w].pend[s] =
                          [key |-> key, row |-> [Merged(new, c.base, now) EXCEPT !.stamp = c.start]]]
  <2> DEFINE row == Merged(new, c.base, now)
  <2>1. /\ row \in Rows /\ Truthful(s, key, row)
        /\ c.base = now /\ Solid(new) => Solid(row)
    BY <1>3, <1>4, <1>5, <1>6, <1>11, MergedFacts
  <2>2. OneWorker /\ Recent /\ Solid(now) => Solid(row)
    BY <1>6, <1>7, <1>11, <2>1
  <2>3. Steady /\ ~Incomplete(c, s) => Solid(row)
    BY <1>3, <1>4, <1>6, <1>8, <2>1, SteadyRows
  <2> HIDE DEF row
  <2>4. call' = [call EXCEPT ![w].at = {}, ![w].pend[s] =
                   [key |-> key, row |-> [row EXCEPT !.stamp = c.start]]]
    BY <1>11 DEF row
  <2> QED
    BY <1>2, <2>1, <2>2, <2>3, <2>4, WriteStep DEF now
<1>12. CASE /\ c.base.stamp # 0 /\ new = [c.base EXCEPT !.stamp = 0]
            /\ call' = [call EXCEPT ![w].at = {}]
  <2> DEFINE after == [c EXCEPT !.at = {}]
  <2>1. call' = [call EXCEPT ![w] = after]
    BY <1>2, <1>12, CallFacts DEF TypeOK
  <2>2. after \in Calls
    <3> HIDE DEF c
    <3> QED
      BY <1>3 DEF Calls
  <2>3. /\ after.kind = c.kind /\ after.phase = c.phase /\ after.answer = c.answer
        /\ after.todo = c.todo /\ after.at = {} /\ after.pend = c.pend /\ after.held = c.held
        /\ after.base = c.base /\ after.start = c.start /\ after.day = c.day
        /\ after.syms = c.syms /\ after.need = c.need
    BY <1>3 DEF Calls
  <2> HIDE DEF after
  <2>4. AnswersAreSound(after) /\ SelectionIsSound(after) /\ WritesAreSound(after)
    BY <1>2, <2>3, CallFacts DEF AnswersAreSound, SelectionIsSound, WritesAreSound
  <2>5. OneWorker => ReadsAreCurrent(after)
    <3>1. OneWorker => ReadsAreCurrent(c)
      BY <1>2, CallFacts
    <3> HIDE DEF c
    <3> QED
      BY <2>3, <3>1 DEF ReadsAreCurrent
  <2>6. Steady /\ ~Incomplete(c, s) => HasFresh(s, c.day)
    <3> SUFFICES ASSUME Steady, ~Incomplete(c, s) PROVE HasFresh(s, c.day)
      OBVIOUS
    <3>1. Solid(c.base)
      BY <1>3, <1>4, <1>12 DEF Solid, Rows
    <3>2. Solid(now)
      BY <1>3, <1>5, <1>6, <1>8, <1>12, <3>1, SteadyRows
    <3> QED
      BY <1>3, <1>6, <1>8, <1>12, <3>2, SolidIsFresh DEF now
  <2>7. Steady /\ after.kind = "required" => PromiseHolds(after)
    <3>1. \A t : Incomplete(after, t) <=> Incomplete(c, t)
      BY <2>3 DEF Incomplete
    <3>2. Steady /\ c.kind = "required" => PromiseHolds(c)
      BY <1>2, CallFacts
    <3> HIDE DEF c
    <3> QED
      BY <1>3, <2>3, <2>6, <3>1, <3>2 DEF PromiseHolds
  <2> QED
    BY <1>2, <2>1, <2>2, <2>3, <2>4, <2>5, <2>7, CallFacts, CallStep DEF CallIsSound
<1> QED
  BY <1>1, <1>9, <1>10, <1>11, <1>12 DEF new, now

\* What the table says is about days the source has published for good.
LEMMA PublishStep ==
    ASSUME IInv, NEW p \in Symbols, NEW d \in Days, Publish(p, d)
    PROVE  IInv'
<1>1. /\ UNCHANGED <<setting, rows, call, step, calls>> /\ source[p][d] \in {"none", "partial"}
      /\ setting \in Settings
  BY DEF Publish, IInv
<1>2. PICK new \in Sourced : /\ source[p][d] = "partial" => new = "full"
                             /\ source' = [source EXCEPT ![p][d] = new] /\ new # "none"
  <2>1. CASE source[p][d] = "none"
    BY <2>1 DEF Publish
  <2>2. CASE source[p][d] = "partial"
    <3>1. "full" \in Sourced
      BY DEF Sourced
    <3> QED
      BY <2>2, <3>1 DEF Publish
  <2> QED
    BY <1>1, <2>1, <2>2
<1>3. source \in [Symbols -> [Days -> Sourced]]
  BY DEF IInv, TypeOK
<1>4. /\ source' \in [Symbols -> [Days -> Sourced]]
      /\ \A s \in Symbols, e \in Days :
           source'[s][e] = IF s = p /\ e = d THEN new ELSE source[s][e]
  BY <1>2, <1>3
<1>5. ASSUME NEW s \in Symbols, NEW k \in Keys, NEW row, Truthful(s, k, row) PROVE Truthful(s, k, row)'
  <2>1. k.day \in Days /\ source'[s][k.day] = IF s = p /\ k.day = d THEN new ELSE source[s][k.day]
    BY <1>4, KeyFacts
  <2>2. /\ source[s][k.day] \in {"partial", "full"} => source'[s][k.day] \in {"partial", "full"}
        /\ source[s][k.day] = "full" => source'[s][k.day] = "full"
        /\ source[s][k.day] = "inapplicable" => source'[s][k.day] = "inapplicable"
    BY <1>1, <1>2, <2>1
  <2> QED
    BY <1>1, <1>5, <2>2, SameSetting DEF Truthful
<1>6. \A s : Stored(s)' = Stored(s) /\ Stored(s) \subseteq Keys
  BY <1>1, SameSetting DEF Stored
<1>7. \A s, e : HasFresh(s, e)' <=> HasFresh(s, e)
  BY <1>1, <1>6 DEF HasFresh
<1>8. CallsAreSound'
  <2> SUFFICES ASSUME NEW v \in Workers, call[v].kind # "idle" PROVE CallIsSound(call[v], calls)'
    BY <1>1, SameSetting DEF CallsAreSound, IInv, CallIsSound
  <2>1. /\ CallIsSound(call[v], calls) /\ AnswersAreSound(call[v]) /\ SelectionIsSound(call[v])
        /\ WritesAreSound(call[v]) /\ call[v] \in Calls
    BY CallFacts
  <2>2. AnswersAreSound(call[v])'
    BY <1>1, <1>5, <2>1, SameSetting DEF AnswersAreSound
  <2>3. SelectionIsSound(call[v])'
    <3>1. \A s \in call[v].at : s \in Symbols /\ call[v].answer[s].key \in Keys
      BY <2>1 DEF Calls, AnswersAreSound
    <3> QED
      BY <1>1, <1>5, <1>6, <2>1, <3>1, SameSetting DEF SelectionIsSound
  <2>4. WritesAreSound(call[v])'
    BY <1>1, <1>5, <2>1, SameSetting DEF WritesAreSound, AnswersAreSound
  <2>5. ReadsAreCurrent(call[v]) => ReadsAreCurrent(call[v])'
    BY <1>1, SameSetting DEF ReadsAreCurrent
  <2>6. PromiseHolds(call[v]) => PromiseHolds(call[v])'
    BY <1>1, <1>7 DEF PromiseHolds
  <2> QED
    BY <1>1, <1>7, <2>1, <2>2, <2>3, <2>4, <2>5, <2>6, SameSetting DEF CallIsSound
<1>9. TypeOK'
  BY <1>1, <1>4, SameSetting DEF IInv, TypeOK
<1>10. TableIsSound'
  BY <1>1, <1>5, SameSetting DEF IInv, TableIsSound
<1>11. FreshIsOnTop' /\ CompletedIsBacked'
  <2>1. \A s, e : Tops(s, e)' = Tops(s, e)
    BY <1>1, <1>6 DEF Tops, Eligible, Sorted
  <2> QED
    BY <1>1, <1>7, <2>1, SameSetting DEF IInv, FreshIsOnTop, CompletedIsBacked
<1> QED
  BY <1>1, <1>8, <1>9, <1>10, <1>11 DEF IInv

\* The table after a commit: a call writes one key of a symbol at most.
LEMMA CommitFacts ==
    ASSUME IInv, NEW w \in Workers, Commit(w)
    PROVE  /\ call[w].kind # "idle" /\ call[w].phase = "storing" /\ UNCHANGED <<setting, source, calls>>
           /\ call' = [call EXCEPT ![w] = Idle]
           /\ rows' \in [Symbols -> [Keys -> Rows]]
           /\ \A s \in Symbols : call[w].pend[s] # NoItem =>
                /\ call[w].pend[s].key \in Keys /\ call[w].pend[s].row \in Rows
                /\ call[w].pend[s].row.stamp = call[w].start /\ call[w].start \in 1 .. calls
                /\ Truthful(s, call[w].pend[s].key, call[w].pend[s].row)
           /\ \A s \in Symbols, k \in Keys :
                rows'[s][k] = IF call[w].pend[s] # NoItem /\ call[w].pend[s].key = k
                              THEN call[w].pend[s].row ELSE rows[s][k]
           /\ \A s \in Symbols : Stored(s) \subseteq Stored(s)'
<1> DEFINE c == call[w]
<1>1. /\ c.kind # "idle" /\ c.phase = "storing" /\ UNCHANGED <<setting, source, calls>>
      /\ call' = [call EXCEPT ![w] = Idle]
      /\ rows' = [s \in Symbols |-> IF c.pend[s] = NoItem THEN rows[s]
                                    ELSE [rows[s] EXCEPT ![c.pend[s].key] = c.pend[s].row]]
  BY DEF Commit
<1>2. ASSUME NEW s \in Symbols, c.pend[s] # NoItem
      PROVE  /\ c.pend[s].key \in Keys /\ c.pend[s].row \in Rows
             /\ c.pend[s].row.stamp = c.start /\ c.start \in 1 .. calls
             /\ Truthful(s, c.pend[s].key, c.pend[s].row)
  <2>1. c \in Calls /\ WritesAreSound(c) /\ AnswersAreSound(c) /\ c.start \in 1 .. calls
    BY <1>1, CallFacts
  <2> HIDE DEF c
  <2> QED
    BY <1>2, <2>1 DEF WritesAreSound, AnswersAreSound, Calls, Items
<1> HIDE DEF c
<1>3. rows \in [Symbols -> [Keys -> Rows]]
  BY DEF IInv, TypeOK
<1>4. \A s \in Symbols : /\ rows'[s] \in [Keys -> Rows]
                         /\ \A k \in Keys : rows'[s][k] = IF c.pend[s] # NoItem /\ c.pend[s].key = k
                                                          THEN c.pend[s].row ELSE rows[s][k]
  BY <1>1, <1>2, <1>3
<1>5. rows' \in [Symbols -> [Keys -> Rows]]
  BY <1>1, <1>4
<1>6. ASSUME NEW s \in Symbols PROVE Stored(s) \subseteq Stored(s)'
  <2> SUFFICES ASSUME NEW k \in Stored(s) PROVE k \in Stored(s)'
    OBVIOUS
  <2>1. k \in Keys /\ rows[s][k].stamp > 0 /\ calls \in Nat
    BY TableFacts DEF Stored
  <2>2. rows'[s][k].stamp > 0
    BY <1>2, <1>4, <2>1
  <2> QED
    BY <1>1, <2>1, <2>2, SameSetting DEF Stored
<1> QED
  BY <1>1, <1>2, <1>4, <1>5, <1>6 DEF c

\* In steady use a fresh row of a day stays one.
LEMMA CommitKeepsFresh ==
    ASSUME IInv, Steady, NEW w \in Workers, Commit(w), NEW s \in Symbols, NEW d, HasFresh(s, d)
    PROVE  HasFresh(s, d)'
<1> DEFINE c == call[w]
<1>1. PICK k \in Stored(s) : Reusable(k, rows[s][k], d)
  BY DEF HasFresh
<1>2. k \in Keys /\ k \in Stored(s)'
  BY CommitFacts DEF Stored
<1>3. Reusable(k, rows'[s][k], d)
  <2>1. CASE c.pend[s] # NoItem /\ c.pend[s].key = k
    <3>1. Solid(rows[s][k])
      BY <1>1 DEF Reusable, Solid
    <3>2. Solid(c.pend[s].row)
      BY <2>1, <3>1, SteadyKeeps, CommitFacts
    <3>3. rows'[s][k] = c.pend[s].row
      BY <1>2, <2>1, CommitFacts
    <3> QED
      BY <1>1, <3>2, <3>3 DEF Reusable, Solid
  <2>2. CASE ~(c.pend[s] # NoItem /\ c.pend[s].key = k)
    BY <1>1, <1>2, <2>2, CommitFacts
  <2> QED
    BY <2>1, <2>2
<1> QED
  BY <1>2, <1>3 DEF HasFresh

\* Alone, a commit hides no fresh row: the row it writes is the latest of its
\* day, and it was only asked for because no fresh one was there.
LEMMA CommitKeepsTop ==
    ASSUME IInv, Alone, NEW w \in Workers, Commit(w)
    PROVE  FreshIsOnTop'
<1> DEFINE c == call[w]
<1>1. /\ OneWorker /\ UNCHANGED <<setting, source, calls>> /\ setting \in Settings
      /\ \A d \in Days : d \in Nat
  BY AloneIsSteady, CommitFacts, SettingFacts DEF IInv
<1>2. /\ c \in Calls /\ AnswersAreSound(c) /\ ReadsAreCurrent(c) /\ c.start \in Nat
      /\ \A t \in c.need : ~HasFresh(t, c.day)
  BY <1>1, CommitFacts, CallFacts
<1> SUFFICES ASSUME NEW s \in Symbols, NEW d \in Days, HasFresh(s, d)', NEW m \in Tops(s, d)'
             PROVE  Reusable(m, rows'[s][m], d)
  BY <1>1, SameSetting DEF FreshIsOnTop
<1> DEFINE p == c.pend[s]
<1>3. \A k \in Keys : rows'[s][k] = IF p # NoItem /\ p.key = k THEN p.row ELSE rows[s][k]
  BY CommitFacts
<1>4. PICK l \in Stored(s)' : Reusable(l, rows'[s][l], d)
  BY DEF HasFresh
<1>5. /\ l \in Keys /\ rows'[s][l].stamp > 0 /\ l.day = d /\ l.tag # "missing"
      /\ m \in Keys /\ rows'[s][m].stamp > 0 /\ m.day <= d /\ m.day \in Nat /\ d \in Nat
  BY <1>1, <1>4, SameSetting, KeyFacts DEF Stored, Tops, Eligible, Reusable
<1>6. l \in Eligible(s, d)'
  BY <1>4, <1>5 DEF Eligible
<1>7. Sorted(s, m, l)'
  BY <1>6 DEF Tops
<1>8. m.day = d
  BY <1>5, <1>7 DEF Sorted
<1>9. CASE ~(p # NoItem /\ p.key.day = d)
  <2>1. \A k \in Keys : k.day = d => rows'[s][k] = rows[s][k]
    BY <1>3, <1>9
  <2>2. l \in Stored(s) /\ HasFresh(s, d)
    BY <1>4, <1>5, <2>1 DEF Stored, HasFresh
  <2>3. m \in Eligible(s, d)
    BY <1>5, <1>8, <2>1 DEF Stored, Eligible
  <2>4. ASSUME NEW x \in Eligible(s, d) PROVE Sorted(s, m, x)
    <3>1. x \in Keys /\ x \in Stored(s)' /\ x.day <= d /\ x.day \in Nat
      BY <1>1, CommitFacts, KeyFacts DEF Eligible, Stored
    <3>2. x \in Eligible(s, d)'
      BY <3>1 DEF Eligible
    <3>3. Sorted(s, m, x)'
      BY <3>2 DEF Tops
    <3> QED
      BY <1>5, <1>8, <2>1, <3>1, <3>3 DEF Sorted
  <2>5. Reusable(m, rows[s][m], d)
    BY <2>2, <2>3, <2>4 DEF IInv, FreshIsOnTop, Tops
  <2> QED
    BY <1>5, <1>8, <2>1, <2>5
<1>10. CASE p # NoItem /\ p.key.day = d
  <2>0. PICK k : k = p.key
    OBVIOUS
  <2>1. /\ k \in Keys /\ p.row \in Rows /\ p.row.stamp = c.start /\ rows'[s][k] = p.row
        /\ Truthful(s, k, p.row) /\ c.start > 0
    BY <1>2, <1>3, <1>10, <2>0, CommitFacts
  <2>2. \A x \in Keys : rows[s][x].stamp < c.start /\ rows[s][x].stamp \in Nat
    BY <1>2, TableFacts DEF ReadsAreCurrent
  <2>3. m = k
    <3>1. k \in Eligible(s, d)'
      BY <1>1, <1>5, <1>10, <2>0, <2>1, SameSetting DEF Eligible, Stored
    <3>2. Sorted(s, m, k)'
      BY <3>1 DEF Tops
    <3>3. rows'[s][m].stamp >= c.start
      BY <1>5, <1>8, <1>10, <2>0, <2>1, <3>2 DEF Sorted
    <3>4. m # k => rows'[s][m] = rows[s][m]
      BY <1>3, <1>5, <2>0
    <3>5. rows[s][m].stamp < c.start /\ rows[s][m].stamp \in Nat /\ c.start \in Nat
      BY <1>2, <1>5, <2>2
    <3> QED
      BY <3>3, <3>4, <3>5
  <2>4. l = k
    <3> SUFFICES ASSUME l # k PROVE FALSE
      OBVIOUS
    <3>1. rows'[s][l] = rows[s][l]
      BY <1>3, <1>5, <2>0
    <3>2. l \in Stored(s) /\ HasFresh(s, d) /\ Truthful(s, l, rows[s][l])
      BY <1>4, <1>5, <3>1, TableFacts DEF Stored, HasFresh
    <3>3. c.answer[s] # NoItem /\ c.answer[s].key = k
      BY <1>1, <1>10, <2>0, CommitFacts, CallFacts DEF WritesAreSound
    <3>4. s \in c.need /\ (k.tag # "dated" => k.day = c.day)
      BY <1>2, <3>3 DEF AnswersAreSound
    <3>5. c.day # d
      BY <1>2, <3>2, <3>4
    <3>6. k.tag = "dated"
      BY <1>10, <2>0, <3>4, <3>5
    <3>7. l.tag = "inapplicable"
      BY <1>5, <1>10, <2>0, <2>1, <3>6, KeyFacts
    <3> QED
      BY <1>5, <1>10, <2>0, <2>1, <3>2, <3>6, <3>7 DEF Truthful
  <2> QED
    BY <1>4, <2>3, <2>4
<1> QED
  BY <1>9, <1>10

\* A required call that is complete has stored what it reports.
LEMMA CommitBacksStep ==
    ASSUME IInv, Steady, NEW w \in Workers, Commit(w), call[w].kind = "required",
           Completed(call[w]), NEW s \in call[w].syms, NEW d, d = call[w].day
    PROVE  HasFresh(s, d)'
<1> DEFINE c == call[w]
<1>1. /\ c \in Calls /\ PromiseHolds(c) /\ WritesAreSound(c) /\ AnswersAreSound(c) /\ s \in Symbols
      /\ c.phase = "storing"
  BY CommitFacts, CallFacts DEF Calls
<1>2. c.todo = {} /\ c.at = {}
  BY DEF Commit
<1>3. CASE HasFresh(s, d)
  BY <1>1, <1>3, CommitKeepsFresh
<1>4. CASE ~HasFresh(s, d)
  <2>1. s \in c.need
    BY <1>1, <1>4 DEF PromiseHolds
  <2>2. ~Incomplete(c, s)
    BY <2>1 DEF Completed
  <2>3. c.pend[s].key = c.answer[s].key /\ Solid(c.pend[s].row)
    BY <1>1, <1>2, <1>4, <2>1, <2>2 DEF PromiseHolds
  <2>4. c.answer[s].key.tag \in {"dated", "inapplicable"} /\ c.answer[s].key.day = c.day
    BY <1>1, <2>2, CompleteFacts
  <2>5. c.pend[s] # NoItem
    BY <2>3, <2>4 DEF NoItem, NoKey
  <2>0. PICK k : k = c.pend[s].key
    OBVIOUS
  <2>6. /\ k \in Keys /\ rows'[s][k] = c.pend[s].row /\ c.pend[s].row.stamp > 0
        /\ UNCHANGED <<setting, source, calls>>
    BY <1>1, <2>0, <2>5, CommitFacts, CallFacts
  <2>7. k \in Stored(s)'
    BY <2>6, SameSetting DEF Stored
  <2>8. Reusable(k, rows'[s][k], d)
    BY <2>0, <2>3, <2>4, <2>6 DEF Reusable, Solid
  <2>9. \E x \in Stored(s)' : Reusable(x, rows'[s][x], d)
    BY <2>7, <2>8
  <2> QED
    BY <2>9 DEF HasFresh
<1> QED
  BY <1>3, <1>4

LEMMA CommitStep ==
    ASSUME IInv, NEW w \in Workers, Commit(w)
    PROVE  IInv'
<1> DEFINE c == call[w]
<1>1. /\ c.kind # "idle" /\ UNCHANGED <<setting, source, calls>> /\ setting \in Settings
      /\ call' = [call EXCEPT ![w] = Idle] /\ rows' \in [Symbols -> [Keys -> Rows]]
      /\ \A s \in Symbols : Stored(s) \subseteq Stored(s)' /\ Stored(s) \subseteq Keys
  BY CommitFacts DEF IInv, Stored
<1>2. c \in Calls
  BY <1>1, CallFacts
<1>3. /\ step' \in [Days -> [status : {"none", "completed", "failed"}, syms : SUBSET Symbols]]
      /\ \A d \in Days : step'[d].status = "completed" =>
           \/ step'[d] = step[d]
           \/ c.kind = "required" /\ d = c.day /\ Completed(c) /\ step'[d].syms = c.syms
  <2>1. step \in [Days -> [status : {"none", "completed", "failed"}, syms : SUBSET Symbols]]
    BY DEF IInv, TypeOK
  <2>2. c.kind \in {"required", "plain"} /\ c.day \in Days /\ c.syms \in SUBSET Symbols
    BY <1>1, <1>2 DEF Calls
  <2>3. step' = IF c.kind = "plain" THEN step
                ELSE [step EXCEPT ![c.day] =
                       [status |-> IF Completed(c) THEN "completed" ELSE "failed", syms |-> c.syms]]
    BY DEF Commit
  <2> HIDE DEF c
  <2> QED
    BY <2>1, <2>2, <2>3
<1>4. /\ call' \in [Workers -> Calls]
      /\ \A v \in Workers : call'[v] = IF v = w THEN Idle ELSE call[v]
  BY <1>1, IdleFacts DEF IInv, TypeOK
<1>5. TypeOK'
  BY <1>1, <1>3, <1>4, SameSetting DEF IInv, TypeOK
<1>6. \A s, k, row : Truthful(s, k, row)' <=> Truthful(s, k, row)
  BY <1>1, SameSetting DEF Truthful
<1>7. TableIsSound'
  <2> SUFFICES ASSUME NEW s \in Symbols, NEW k \in Keys
               PROVE  rows'[s][k] = NoRow \/ (rows'[s][k].stamp \in 1 .. calls /\ Truthful(s, k, rows'[s][k]))
    BY <1>1, <1>6, SameSetting DEF TableIsSound
  <2> QED
    BY CommitFacts DEF IInv, TableIsSound
<1>8. ASSUME NEW s \in Symbols, NEW d, Steady, HasFresh(s, d) PROVE HasFresh(s, d)'
  BY <1>8, CommitKeepsFresh
<1>9. CallsAreSound'
  <2> SUFFICES ASSUME NEW v \in Workers PROVE CallIsSound(call[v], calls)'
    BY <1>1, SameSetting DEF CallsAreSound
  <2>1. CASE call'[v].kind = "idle"
    <3>1. call'[v] = Idle
      BY <1>4, <2>1 DEF IInv, CallsAreSound, CallIsSound
    <3> QED
      BY <1>1, <2>1, <3>1, SameSetting DEF CallIsSound
  <2>2. CASE call'[v].kind # "idle"
    <3>1. v # w /\ call'[v] = call[v] /\ call[v].kind # "idle"
      BY <1>4, <2>2 DEF Idle
    <3>2. ~OneWorker /\ ~Alone
      BY <3>1 DEF OneWorker, Alone
    <3>3. /\ call[v] \in Calls /\ AnswersAreSound(call[v]) /\ SelectionIsSound(call[v])
          /\ WritesAreSound(call[v]) /\ call[v].kind \in Kinds /\ call[v].start \in 1 .. calls
          /\ Steady /\ call[v].kind = "required" => PromiseHolds(call[v])
      BY <3>1, CallFacts
    <3>4. AnswersAreSound(call[v])'
      BY <1>1, <1>6, <3>1, <3>3, SameSetting DEF AnswersAreSound
    <3>5. SelectionIsSound(call[v])'
      <4>1. \A s \in call[v].at : s \in Symbols
        BY <3>3 DEF Calls
      <4> QED
        BY <1>1, <1>6, <3>1, <3>3, <4>1, SameSetting DEF SelectionIsSound
    <3>6. WritesAreSound(call[v])'
      BY <1>1, <1>6, <3>1, <3>3, SameSetting DEF WritesAreSound
    <3>7. ASSUME Steady, call[v].kind = "required" PROVE PromiseHolds(call[v])'
      <4>1. call[v].syms \subseteq Symbols /\ call[v].need \subseteq Symbols
        BY <3>3 DEF Calls
      <4>2. PICK day : day = call[v].day
        OBVIOUS
      <4>3. \A s \in Symbols : HasFresh(s, day) => HasFresh(s, day)'
        BY <1>8, <3>7
      <4> QED
        BY <3>1, <3>3, <3>7, <4>1, <4>2, <4>3 DEF PromiseHolds
    <3> QED
      BY <1>1, <3>1, <3>2, <3>3, <3>4, <3>5, <3>6, <3>7, SameSetting DEF CallIsSound
  <2> QED
    BY <2>1, <2>2
<1>10. FreshIsOnTop'
  <2>1. CASE Alone
    BY <2>1, CommitKeepsTop
  <2>2. CASE ~Alone
    BY <1>1, <2>2, SameSetting DEF FreshIsOnTop
  <2> QED
    BY <2>1, <2>2
<1>11. CompletedIsBacked'
  <2> SUFFICES ASSUME Steady, NEW d \in Days, step'[d].status = "completed", NEW s \in step'[d].syms
               PROVE  HasFresh(s, d)'
    BY <1>1, SameSetting DEF CompletedIsBacked
  <2>1. CASE step'[d] = step[d]
    <3>1. HasFresh(s, d) /\ s \in Symbols
      BY <2>1 DEF IInv, CompletedIsBacked, TypeOK
    <3> QED
      BY <1>8, <3>1
  <2>2. CASE c.kind = "required" /\ d = c.day /\ Completed(c) /\ step'[d].syms = c.syms
    BY <2>2, CommitBacksStep
  <2> QED
    BY <1>3, <2>1, <2>2
<1> QED
  BY <1>1, <1>5, <1>7, <1>9, <1>10, <1>11 DEF IInv

\* Nothing changes.
LEMMA StutterStep ==
    ASSUME IInv, UNCHANGED vars
    PROVE  IInv'
<1>1. /\ setting' = setting /\ rows' = rows /\ source' = source /\ call' = call /\ step' = step
      /\ calls' = calls
  BY DEF vars
<1>2. \A s, k, row : Truthful(s, k, row)' <=> Truthful(s, k, row)
  BY <1>1, SameSetting DEF Truthful
<1>3. \A s, d : Stored(s)' = Stored(s) /\ Tops(s, d)' = Tops(s, d) /\ (HasFresh(s, d)' <=> HasFresh(s, d))
  BY <1>1, SameSetting DEF Stored, HasFresh, Tops, Eligible, Sorted
<1>4. CallsAreSound'
  <2>1. \A v : /\ AnswersAreSound(call[v]) => AnswersAreSound(call[v])'
               /\ SelectionIsSound(call[v]) => SelectionIsSound(call[v])'
               /\ WritesAreSound(call[v]) => WritesAreSound(call[v])'
    BY <1>1, <1>2, <1>3, SameSetting DEF AnswersAreSound, SelectionIsSound, WritesAreSound
  <2>2. \A v : /\ ReadsAreCurrent(call[v]) => ReadsAreCurrent(call[v])'
               /\ PromiseHolds(call[v]) => PromiseHolds(call[v])'
    BY <1>1, <1>3, SameSetting DEF ReadsAreCurrent, PromiseHolds
  <2> QED
    BY <1>1, <1>3, <2>1, <2>2, SameSetting DEF IInv, CallsAreSound, CallIsSound
<1> QED
  BY <1>1, <1>2, <1>3, <1>4, SameSetting
  DEF IInv, TypeOK, TableIsSound, FreshIsOnTop, CompletedIsBacked

\* Every step preserves the invariant.
LEMMA NextIInv == IInv /\ [Next]_vars => IInv'
<1> SUFFICES ASSUME IInv, [Next]_vars PROVE IInv'
  OBVIOUS
<1>1. ASSUME NEW w \in Workers, Handle(w) PROVE IInv'
  BY <1>1, BeginStep, FetchStep, SelectRowStep, UpsertRowStep, CommitStep, AbortStep DEF Handle
<1>2. ASSUME NEW s \in Symbols, NEW d \in Days, Publish(s, d) PROVE IInv'
  BY <1>2, PublishStep
<1>3. CASE UNCHANGED vars
  BY <1>3, StutterStep
<1> QED
  BY <1>1, <1>2, <1>3 DEF Next, Over

-----------------------------------------------------------------------------
(* The theorems *)

\* Every reachable state satisfies the inductive invariant.
THEOREM Inductive == Spec => []IInv
<1>1. Init => IInv
  BY InitIInv
<1>2. IInv /\ [Next]_vars => IInv'
  BY NextIInv
<1> QED
  BY <1>1, <1>2, PTL DEF Spec

\* Rows, answers and calls keep their types.
THEOREM TypeCorrect == Spec => []TypeOK
BY Inductive, IInvIsEnough, PTL

-----------------------------------------------------------------------------
(* What overlapping calls leave of a completed day *)

\* A row of the day is stored: dated with it, or of official inapplicability.
HasRow(s, day) == \E k \in Stored(s) : k.tag \in {"dated", "inapplicable"} /\ k.day = day
\* What a required call is going to report has a row, or is about to get one.
RowsArePromised(c) ==
    c.kind = "required" =>
        /\ \A s \in c.syms \ c.need : HasRow(s, c.day)
        /\ \A s \in c.need \ (c.todo \cup c.at) :
             c.phase = "storing" /\ ~Incomplete(c, s) =>
                HasRow(s, c.day) \/ c.pend[s].key = c.answer[s].key
CompletedHasRows ==
    \A d \in Days : step[d].status = "completed" => \A s \in step[d].syms : HasRow(s, d)
RowInv == (\A w \in Workers : RowsArePromised(call[w])) /\ CompletedHasRows

\* No row is ever deleted.
LEMMA RowsStay ==
    ASSUME IInv, [Next]_vars
    PROVE  setting' = setting /\ \A d : \A s \in Symbols : HasRow(s, d) => HasRow(s, d)'
<1>1. CASE UNCHANGED <<setting, rows>>
  <2>1. \A s : Stored(s)' = Stored(s)
    BY <1>1, SameSetting DEF Stored
  <2> QED
    BY <1>1, <2>1 DEF HasRow
<1>2. ASSUME NEW w \in Workers, Commit(w)
      PROVE  setting' = setting /\ \A d : \A s \in Symbols : HasRow(s, d) => HasRow(s, d)'
  <2>1. setting' = setting /\ \A s \in Symbols : Stored(s) \subseteq Stored(s)'
    BY <1>2, CommitFacts
  <2> QED
    BY <2>1 DEF HasRow
<1> QED
  BY <1>1, <1>2 DEF Next, Handle, Begin, Fetch, SelectRow, UpsertRow, Abort, Publish, Over, vars

\* What a step leaves of a call keeps its promise, of the table before the step.
LEMMA BeginPromises ==
    ASSUME IInv, NEW w \in Workers, Begin(w)
    PROVE  RowsArePromised(call'[w])
<1>1. PICK kind \in Kinds, day \in Days, syms \in (SUBSET Symbols) \ {{}} :
        LET Holds(s) == IF kind = "required" /\ Winner(s, day) # NoKey
                        THEN [key |-> Winner(s, day), row |-> rows[s][Winner(s, day)]]
                        ELSE NoItem
        IN call' = [call EXCEPT ![w] =
              [Idle EXCEPT !.kind  = kind, !.day = day, !.syms = syms,
                           !.start = calls + 1,
                           !.need  = IF kind = "required" THEN {s \in syms : ~ReaderHas(s, day)}
                                     ELSE syms,
                           !.held  = [s \in Symbols |-> IF s \in syms THEN Holds(s)
                                                        ELSE NoItem]]]
  BY DEF Begin
<1>2. /\ call'[w].kind = kind /\ call'[w].day = day /\ call'[w].syms = syms
      /\ call'[w].phase = "asked"
      /\ kind = "required" => call'[w].need = {s \in syms : ~ReaderHas(s, day)}
  BY <1>1 DEF Idle, IInv, TypeOK
<1>3. ASSUME NEW s \in syms, ReaderHas(s, day) PROVE HasRow(s, day)
  <2>1. HasFresh(s, day)
    BY <1>1, <1>3, ReaderFindsFresh DEF IInv
  <2> QED
    BY <2>1 DEF HasFresh, HasRow, Reusable
<1> QED
  BY <1>2, <1>3 DEF RowsArePromised

LEMMA FetchPromises ==
    ASSUME IInv, NEW w \in Workers, Fetch(w), RowsArePromised(call[w])
    PROVE  RowsArePromised(call'[w])
<1> DEFINE c == call[w]
           new == call'[w]
<1>1. c.kind # "idle" /\ c.phase = "asked" /\ c \in Calls /\ c.need \subseteq Symbols
  BY CallFacts DEF Fetch, Calls
<1>2. c.todo = {} /\ c.at = {} /\ \A s \in Symbols : c.answer[s] = NoItem
  BY <1>1, AskedFacts
<1>3. /\ new.kind = c.kind /\ new.day = c.day /\ new.syms = c.syms /\ new.need = c.need
      /\ \A s \in c.need : s \in new.todo \/ new.answer[s] = NoItem
  <2>1. CASE \E chosen \in [c.need -> UNION {Answers(s, c.day) : s \in c.need}] :
               LET answer == [s \in Symbols |-> IF s \in c.need THEN chosen[s] ELSE NoItem] IN
               call' = [call EXCEPT ![w].phase  = "storing", ![w].answer = answer,
                                    ![w].todo = {s \in c.need : answer[s] # NoItem}]
    <3>1. PICK chosen :
            call' = [call EXCEPT ![w].phase  = "storing",
                       ![w].answer = [s \in Symbols |-> IF s \in c.need THEN chosen[s] ELSE NoItem],
                       ![w].todo = {t \in c.need :
                          [s \in Symbols |-> IF s \in c.need THEN chosen[s] ELSE NoItem][t] # NoItem}]
      BY <2>1
    <3>2. PICK answer : answer = [s \in Symbols |-> IF s \in c.need THEN chosen[s] ELSE NoItem]
      OBVIOUS
    <3>3. new = [c EXCEPT !.phase = "storing", !.answer = answer,
                          !.todo = {t \in c.need : answer[t] # NoItem}]
      BY <3>1, <3>2 DEF IInv, TypeOK
    <3> QED
      BY <1>1, <3>3 DEF Calls
  <2>2. CASE call' = [call EXCEPT ![w].phase = "storing", ![w].failed = TRUE]
    <3>1. new = [c EXCEPT !.phase = "storing", !.failed = TRUE]
      BY <2>2 DEF IInv, TypeOK
    <3> QED
      BY <1>1, <1>2, <3>1 DEF Calls
  <2> QED
    BY <2>1, <2>2 DEF Fetch
<1>4. ASSUME NEW s \in new.need, ~(s \in new.todo) PROVE Incomplete(new, s)
  BY <1>3, <1>4, NoAnswer
<1> QED
  BY <1>3, <1>4 DEF RowsArePromised

LEMMA SelectRowPromises ==
    ASSUME IInv, NEW w \in Workers, SelectRow(w), RowsArePromised(call[w])
    PROVE  RowsArePromised(call'[w])
<1> DEFINE c == call[w]
           new == call'[w]
<1>1. PICK s \in c.todo :
        call' = [call EXCEPT ![w].at = {s}, ![w].todo = @ \ {s},
                   ![w].base = IF call[w].held[s].key = call[w].answer[s].key THEN call[w].held[s].row
                               ELSE rows[s][call[w].answer[s].key]]
  BY DEF SelectRow
<1>2. c \in Calls /\ c.at = {}
  BY DEF SelectRow, IInv, TypeOK
<1>3. /\ new.kind = c.kind /\ new.day = c.day /\ new.syms = c.syms /\ new.need = c.need
      /\ new.phase = c.phase /\ new.answer = c.answer /\ new.pend = c.pend
      /\ new.todo \cup new.at = c.todo \cup c.at
  BY <1>1, <1>2 DEF IInv, TypeOK, Calls
<1>4. \A t : Incomplete(new, t) <=> Incomplete(c, t)
  BY <1>3 DEF Incomplete
<1> HIDE DEF c, new
<1>5. RowsArePromised(c)
  BY DEF c
<1>6. RowsArePromised(new)
  BY <1>3, <1>4, <1>5 DEF RowsArePromised
<1> QED
  BY <1>6 DEF new

LEMMA UpsertRowPromises ==
    ASSUME IInv, NEW w \in Workers, UpsertRow(w), RowsArePromised(call[w])
    PROVE  RowsArePromised(call'[w])
<1> DEFINE c == call[w]
           new == call'[w]
<1>1. c.at # {} /\ c \in Calls /\ c.kind # "idle"
  <2>1. c.at # {} /\ c \in Calls
    BY DEF UpsertRow, IInv, TypeOK
  <2>2. c.kind = "idle" => c = Idle
    BY DEF IInv, CallsAreSound, CallIsSound
  <2> QED
    BY <2>1, <2>2 DEF Idle
<1>2. PICK s \in c.at :
        \/ \E row : call' = [call EXCEPT ![w].at = {}, ![w].pend[s] =
                               [key |-> c.answer[s].key, row |-> row]]
        \/ call' = [call EXCEPT ![w] = Idle]
        \/ c.base.stamp # 0 /\ call' = [call EXCEPT ![w].at = {}]
  BY Zenon DEF UpsertRow
<1>3. /\ s \in Symbols /\ (\A t \in c.at : t = s) /\ c.base.stamp \in Nat
      /\ c.base.stamp > 0 => c.answer[s].key \in Stored(s)
  <2>1. c.at \subseteq Symbols /\ c.base \in Rows /\ SelectionIsSound(c) /\ MaxCalls \in Nat
    BY <1>1, CallFacts, SettingFacts DEF Calls
  <2> HIDE DEF c
  <2> QED
    BY <2>1 DEF SelectionIsSound, Rows
<1>4. CASE call' = [call EXCEPT ![w] = Idle]
  BY <1>1, <1>4 DEF IInv, TypeOK, RowsArePromised, Idle
<1>5. ASSUME /\ new.kind = c.kind /\ new.day = c.day /\ new.syms = c.syms /\ new.need = c.need
             /\ new.phase = c.phase /\ new.answer = c.answer /\ new.todo = c.todo /\ new.at = {}
             /\ \A t \in Symbols : t # s => new.pend[t] = c.pend[t],
             ~Incomplete(c, s) => HasRow(s, c.day) \/ new.pend[s].key = c.answer[s].key
      PROVE  RowsArePromised(new)
  <2>1. \A t : Incomplete(new, t) <=> Incomplete(c, t)
    BY <1>5 DEF Incomplete
  <2>2. RowsArePromised(c) /\ c.need \subseteq Symbols
    BY <1>1 DEF Calls
  <2> HIDE DEF c, new
  <2> QED
    BY <1>3, <1>5, <2>1, <2>2 DEF RowsArePromised
<1>6. ASSUME NEW row, call' = [call EXCEPT ![w].at = {}, ![w].pend[s] =
                                 [key |-> c.answer[s].key, row |-> row]]
      PROVE  RowsArePromised(new)
  <2>1. new = [c EXCEPT !.at = {}, !.pend = [c.pend EXCEPT ![s] = [key |-> c.answer[s].key, row |-> row]]]
    BY <1>1, <1>6 DEF IInv, TypeOK
  <2>2. c.pend \in [Symbols -> Items]
    BY <1>1 DEF Calls
  <2>3. /\ new.kind = c.kind /\ new.day = c.day /\ new.syms = c.syms /\ new.need = c.need
        /\ new.phase = c.phase /\ new.answer = c.answer /\ new.todo = c.todo /\ new.at = {}
        /\ new.pend = [c.pend EXCEPT ![s] = [key |-> c.answer[s].key, row |-> row]]
    BY <1>1, <2>1 DEF Calls
  <2>4. new.pend[s].key = c.answer[s].key /\ \A t \in Symbols : t # s => new.pend[t] = c.pend[t]
    BY <1>3, <2>2, <2>3
  <2> QED
    BY <1>5, <2>3, <2>4
<1>7. CASE c.base.stamp # 0 /\ call' = [call EXCEPT ![w].at = {}]
  <2>1. ~Incomplete(c, s) => HasRow(s, c.day)
    BY <1>1, <1>3, <1>7, CompleteFacts DEF HasRow
  <2>2. new = [c EXCEPT !.at = {}]
    BY <1>1, <1>7 DEF IInv, TypeOK
  <2>3. /\ new.kind = c.kind /\ new.day = c.day /\ new.syms = c.syms /\ new.need = c.need
        /\ new.phase = c.phase /\ new.answer = c.answer /\ new.todo = c.todo /\ new.at = {}
        /\ new.pend = c.pend
    BY <1>1, <2>2 DEF Calls
  <2> QED
    BY <1>5, <2>1, <2>3
<1> QED
  BY <1>2, <1>4, <1>6, <1>7

\* What a complete required call commits has a row of its day.
LEMMA CommitHasRows ==
    ASSUME IInv, NEW w \in Workers, Commit(w), RowsArePromised(call[w]),
           call[w].kind = "required", Completed(call[w]), NEW s \in call[w].syms, NEW d, d = call[w].day
    PROVE  HasRow(s, d)'
<1> DEFINE c == call[w]
<1>1. /\ c.phase = "storing" /\ c.todo = {} /\ c.at = {} /\ c \in Calls /\ s \in Symbols
      /\ setting' = setting /\ d = c.day
  BY CommitFacts, CallFacts DEF Commit, Calls
<1>2. HasRow(s, d) => HasRow(s, d)'
  <2>1. Stored(s) \subseteq Stored(s)'
    BY <1>1, CommitFacts
  <2> QED
    BY <2>1 DEF HasRow
<1>3. CASE ~HasRow(s, d)
  <2>1. s \in c.need /\ ~Incomplete(c, s)
    BY <1>1, <1>3 DEF RowsArePromised, Completed
  <2>2. c.pend[s].key = c.answer[s].key
    BY <1>1, <1>3, <2>1 DEF RowsArePromised
  <2>3. c.answer[s].key.tag \in {"dated", "inapplicable"} /\ c.answer[s].key.day = d
    BY <1>1, <2>1, CompleteFacts
  <2>4. c.pend[s] # NoItem
    BY <2>2, <2>3 DEF NoItem, NoKey
  <2>5. PICK k : k = c.pend[s].key
    OBVIOUS
  <2>6. k \in Keys /\ rows'[s][k].stamp > 0
    <3>1. k \in Keys /\ rows'[s][k] = c.pend[s].row /\ c.pend[s].row.stamp = c.start /\ c.start \in 1 .. calls
      BY <1>1, <2>4, <2>5, CommitFacts
    <3> HIDE DEF c
    <3> QED
      BY <3>1
  <2>7. k \in Stored(s)'
    BY <1>1, <2>6, SameSetting DEF Stored
  <2> QED
    BY <2>2, <2>3, <2>5, <2>7 DEF HasRow
<1> QED
  BY <1>2, <1>3

LEMMA RowStep == IInv /\ RowInv /\ [Next]_vars => RowInv'
<1> SUFFICES ASSUME IInv, RowInv, [Next]_vars PROVE RowInv'
  OBVIOUS
<1>1. /\ setting' = setting /\ \A d : \A s \in Symbols : HasRow(s, d) => HasRow(s, d)'
      /\ call \in [Workers -> Calls]
      /\ step \in [Days -> [status : {"none", "completed", "failed"}, syms : SUBSET Symbols]]
  BY RowsStay DEF IInv, TypeOK
<1>2. ASSUME NEW c \in Calls, RowsArePromised(c) PROVE RowsArePromised(c)'
  <2>1. c.syms \subseteq Symbols /\ c.need \subseteq Symbols
    BY <1>2 DEF Calls
  <2> QED
    BY <1>1, <1>2, <2>1 DEF RowsArePromised
<1>3. CASE call' = call /\ step' = step
  BY <1>1, <1>2, <1>3, SameSetting DEF RowInv, CompletedHasRows, RowsArePromised
<1>4. ASSUME NEW w \in Workers, Handle(w) PROVE RowInv'
  <2>1. RowsArePromised(call[w])
    BY DEF RowInv
  <2>2. /\ call' \in [Workers -> Calls] /\ \A v \in Workers : v # w => call'[v] = call[v]
    <3>1. IInv'
      BY <1>4, NextIInv DEF Next
    <3>2. call' \in [Workers -> Calls]
      BY <1>1, <3>1, SameSetting DEF IInv, TypeOK
    <3>3. \A v \in Workers : v # w => call'[v] = call[v]
      BY <1>1, <1>4 DEF Handle, Begin, Fetch, SelectRow, UpsertRow, Commit, Abort
    <3> QED
      BY <3>2, <3>3
  <2>3. CASE step' = step /\ RowsArePromised(call'[w])
    BY <1>1, <1>2, <2>2, <2>3, SameSetting DEF RowInv, CompletedHasRows, RowsArePromised
  <2>4. CASE Commit(w) \/ Abort(w)
    <3>1. call'[w] = Idle /\ call[w].kind # "idle"
      BY <1>1, <2>4 DEF Commit, Abort
    <3>2. RowsArePromised(call'[w])
      BY <3>1 DEF RowsArePromised, Idle
    <3>3. \A v \in Workers : RowsArePromised(call[v])'
      BY <1>1, <1>2, <2>2, <3>2 DEF RowInv, RowsArePromised
    <3>4. CASE Abort(w)
      BY <2>3, <3>2, <3>4 DEF Abort
    <3>5. CASE Commit(w)
      <4> SUFFICES ASSUME NEW d \in Days, step'[d].status = "completed", NEW s \in step'[d].syms
                   PROVE  HasRow(s, d)'
        BY <1>1, <3>3, SameSetting DEF RowInv, CompletedHasRows
      <4>1. CASE step'[d] = step[d]
        BY <1>1, <4>1 DEF RowInv, CompletedHasRows
      <4>2. CASE step'[d] # step[d]
        <5>1. /\ call[w].kind = "required" /\ d = call[w].day /\ Completed(call[w])
              /\ step'[d].syms = call[w].syms
          <6>1. call[w].kind \in {"required", "plain"}
            BY <1>1, <3>1 DEF Calls
          <6> QED
            BY <1>1, <3>5, <4>2, <6>1 DEF Commit
        <5> QED
          BY <2>1, <3>5, <5>1, CommitHasRows
      <4> QED
        BY <4>1, <4>2
    <3> QED
      BY <2>4, <3>4, <3>5
  <2> QED
    BY <1>4, <2>1, <2>3, <2>4, BeginPromises, FetchPromises, SelectRowPromises, UpsertRowPromises
    DEF Handle, Begin, Fetch, SelectRow, UpsertRow
<1> QED
  BY <1>3, <1>4 DEF Next, Publish, Over, vars

LEMMA RowInit == Init => RowInv
<1> SUFFICES ASSUME Init PROVE RowInv
  OBVIOUS
<1>1. \A w \in Workers : call[w] = Idle
  BY DEF Init
<1>2. \A d \in Days : step[d] = NoStep
  BY DEF Init
<1> QED
  BY <1>1, <1>2 DEF RowInv, RowsArePromised, CompletedHasRows, Idle, NoStep

\* A row of the day that no reader may count on is a dated one.
LEMMA RowsAreEnough ==
    ASSUME IInv, RowInv
    PROVE  CompletedIsFresh
<1>1. CompletedReadsFresh
  BY IInvIsEnough
<1>2. ASSUME Recent, NEW d \in Days, step[d].status = "completed", NEW s \in step[d].syms
      PROVE  HasFresh(s, d) \/ TakenBack(s, d)
  <2>1. s \in Symbols /\ HasRow(s, d)
    BY <1>2 DEF IInv, TypeOK, RowInv, CompletedHasRows
  <2>2. PICK k \in Stored(s) : k.tag \in {"dated", "inapplicable"} /\ k.day = d
    BY <2>1 DEF HasRow
  <2>3. CASE k.tag = "inapplicable"
    <3>1. Solid(rows[s][k])
      BY <2>1, <2>2, <2>3, TableFacts DEF Truthful, Solid, Stored
    <3> QED
      BY <2>1, <2>2, <2>3, <3>1, SolidIsFresh
  <2>4. CASE k.tag = "dated"
    <3>1. k = Dated(d)
      BY <2>2, <2>4 DEF Stored, Keys, Dated
    <3>2. CASE Steady
      BY <1>2, <3>2 DEF IInv, CompletedIsBacked
    <3>3. CASE ~Steady
      BY <1>2, <2>2, <3>1, <3>3 DEF Steady, OneWorker, TakenBack
    <3> QED
      BY <3>2, <3>3
  <2> QED
    BY <2>2, <2>3, <2>4
<1> QED
  BY <1>1, <1>2 DEF CompletedIsFresh, CompletedIsStored

\* "completed" is no empty promise: alone the readers of the day get a fresh row
\* of every symbol reported.  Whatever calls overlap, the table holds it, unless,
\* of margin, an overlapping call took it back and left an incomplete row.
THEOREM CompletedKept == Spec => []CompletedIsFresh
<1>1. Spec => []RowInv
  BY Inductive, RowInit, RowStep, PTL DEF Spec
<1> QED
  BY <1>1, Inductive, RowsAreEnough, PTL

-----------------------------------------------------------------------------
(* What a required call fetches *)

\* An idle worker only begins a call.
LEMMA IdleBegins ==
    ASSUME IInv, NEW w \in Workers, Handle(w), call[w] = Idle
    PROVE  Begin(w)
<1>1. /\ call[w].kind = "idle" /\ call[w].phase = "asked" /\ call[w].at = {}
  BY DEF Idle
<1> QED
  BY <1>1 DEF Handle, Fetch, SelectRow, UpsertRow, Commit, Abort

\* Alone, a required call asks the provider for no symbol the table holds a
\* fresh, complete context of the day for.
THEOREM FreshReused == Spec => FreshIsReused
<1> DEFINE A == Alone => \A w \in Workers : call[w] = Idle /\ call'[w].kind = "required" =>
                  \A s \in call'[w].need : ~HasFresh(s, call'[w].day)
<1>1. IInv /\ IInv' /\ [Next]_vars => [A]_vars
  <2> SUFFICES ASSUME IInv, IInv', Next, Alone, NEW w \in Workers,
                      call[w] = Idle, call'[w].kind = "required", NEW s \in call'[w].need
               PROVE  ~HasFresh(s, call'[w].day)
    BY DEF vars
  <2>1. call'[w] # call[w]
    BY DEF Idle
  <2>2. Begin(w)
    <3>1. ASSUME NEW v \in Workers, Handle(v) PROVE Begin(w)
      BY <3>1, IdleBegins DEF Alone
    <3> QED
      BY <2>1, <3>1 DEF Next, Publish, Over, vars
  <2>3. UNCHANGED <<setting, rows>>
    BY <2>2 DEF Begin
  <2>4. CallIsSound(call[w], calls)' /\ Alone'
    BY <2>3, SameSetting DEF IInv, CallsAreSound
  <2>5. (\A t \in call[w].need : ~HasFresh(t, call[w].day))'
    BY <2>4 DEF CallIsSound
  <2>6. ~HasFresh(s, call[w].day)'
    BY <2>5
  <2> QED
    BY <2>3, <2>6, SameSetting DEF HasFresh, Stored
<1>2. Spec => []IInv
  BY Inductive
<1> HIDE DEF A
<1>3. Spec => [][A]_vars
  BY <1>1, <1>2, PTL DEF Spec
<1> QED
  BY <1>3 DEF FreshIsReused, A

-----------------------------------------------------------------------------
(* Readers' contexts only improve *)

\* Of every state: what is there to be read is read, and alone a fresh row is.
Found ==
    /\ setting \in Settings /\ TypeOK =>
         \A s \in Symbols, d \in Days : Eligible(s, d) # {} => Winner(s, d) # NoKey
    /\ IInv /\ Alone =>
         \A s \in Symbols, d \in Days : HasFresh(s, d) => ReaderHas(s, d)
LEMMA ReadersFind == Found
BY WinnerIsTop, FreshIsRead DEF Found
LEMMA ReadersFindNext == Found'
BY ReadersFind, PTL

\* A reader that finds something keeps finding something, and a context it may
\* count on stays one.
LEMMA ReadersKeep ==
    ASSUME IInv, IInv', [Next]_vars, Alone, Recent, NEW s \in Symbols, NEW d \in Days
    PROVE  /\ Winner(s, d) # NoKey => Winner(s, d)' # NoKey
           /\ ReaderHas(s, d) => ReaderHas(s, d)'
<1>1. setting' = setting /\ Steady
  BY AloneIsSteady
  DEF Next, vars, Handle, Begin, Fetch, SelectRow, UpsertRow, Commit, Abort, Publish, Over
<1>2. \/ rows' = rows
      \/ \E w \in Workers : Commit(w)
  BY DEF Next, vars, Handle, Begin, Fetch, SelectRow, UpsertRow, Commit, Abort, Publish, Over
<1>3. Stored(s) \subseteq Stored(s)' /\ (HasFresh(s, d) => HasFresh(s, d)')
  <2>1. CASE rows' = rows
    BY <1>1, <2>1, SameSetting DEF Stored, HasFresh
  <2>2. ASSUME NEW w \in Workers, Commit(w)
        PROVE  Stored(s) \subseteq Stored(s)' /\ (HasFresh(s, d) => HasFresh(s, d)')
    BY <1>1, <2>2, CommitFacts, CommitKeepsFresh
  <2> QED
    BY <1>2, <2>1, <2>2
<1>6. Found'
  BY ReadersFindNext
<1>4. Winner(s, d) # NoKey => Winner(s, d)' # NoKey
  <2> SUFFICES ASSUME Winner(s, d) # NoKey PROVE Winner(s, d)' # NoKey
    OBVIOUS
  <2>1. Eligible(s, d) # {}
    BY DEF Winner
  <2>2. Eligible(s, d)' # {}
    BY <1>3, <2>1 DEF Eligible
  <2>3. (setting \in Settings /\ TypeOK)' /\ s \in Symbols' /\ d \in Days'
    BY <1>1, SameSetting DEF IInv
  <2> QED
    BY <1>6, <2>2, <2>3 DEF Found
<1>5. ReaderHas(s, d) => ReaderHas(s, d)'
  <2> SUFFICES ASSUME ReaderHas(s, d) PROVE ReaderHas(s, d)'
    OBVIOUS
  <2>1. HasFresh(s, d)'
    BY <1>3, ReaderFindsFresh DEF IInv
  <2>2. Alone' /\ s \in Symbols' /\ d \in Days'
    BY <1>1, SameSetting
  <2> QED
    BY <1>6, <2>1, <2>2 DEF Found
<1> QED
  BY <1>4, <1>5

\* The grade of one reader.
Graded(s, d) == IF ~(Alone /\ Recent /\ d \in Days /\ s \in Symbols) THEN "none"
                ELSE IF Winner(s, d) = NoKey THEN "none"
                ELSE IF ReaderHas(s, d) THEN "fresh" ELSE "poor"
LEMMA ViewIsGraded == ReaderView = [d \in AllDays |-> [s \in AllSymbols |-> Graded(s, d)]]
BY DEF ReaderView, Graded

\* At first no reader finds anything.
LEMMA ViewInit == Init => Contexts!Init
<1> SUFFICES ASSUME Init PROVE Contexts!Init
  OBVIOUS
<1>1. ASSUME NEW s \in AllSymbols, NEW d \in AllDays PROVE Graded(s, d) = "none"
  <2>1. ASSUME s \in Symbols PROVE Winner(s, d) = NoKey
    <3>1. Stored(s) = {}
      BY <2>1 DEF Init, Stored, NoRow
    <3> QED
      BY <3>1 DEF Winner, Eligible
  <2> QED
    BY <2>1 DEF Graded
<1> QED
  BY <1>1, ViewIsGraded DEF Contexts!Init

\* Every step improves what readers get, or leaves it.
LEMMA ViewStep == IInv /\ IInv' /\ [Next]_vars => Contexts!Improve
<1> SUFFICES ASSUME IInv, IInv', [Next]_vars PROVE Contexts!Improve
  OBVIOUS
<1>1. setting' = setting
  BY DEF Next, vars, Handle, Begin, Fetch, SelectRow, UpsertRow, Commit, Abort, Publish, Over
<1>2. ReaderView' = [d \in AllDays |-> [s \in AllSymbols |-> Graded(s, d)']]
  BY DEF ReaderView, Graded
<1>3. ASSUME NEW s \in AllSymbols, NEW d \in AllDays
      PROVE  Graded(s, d)' \in Contexts!Grades /\ Graded(s, d)' \in Contexts!From(Graded(s, d))
  <2>1. CASE Alone /\ Recent /\ d \in Days /\ s \in Symbols
    <3>1. (Alone /\ Recent /\ d \in Days /\ s \in Symbols)'
      BY <1>1, <2>1, SameSetting
    <3>2. /\ Winner(s, d) # NoKey => Winner(s, d)' # NoKey
          /\ ReaderHas(s, d) => ReaderHas(s, d)'
      BY <2>1, ReadersKeep
    <3>3. Graded(s, d)' = IF Winner(s, d)' = NoKey THEN "none"
                          ELSE IF ReaderHas(s, d)' THEN "fresh" ELSE "poor"
      BY <3>1 DEF Graded
    <3>4. Graded(s, d) = IF Winner(s, d) = NoKey THEN "none"
                         ELSE IF ReaderHas(s, d) THEN "fresh" ELSE "poor"
      BY <2>1 DEF Graded
    <3> QED
      BY <3>2, <3>3, <3>4 DEF Contexts!Grades, Contexts!From
  <2>2. CASE ~(Alone /\ Recent /\ d \in Days /\ s \in Symbols)
    <3>1. ~(Alone /\ Recent /\ d \in Days /\ s \in Symbols)'
      BY <1>1, <2>2, SameSetting
    <3>2. Graded(s, d)' = "none" /\ Graded(s, d) = "none"
      BY <2>2, <3>1 DEF Graded
    <3> QED
      BY <3>2 DEF Contexts!Grades, Contexts!From
  <2> QED
    BY <2>1, <2>2
<1> QED
  BY <1>2, <1>3, ViewIsGraded DEF Contexts!Improve

\* Refinement: required calls, one at a time, only ever improve what readers get.
THEOREM ReadersImprove == Spec => OnlyImproves
<1>1. Init => Contexts!Init
  BY ViewInit
<1>2. IInv /\ IInv' /\ [Next]_vars => [Contexts!Improve]_ReaderView
  BY ViewStep
<1>3. Spec => []IInv
  BY Inductive
<1> QED
  BY <1>1, <1>2, <1>3, PTL DEF Spec, OnlyImproves, Contexts!Spec
=============================================================================
