---------------------- MODULE FundamentalBackfillProofs ----------------------
(***************************************************************************)
(* Proofs about FundamentalBackfill, for every number of symbols, page     *)
(* size, job ids and workers: one job at a time, the cursor counts what    *)
(* was committed, and requests together take the steps of BackfillQueue.   *)
(***************************************************************************)
EXTENDS FundamentalBackfill, FiniteSetTheorems, TLAPS

-----------------------------------------------------------------------------
(* Sets of symbols *)

\* A nonempty set of symbols has a greatest element.  The numbers at or below
\* some element are 0 .. m for m + 1 of them, so that m is in the set.
LEMMA Greatest ==
    ASSUME NEW T \in SUBSET Symbols, T # {}
    PROVE  \E x \in T : \A y \in T : y <= x
<1> DEFINE D == {x \in 0 .. SymbolCount : \E y \in T : x <= y}
           n == Cardinality(D)
<1>1. SymbolCount \in Nat
  BY CountsAssumption
<1>2. IsFiniteSet(0 .. SymbolCount)
  BY <1>1, FS_Interval, SMT
<1>3. IsFiniteSet(D) /\ n \in Nat
  BY <1>2, FS_Subset, FS_CardinalityType
<1>4. T \subseteq D
  BY <1>1 DEF Symbols
<1>5. \A x \in D : x <= n - 1
  <2> SUFFICES ASSUME NEW x \in D PROVE x <= n - 1
    OBVIOUS
  <2>1. x \in Nat /\ 0 .. x \subseteq D
    BY <1>1, SMT DEF Symbols
  <2>2. Cardinality(0 .. x) = x + 1
    BY <2>1, FS_Interval, SMT
  <2>3. Cardinality(0 .. x) <= n
    BY <2>1, <1>3, FS_Subset
  <2> QED
    BY <2>1, <2>2, <2>3, <1>3
<1>6. D # {}
  BY <1>4
<1>7. n - 1 \in Nat
  <2>1. PICK x \in D : TRUE
    BY <1>6
  <2> QED
    BY <2>1, <1>5, <1>3, <1>1, SMT
<1>8. /\ D \subseteq 0 .. (n - 1)
      /\ IsFiniteSet(0 .. (n - 1))
      /\ Cardinality(0 .. (n - 1)) = n
  <2>1. D \subseteq 0 .. (n - 1)
    BY <1>5, <1>7, <1>1, SMT
  <2>2. /\ IsFiniteSet(0 .. (n - 1))
        /\ Cardinality(0 .. (n - 1)) = IF 0 > n - 1 THEN 0 ELSE (n - 1) - 0 + 1
    <3> HIDE DEF n
    <3>1. 0 \in Int /\ n - 1 \in Int
      BY <1>7
    <3> QED
      BY <3>1, FS_Interval
  <2>3. Cardinality(0 .. (n - 1)) = n
    <3> HIDE DEF n
    <3> QED
      BY <2>2, <1>7, <1>3, SMT
  <2> QED
    BY <2>1, <2>2, <2>3
<1>9. n - 1 \in D
  <2>1. D = 0 .. (n - 1)
    BY <1>8, FS_Subset
  <2>2. n - 1 \in 0 .. (n - 1)
    BY <1>7
  <2> QED
    BY <2>1, <2>2
<1>10. PICK x \in T : n - 1 <= x
  BY <1>9
<1>11. \A y \in T : y <= n - 1
  BY <1>4, <1>5
<1> QED
  BY <1>10, <1>11, <1>7, <1>1, SMT DEF Symbols

\* ... and a least one: mirror it.
LEMMA Least ==
    ASSUME NEW T \in SUBSET Symbols, T # {}
    PROVE  \E x \in T : \A y \in T : x <= y
<1> DEFINE M == {s \in Symbols : SymbolCount + 1 - s \in T}
<1>1. SymbolCount \in Nat /\ T \subseteq 1 .. SymbolCount
  BY CountsAssumption DEF Symbols
<1>2. \A t \in T : SymbolCount + 1 - t \in M
  BY <1>1, SMT DEF Symbols
<1>3. M # {}
  BY <1>2
<1>4. PICK x \in M : \A y \in M : y <= x
  BY <1>3, Greatest
<1>5. SymbolCount + 1 - x \in T
  OBVIOUS
<1>6. \A y \in T : SymbolCount + 1 - x <= y
  BY <1>1, <1>2, <1>4, SMT DEF Symbols
<1> QED
  BY <1>5, <1>6

\* A page is a first part of what it is taken from, within its limit, and not
\* empty unless there is nothing left.
Prefix(page, symbols) == page \subseteq symbols /\ \A s \in page, t \in symbols \ page : s < t

LEMMA FirstOfPrefix ==
    ASSUME NEW S \in SUBSET Symbols, NEW n \in Nat \ {0}
    PROVE  /\ Prefix(FirstOf(S, n), S)
           /\ Cardinality(FirstOf(S, n)) <= n
           /\ S # {} => FirstOf(S, n) # {}
<1> DEFINE Upto(s) == {t \in S : t <= s}
           F == FirstOf(S, n)
<1>1. SymbolCount \in Nat /\ S \subseteq 1 .. SymbolCount
  BY CountsAssumption DEF Symbols
<1>9. \A s \in S : s \in Int
  BY <1>1
<1>2. IsFiniteSet(S)
  <2>1. IsFiniteSet(1 .. SymbolCount)
    BY <1>1, FS_Interval
  <2> QED
    BY <2>1, <1>1, FS_Subset
<1>3. \A s \in S : IsFiniteSet(Upto(s)) /\ Cardinality(Upto(s)) \in Nat
  BY <1>2, FS_Subset, FS_CardinalityType
<1>4. \A s, t \in S : s <= t => Cardinality(Upto(s)) <= Cardinality(Upto(t))
  <2> SUFFICES ASSUME NEW s \in S, NEW t \in S, s <= t
               PROVE  Cardinality(Upto(s)) <= Cardinality(Upto(t))
    OBVIOUS
  <2>1. \A r \in S : r <= s => r <= t
    BY <1>9, SMT
  <2>2. Upto(s) \subseteq Upto(t)
    BY <2>1
  <2> QED
    BY <2>2, <1>3, FS_Subset
<1>5. F = {s \in S : Cardinality(Upto(s)) <= n}
  BY DEF FirstOf
<1>6. Prefix(F, S)
  <2> SUFFICES ASSUME NEW s \in F, NEW t \in S \ F PROVE s < t
    BY <1>5 DEF Prefix
  <2>1. s \in S /\ Cardinality(Upto(s)) <= n /\ ~(Cardinality(Upto(t)) <= n)
    BY <1>5
  <2>2. CASE t <= s
    <3>1. Cardinality(Upto(t)) <= Cardinality(Upto(s))
      BY <2>1, <2>2, <1>4
    <3>2. Cardinality(Upto(t)) \in Nat /\ Cardinality(Upto(s)) \in Nat
      BY <2>1, <1>3
    <3> HIDE DEF Upto
    <3> QED
      BY <2>1, <3>1, <3>2, SMT
  <2>3. CASE ~(t <= s)
    BY <2>1, <2>3, <1>9, SMT
  <2> QED
    BY <2>2, <2>3
<1>7. Cardinality(F) <= n
  <2>1. CASE F = {}
    BY <2>1, FS_EmptySet
  <2>2. CASE F # {}
    <3>1. F \in SUBSET Symbols
      BY <1>5
    <3>2. PICK x \in F : \A y \in F : y <= x
      BY <2>2, <3>1, Greatest
    <3>3. F \subseteq Upto(x) /\ x \in S /\ Cardinality(Upto(x)) <= n
      BY <3>2, <1>5
    <3>4. Cardinality(F) <= Cardinality(Upto(x)) /\ IsFiniteSet(F)
      BY <3>3, <1>3, FS_Subset
    <3>5. Cardinality(F) \in Nat
      BY <3>4, FS_CardinalityType
    <3> QED
      BY <3>3, <3>4, <3>5, <1>3, SMT
  <2> QED
    BY <2>1, <2>2
<1>8. ASSUME S # {} PROVE F # {}
  <2>1. PICK x \in S : \A y \in S : x <= y
    BY <1>8, Least
  <2>4. \A y \in S : y <= x => y = x
    BY <2>1, <1>9, SMT
  <2>2. Upto(x) = {x}
    BY <2>1, <2>4, <1>9
  <2>3. Cardinality(Upto(x)) = 1
    BY <2>2, FS_Singleton
  <2> QED
    BY <2>3, <1>5, SMT
<1> QED
  BY <1>6, <1>7, <1>8

-----------------------------------------------------------------------------
(* The inductive invariant *)

Creators == {w \in Workers : call[w].phase \in {"selecting", "creating"}}
Storing  == {w \in Workers : call[w].phase = "storing"}
Fetched  == {w \in Workers : call[w].phase \in {"guarding", "storing"}}
Working  == {w \in Workers : call[w].phase \in {"fetching", "guarding", "storing"}}

Unserved(w) == After(jobs[call[w].job].symbols, call[w].cursor)

\* Two jobs are never open; the advisory lock is one request's, and what it found
\* nothing open for stays so; the row lock of a job is one request's, and the row
\* is what that request started from; and a page is a first part of what was left.
OneOpen     == \A i, j \in Running : i = j
OneCreator  == \A v, w \in Creators : v = w
NothingOpen == \A w \in Workers : call[w].phase = "creating" => Running = {}
OneHolder   == \A v, w \in Storing : call[v].job = call[w].job => v = w
KnownJob    == \A w \in Working : call[w].job \in Jobs
HolderValid == \A w \in Storing : Valid(call[w].job, call[w].cursor)
PageFirst   == \A w \in Fetched : /\ Prefix(call[w].page, Unserved(w))
                                  /\ Unserved(w) # {} => call[w].page # {}

IInv == /\ TypeOK /\ CursorCountsPages
        /\ OneOpen /\ OneCreator /\ NothingOpen
        /\ OneHolder /\ KnownJob /\ HolderValid /\ PageFirst

\* What Store makes of the row: it has served the page besides what was served.
LEMMA RowServes ==
    ASSUME IInv, NEW w \in Storing, NEW stored
    PROVE  LET c   == call[w]
               row == jobs[c.job]
               new == RowAfter(c, stored)
           IN  /\ new \in JobRows /\ new.symbols = row.symbols
               /\ new.status \in {"running", "completed"}
               /\ new.status = "completed" <=> Unserved(w) \subseteq c.page
               /\ \A s \in row.symbols :
                     (new.status = "completed" \/ s <= new.cursor)
                     <=> (s <= row.cursor \/ s \in c.page)
<1> DEFINE c    == call[w]
           row  == jobs[c.job]
           new  == RowAfter(c, stored)
           left == Unserved(w) \ c.page
<1>1. /\ w \in Workers /\ w \in Working /\ w \in Fetched
      /\ c \in Calls /\ c.job \in Jobs /\ row \in JobRows
      /\ row.status = "running" /\ row.cursor = c.cursor
  BY DEF IInv, TypeOK, KnownJob, HolderValid, Valid, Storing, Working, Fetched
<1>2. /\ row.symbols \subseteq Symbols /\ c.page \subseteq Symbols
      /\ c.cursor \in Cursors
  BY <1>1 DEF JobRows, Calls, Pages
<1>3. /\ \A s \in Symbols : s \in Int
      /\ \A s \in Cursors : s \in Int
      /\ \A s \in Symbols : s \in Cursors
      /\ 0 \in Cursors
  BY CountsAssumption DEF Symbols, Cursors
<1>4. /\ c.page \subseteq Unserved(w)
      /\ \A s \in c.page, t \in left : s < t
      /\ left # {} => c.page # {}
  BY <1>1 DEF IInv, PageFirst, Prefix
<1>5. Unserved(w) = {s \in row.symbols : s > c.cursor}
  BY DEF Unserved, After
<1>6. CASE left = {}
  <2>1. new = [row EXCEPT !.status = "completed", !.cursor = 0]
    BY <1>6 DEF RowAfter, Unserved
  <2>2. /\ new.status = "completed" /\ new.symbols = row.symbols /\ new \in JobRows
    <3> HIDE DEF new, row
    <3> QED
      BY <2>1, <1>1, <1>3 DEF JobRows
  <2>3. Unserved(w) \subseteq c.page
    BY <1>6
  <2>4. \A s \in row.symbols : s <= row.cursor \/ s \in c.page
    BY <2>3, <1>5, <1>1, <1>2, <1>3
  <2> QED
    BY <2>2, <2>3, <2>4
<1>7. CASE left # {}
  <2>1. PICK top \in c.page : \A t \in c.page : t <= top
    BY <1>7, <1>4, <1>2, Greatest
  <2>2. \A s \in c.page : (\A t \in c.page : t <= s) => s = top
    BY <2>1, <1>2, <1>3
  <2>3. (CHOOSE s \in c.page : \A t \in c.page : t <= s) = top
    BY <2>1, <2>2
  <2>4. new = [row EXCEPT !.cursor = top]
    BY <2>3, <1>7 DEF RowAfter, Unserved
  <2>5. /\ new.status = "running" /\ new.symbols = row.symbols
        /\ new.cursor = top /\ new \in JobRows
    BY <2>4, <2>1, <1>1, <1>2, <1>3 DEF JobRows
  <2>6. ASSUME NEW s \in row.symbols
        PROVE  s <= top <=> (s <= row.cursor \/ s \in c.page)
    <3>1. top \in Int /\ s \in Int /\ row.cursor \in Int /\ top > row.cursor
      BY <2>1, <1>1, <1>2, <1>3, <1>4, <1>5
    <3>2. CASE s <= row.cursor
      BY <3>1, <3>2
    <3>3. CASE s \in c.page
      BY <3>3, <2>1
    <3>4. CASE ~(s <= row.cursor) /\ s \notin c.page
      <4>1. s \in left
        BY <3>4, <3>1, <1>1, <1>5
      <4>2. top < s
        BY <4>1, <2>1, <1>4
      <4> QED
        BY <4>2, <3>1, <3>4
    <3> QED
      BY <3>2, <3>3, <3>4
  <2>7. ~(Unserved(w) \subseteq c.page)
    BY <1>7
  <2> QED
    BY <2>5, <2>6, <2>7
<1> QED
  BY <1>6, <1>7

-----------------------------------------------------------------------------
(* It is inductive *)

\* It holds at the start: no row, no request.
LEMMA InitIInv == Init => IInv
<1> SUFFICES ASSUME Init PROVE IInv
  OBVIOUS
<1> USE DEF Init
<1>1. 0 \in Cursors /\ {} \in Pages
  BY CountsAssumption, FS_EmptySet DEF Cursors, Pages
<1>2. Idle \in Calls /\ NoRow \in JobRows
  BY <1>1 DEF Idle, Calls, Phases, NoGain, NoRow, JobRows
<1>3. TypeOK
  BY <1>2, CountsAssumption DEF TypeOK
<1>4. CursorCountsPages
  BY DEF CursorCountsPages, NoRow
<1>5. Running = {}
  BY DEF Running, NoRow
<1>6. Creators = {} /\ Storing = {} /\ Working = {} /\ Fetched = {}
  BY DEF Creators, Storing, Working, Fetched, Idle
<1> QED
  BY <1>3, <1>4, <1>5, <1>6
  DEF IInv, OneOpen, OneCreator, NothingOpen, OneHolder, KnownJob, HolderValid, PageFirst

\* A step of one request that writes nothing: what is left to show is about that
\* request.
LEMMA CallStep ==
    ASSUME IInv, NEW w \in Workers, NEW new \in Calls,
           call' = [call EXCEPT ![w] = new],
           UNCHANGED <<jobs, archive, tries>>, aborts' \in 0 .. MaxAborts,
           new.phase \in {"selecting", "creating"} =>
               \A v \in Creators : v = w,
           new.phase = "creating" => Running = {},
           new.phase \in {"fetching", "guarding", "storing"} => new.job \in Jobs,
           new.phase = "storing" =>
               /\ Valid(new.job, new.cursor)
               /\ \A v \in Storing : call[v].job = new.job => v = w,
           new.phase \in {"guarding", "storing"} =>
               /\ Prefix(new.page, After(jobs[new.job].symbols, new.cursor))
               /\ After(jobs[new.job].symbols, new.cursor) # {} => new.page # {}
    PROVE  IInv'
<1> USE DEF IInv
<1>1. /\ call \in [Workers -> Calls] /\ call'[w] = new
      /\ \A v \in Workers \ {w} : call'[v] = call[v]
  BY DEF TypeOK
<1>2. TypeOK'
  BY DEF TypeOK
<1>3. CursorCountsPages' /\ OneOpen' /\ Running' = Running
  BY DEF CursorCountsPages, OneOpen, Running
<1>4. OneCreator'
  BY <1>1 DEF OneCreator, Creators
<1>5. NothingOpen'
  BY <1>1, <1>3 DEF NothingOpen
<1>6. OneHolder'
  BY <1>1 DEF OneHolder, Storing
<1>7. KnownJob'
  BY <1>1 DEF KnownJob, Working
<1>8. HolderValid'
  BY <1>1 DEF HolderValid, Storing, Valid
<1>9. PageFirst'
  BY <1>1 DEF PageFirst, Fetched, Unserved
<1> QED
  BY <1>2, <1>3, <1>4, <1>5, <1>6, <1>7, <1>8, <1>9

\* A request that ends, or goes on to one of the phases without a lock.
LEMMA FreeStep ==
    ASSUME IInv, NEW w \in Workers, NEW new \in Calls,
           call' = [call EXCEPT ![w] = new],
           UNCHANGED <<jobs, archive, tries>>, aborts' \in 0 .. MaxAborts,
           new.phase \in {"idle", "queued"} \/ (new.phase = "fetching" /\ new.job \in Jobs)
    PROVE  IInv'
BY CallStep

\* A request that ends without a write.
LEMMA EndStep ==
    ASSUME IInv, NEW w \in Workers, call' = [call EXCEPT ![w] = Idle],
           UNCHANGED <<jobs, archive, tries>>, aborts' \in 0 .. MaxAborts
    PROVE  IInv'
<1>1. 0 \in Cursors /\ {} \in Pages
  BY CountsAssumption, FS_EmptySet DEF Cursors, Pages
<1>2. PICK new \in Calls : new = Idle
  BY <1>1 DEF Idle, Calls, Phases, NoGain
<1>3. call' = [call EXCEPT ![w] = new] /\ new.phase \in {"idle", "queued"}
  BY <1>2 DEF Idle
<1> QED
  BY <1>3, FreeStep

\* A new job: its id was forgotten by all, and no other is open.
LEMMA CreateStep == ASSUME IInv, NEW w \in Workers, CreateJob(w) PROVE IInv'
<1> USE DEF IInv
<1>1. PICK j \in Forgotten, managed \in SUBSET Symbols :
        /\ jobs' = [jobs EXCEPT ![j] =
             [status |-> "running", cursor |-> 0,
              symbols |-> Pending(IF call[w].want # {} THEN call[w].want ELSE managed)]]
        /\ tries' = [tries EXCEPT ![j] = [s \in Symbols |-> 0]]
        /\ call' = [call EXCEPT ![w] = [Idle EXCEPT !.phase = "fetching", !.job = j]]
  BY DEF CreateJob
<1> DEFINE symbols == Pending(IF call[w].want # {} THEN call[w].want ELSE managed)
           new     == [Idle EXCEPT !.phase = "fetching", !.job = j]
<1>2. /\ archive' = archive /\ aborts' = aborts /\ call[w].phase = "creating"
      /\ w \in Creators
  BY DEF CreateJob, Creators
<1>3. /\ j \in Jobs /\ j \notin Running /\ \A v \in Workers : call[v].job # j
  BY DEF Forgotten
<1>4. /\ call \in [Workers -> Calls] /\ jobs \in [Jobs -> JobRows]
      /\ tries \in [Jobs -> [Symbols -> 0 .. 2]]
  BY DEF TypeOK
<1>5. symbols \subseteq Symbols /\ 0 \in Cursors /\ {} \in Pages
  BY <1>4, CountsAssumption, FS_EmptySet DEF Pending, Calls, Cursors, Pages
<1>6. /\ new \in Calls /\ new.phase = "fetching" /\ new.job = j
  BY <1>3, <1>5 DEF Idle, Calls, Phases, NoGain
<1>7. /\ call'[w] = new /\ \A v \in Workers \ {w} : call'[v] = call[v]
      /\ \A i \in Jobs \ {j} : jobs'[i] = jobs[i] /\ tries'[i] = tries[i]
      /\ jobs'[j].status = "running" /\ jobs'[j].cursor = 0
      /\ jobs'[j].symbols = symbols /\ tries'[j] = [s \in Symbols |-> 0]
  BY <1>1, <1>3, <1>4
<1>8. TypeOK'
  <2>1. jobs' \in [Jobs -> JobRows]
    BY <1>1, <1>4, <1>5 DEF JobRows
  <2>2. tries' \in [Jobs -> [Symbols -> 0 .. 2]]
    <3>1. [s \in Symbols |-> 0] \in [Symbols -> 0 .. 2]
      OBVIOUS
    <3> QED
      BY <3>1, <1>1, <1>4
  <2>3. call' \in [Workers -> Calls]
    BY <1>1, <1>4, <1>6
  <2> QED
    BY <2>1, <2>2, <2>3, <1>2 DEF TypeOK
<1>9. CursorCountsPages'
  <2>1. \A s \in Symbols : ~(s <= 0)
    BY CountsAssumption DEF Symbols
  <2> QED
    BY <2>1, <1>7 DEF CursorCountsPages
<1>10. Running = {} /\ Running' = {j}
  BY <1>2, <1>3, <1>7 DEF NothingOpen, Running
<1>11. OneOpen'
  BY <1>10 DEF OneOpen
<1>12. Creators' = {}
  <2> SUFFICES ASSUME NEW v \in Creators' PROVE FALSE
    OBVIOUS
  <2>1. v # w /\ v \in Creators
    BY <1>6, <1>7 DEF Creators
  <2> QED
    BY <2>1, <1>2 DEF OneCreator
<1>13. OneCreator' /\ NothingOpen'
  BY <1>12 DEF OneCreator, NothingOpen, Creators
<1>14. OneHolder'
  <2>1. \A v \in Storing' : v \in Storing /\ call'[v] = call[v]
    BY <1>6, <1>7 DEF Storing
  <2> QED
    BY <2>1 DEF OneHolder
<1>15. KnownJob'
  BY <1>3, <1>6, <1>7 DEF KnownJob, Working
<1>16. HolderValid'
  <2> SUFFICES ASSUME NEW v \in Storing' PROVE Valid(call[v].job, call[v].cursor)'
    BY DEF HolderValid
  <2>1. v # w /\ call'[v] = call[v] /\ v \in Storing /\ v \in Working
    BY <1>6, <1>7 DEF Storing, Working
  <2>2. jobs'[call[v].job] = jobs[call[v].job]
    BY <2>1, <1>3, <1>7 DEF KnownJob, Working
  <2> QED
    BY <2>1, <2>2 DEF HolderValid, Valid
<1>17. PageFirst'
  <2> SUFFICES ASSUME NEW v \in Fetched'
               PROVE  /\ Prefix(call[v].page, Unserved(v))'
                      /\ (Unserved(v) # {} => call[v].page # {})'
    BY DEF PageFirst
  <2>1. v # w /\ call'[v] = call[v] /\ v \in Fetched /\ v \in Working
    BY <1>6, <1>7 DEF Fetched, Working
  <2>2. jobs'[call[v].job] = jobs[call[v].job]
    BY <2>1, <1>3, <1>7 DEF KnownJob, Working
  <2>3. Unserved(v)' = Unserved(v)
    BY <2>1, <2>2 DEF Unserved
  <2> QED
    BY <2>1, <2>3 DEF PageFirst
<1> QED
  BY <1>8, <1>9, <1>11, <1>13, <1>14, <1>15, <1>16, <1>17

\* A commit: the holder of the row is alone, and found it as it started from.
LEMMA StoreStep == ASSUME IInv, NEW w \in Workers, Store(w) PROVE IInv'
<1> USE DEF IInv
<1> DEFINE c == call[w]
<1>1. PICK kept \in [Symbols -> SUBSET Lanes] :
        /\ \A s \in Symbols : kept[s] \subseteq c.gain[s]
        /\ archive' = [s \in Symbols |-> archive[s] \cup kept[s]]
        /\ jobs' = [jobs EXCEPT ![c.job] = RowAfter(c, archive')]
        /\ tries' = [tries EXCEPT ![c.job] =
                       [s \in Symbols |-> IF s \in c.page THEN Bump(@[s]) ELSE @[s]]]
  BY DEF Store
<1> DEFINE row == jobs[c.job]
           new == RowAfter(c, archive')
<1>2. /\ w \in Storing /\ call' = [call EXCEPT ![w] = Idle] /\ aborts' = aborts
  BY DEF Store, Storing
<1>3. /\ call \in [Workers -> Calls] /\ jobs \in [Jobs -> JobRows]
      /\ tries \in [Jobs -> [Symbols -> 0 .. 2]]
      /\ archive \in [Symbols -> SUBSET Lanes]
  BY DEF TypeOK
<1>4. /\ c.job \in Jobs /\ c \in Calls /\ c.page \subseteq Unserved(w)
      /\ row.status = "running" /\ row.cursor = c.cursor
  BY <1>2, <1>3
  DEF KnownJob, HolderValid, Valid, PageFirst, Prefix, Working, Storing, Fetched
<1>5. /\ new \in JobRows /\ new.symbols = row.symbols
      /\ new.status \in {"running", "completed"}
      /\ \A s \in row.symbols :
            (new.status = "completed" \/ s <= new.cursor)
            <=> (s <= row.cursor \/ s \in c.page)
  BY <1>2, RowServes
<1>6. /\ jobs'[c.job] = new /\ \A j \in Jobs \ {c.job} : jobs'[j] = jobs[j]
      /\ \A s \in Symbols :
            tries'[c.job][s] = IF s \in c.page THEN Bump(tries[c.job][s])
                               ELSE tries[c.job][s]
      /\ \A j \in Jobs \ {c.job} : tries'[j] = tries[j]
  <2> HIDE DEF c
  <2> QED
    BY <1>1, <1>3, <1>4
<1>7. \A n \in 0 .. 2 : Bump(n) \in 0 .. 2
  BY DEF Bump
<1>8. Idle \in Calls
  <2>1. 0 \in Cursors /\ {} \in Pages
    BY CountsAssumption, FS_EmptySet DEF Cursors, Pages
  <2> QED
    BY <2>1 DEF Idle, Calls, Phases, NoGain
<1>9. TypeOK'
  <2>1. jobs' \in [Jobs -> JobRows]
    BY <1>1, <1>3, <1>4, <1>5
  <2>2. tries' \in [Jobs -> [Symbols -> 0 .. 2]]
    <3> DEFINE now == [s \in Symbols |-> IF s \in c.page THEN Bump(tries[c.job][s])
                                        ELSE tries[c.job][s]]
    <3>1. now \in [Symbols -> 0 .. 2]
      BY <1>3, <1>4, <1>7
    <3>2. tries' = [tries EXCEPT ![c.job] = now]
      BY <1>1, <1>3, <1>4
    <3> QED
      BY <3>1, <3>2, <1>3
  <2>3. archive' \in [Symbols -> SUBSET Lanes]
    BY <1>1, <1>3
  <2>4. call' \in [Workers -> Calls]
    BY <1>2, <1>3, <1>8
  <2> QED
    BY <2>1, <2>2, <2>3, <2>4, <1>2 DEF TypeOK
<1>10. CursorCountsPages'
  <2> SUFFICES ASSUME NEW j \in Jobs, NEW s \in Symbols
               PROVE  tries'[j][s] = IF /\ s \in jobs'[j].symbols
                                        /\ jobs'[j].status = "completed"
                                           \/ s <= jobs'[j].cursor
                                     THEN 1 ELSE 0
    BY DEF CursorCountsPages
  <2>1. CASE j # c.job
    BY <2>1, <1>6 DEF CursorCountsPages
  <2>2. CASE j = c.job
    <3>1. /\ tries[j][s] = (IF s \in row.symbols /\ s <= row.cursor THEN 1 ELSE 0)
      BY <2>2, <1>4 DEF CursorCountsPages
    <3>2. s \in c.page => s \in row.symbols /\ ~(s <= row.cursor)
      <4>1. \A r \in Symbols : r \in Int
        BY DEF Symbols
      <4>2. c.cursor \in Int
        BY <1>4, CountsAssumption DEF Calls, Cursors
      <4> QED
        BY <4>1, <4>2, <1>4 DEF Unserved, After
    <3>3. Bump(0) = 1
      BY DEF Bump
    <3>4. s \in row.symbols =>
            ((new.status = "completed" \/ s <= new.cursor)
             <=> (s <= row.cursor \/ s \in c.page))
      BY <1>5
    <3>5. /\ jobs'[j] = new /\ new.symbols = row.symbols
          /\ tries'[j][s] = IF s \in c.page THEN Bump(tries[j][s]) ELSE tries[j][s]
      BY <2>2, <1>5, <1>6
    <3> HIDE DEF c, row, new
    <3> QED
      BY <3>1, <3>2, <3>3, <3>4, <3>5
  <2> QED
    BY <2>1, <2>2
<1>11. Running' \subseteq Running
  <2> HIDE DEF new
  <2> QED
    BY <1>4, <1>6 DEF Running
<1>12. OneOpen' /\ NothingOpen' /\ OneCreator'
  <2>1. /\ \A v \in Workers : call'[v].phase = "creating" =>
                              call[v].phase = "creating"
        /\ Creators' \subseteq Creators
    BY <1>2, <1>3 DEF Creators, Idle
  <2> QED
    BY <2>1, <1>11 DEF OneOpen, NothingOpen, OneCreator
<1>13. ASSUME NEW v \in Workers, call'[v].phase # "idle"
       PROVE  v # w /\ call'[v] = call[v]
  BY <1>13, <1>2, <1>3 DEF Idle
<1>14. OneHolder' /\ KnownJob'
  <2>1. /\ \A v \in Storing' : v \in Storing /\ call'[v] = call[v]
        /\ \A v \in Working' : v \in Working /\ call'[v] = call[v]
    BY <1>13 DEF Storing, Working
  <2> QED
    BY <2>1 DEF OneHolder, KnownJob
<1>15. HolderValid'
  <2> SUFFICES ASSUME NEW v \in Storing' PROVE Valid(call[v].job, call[v].cursor)'
    BY DEF HolderValid
  <2>1. v # w /\ call'[v] = call[v] /\ v \in Storing /\ v \in Working
    BY <1>13 DEF Storing, Working
  <2>2. call[v].job # c.job /\ call[v].job \in Jobs
    BY <2>1, <1>2 DEF OneHolder, KnownJob
  <2>3. jobs'[call[v].job] = jobs[call[v].job]
    BY <2>2, <1>6
  <2> QED
    BY <2>1, <2>3 DEF HolderValid, Valid
<1>16. PageFirst'
  <2> SUFFICES ASSUME NEW v \in Fetched'
               PROVE  /\ Prefix(call[v].page, Unserved(v))'
                      /\ (Unserved(v) # {} => call[v].page # {})'
    BY DEF PageFirst
  <2>1. call'[v] = call[v] /\ v \in Fetched /\ call[v].job \in Jobs
    BY <1>13 DEF Fetched, KnownJob, Working
  <2>2. jobs'[call[v].job].symbols = jobs[call[v].job].symbols
    BY <2>1, <1>5, <1>6
  <2>3. Unserved(v)' = Unserved(v)
    BY <2>1, <2>2 DEF Unserved
  <2> QED
    BY <2>1, <2>3 DEF PageFirst
<1> QED
  BY <1>9, <1>10, <1>12, <1>14, <1>15, <1>16

\* Every step keeps it.
LEMMA NextIInv == IInv /\ [Next]_vars => IInv'
<1> SUFFICES ASSUME IInv, [Next]_vars PROVE IInv'
  OBVIOUS
<1>1. /\ call \in [Workers -> Calls] /\ jobs \in [Jobs -> JobRows]
      /\ archive \in [Symbols -> SUBSET Lanes] /\ aborts \in 0 .. MaxAborts
  BY DEF IInv, TypeOK
<1>2. 0 \in Cursors /\ {} \in Pages
  BY CountsAssumption, FS_EmptySet DEF Cursors, Pages
<1>3. Idle \in Calls /\ Idle.phase = "idle"
  BY <1>2 DEF Idle, Calls, Phases, NoGain
<1>4. ASSUME NEW w \in Workers, BeginPage(w) PROVE IInv'
  <2>1. PICK j \in Jobs, cursor \in Cursors :
           call' = [call EXCEPT ![w].phase = "fetching", ![w].job = j, ![w].cursor = cursor]
    BY <1>4 DEF BeginPage
  <2> DEFINE new == [call[w] EXCEPT !.phase = "fetching", !.job = j, !.cursor = cursor]
  <2>2. new \in Calls /\ new.phase = "fetching" /\ new.job = j
    BY <1>1 DEF Calls, Phases
  <2>3. call' = [call EXCEPT ![w] = new]
    BY <2>1, <1>1
  <2>4. UNCHANGED <<jobs, archive, tries>> /\ aborts' \in 0 .. MaxAborts
    BY <1>4, <1>1 DEF BeginPage
  <2> HIDE DEF new
  <2> QED
    BY <2>2, <2>3, <2>4, FreeStep
<1>5. ASSUME NEW w \in Workers, BeginResume(w) PROVE IInv'
  <2> DEFINE new == [call[w] EXCEPT !.phase = "queued", !.resume = TRUE]
  <2>1. new \in Calls /\ new.phase = "queued"
    BY <1>1 DEF Calls, Phases
  <2>2. call' = [call EXCEPT ![w] = new]
    BY <1>5, <1>1 DEF BeginResume
  <2>3. UNCHANGED <<jobs, archive, tries>> /\ aborts' \in 0 .. MaxAborts
    BY <1>5, <1>1 DEF BeginResume
  <2> HIDE DEF new
  <2> QED
    BY <2>1, <2>2, <2>3, FreeStep
<1>6. ASSUME NEW w \in Workers, BeginCreate(w) PROVE IInv'
  <2>1. PICK want \in SUBSET Symbols :
           call' = [call EXCEPT ![w].phase = "queued", ![w].want = want]
    BY <1>6 DEF BeginCreate
  <2> DEFINE new == [call[w] EXCEPT !.phase = "queued", !.want = want]
  <2>2. new \in Calls /\ new.phase = "queued"
    BY <1>1 DEF Calls, Phases
  <2>3. call' = [call EXCEPT ![w] = new]
    BY <2>1, <1>1
  <2>4. UNCHANGED <<jobs, archive, tries>> /\ aborts' \in 0 .. MaxAborts
    BY <1>6, <1>1 DEF BeginCreate
  <2> HIDE DEF new
  <2> QED
    BY <2>2, <2>3, <2>4, FreeStep
<1>7. ASSUME NEW w \in Workers, Acquire(w) PROVE IInv'
  <2> DEFINE new == [call[w] EXCEPT !.phase = "selecting"]
  <2>1. new \in Calls /\ new.phase = "selecting"
    BY <1>1 DEF Calls, Phases
  <2>2. call' = [call EXCEPT ![w] = new]
    BY <1>7, <1>1 DEF Acquire
  <2>3. \A v \in Creators : v = w
    BY <1>7 DEF Acquire, SchedulerFree, Creators
  <2>4. UNCHANGED <<jobs, archive, tries>> /\ aborts' \in 0 .. MaxAborts
    BY <1>7, <1>1 DEF Acquire
  <2>5. /\ new.phase # "creating" /\ new.phase # "storing"
        /\ new.phase \notin {"fetching", "guarding", "storing"}
        /\ new.phase \notin {"guarding", "storing"}
    BY <2>1
  <2> HIDE DEF new
  <2> QED
    BY <2>1, <2>2, <2>3, <2>4, <2>5, CallStep
<1>8. ASSUME NEW w \in Workers, SelectRunning(w) PROVE IInv'
  <2>1. UNCHANGED <<jobs, archive, tries>> /\ aborts' \in 0 .. MaxAborts
    BY <1>8, <1>1 DEF SelectRunning
  <2>2. \A v \in Creators : v = w
    BY <1>8 DEF SelectRunning, IInv, OneCreator, Creators
  <2>3. ASSUME Running = {}, call' = [call EXCEPT ![w].phase = "creating"]
        PROVE  IInv'
    <3> DEFINE new == [call[w] EXCEPT !.phase = "creating"]
    <3>1. new \in Calls /\ new.phase = "creating"
      BY <1>1 DEF Calls, Phases
    <3>2. call' = [call EXCEPT ![w] = new]
      BY <2>3, <1>1
    <3>3. /\ new.phase # "storing"
          /\ new.phase \notin {"fetching", "guarding", "storing"}
          /\ new.phase \notin {"guarding", "storing"}
      BY <3>1
    <3> HIDE DEF new
    <3> QED
      BY <2>1, <2>2, <2>3, <3>1, <3>2, <3>3, CallStep
  <2>4. ASSUME NEW j \in Running,
               call' = [call EXCEPT ![w] =
                 IF call[w].resume
                 THEN [Idle EXCEPT !.phase = "fetching", !.job = j,
                                   !.cursor = jobs[j].cursor]
                 ELSE Idle]
        PROVE  IInv'
    <3> DEFINE new == [Idle EXCEPT !.phase = "fetching", !.job = j,
                                   !.cursor = jobs[j].cursor]
    <3>1. j \in Jobs /\ jobs[j].cursor \in Cursors
      BY <1>1 DEF Running, JobRows
    <3>2. new \in Calls /\ new.phase = "fetching" /\ new.job = j
      BY <1>2, <3>1 DEF Idle, Calls, Phases, NoGain
    <3>3. CASE call[w].resume
      <4>1. call' = [call EXCEPT ![w] = new]
        BY <2>4, <3>3
      <4> HIDE DEF new
      <4> QED
        BY <4>1, <3>1, <3>2, <2>1, FreeStep
    <3>4. CASE ~call[w].resume
      <4>1. call' = [call EXCEPT ![w] = Idle]
        BY <2>4, <3>4
      <4> QED
        BY <4>1, <2>1, EndStep
    <3> QED
      BY <3>3, <3>4
  <2> QED
    BY <1>8, <2>3, <2>4 DEF SelectRunning
<1>9. ASSUME NEW w \in Workers, Fetch(w) PROVE IInv'
  <2>1. PICK limit \in 1 .. Limit, gain \in [Symbols -> SUBSET Lanes] :
           call' = [call EXCEPT ![w].phase = "guarding",
                      ![w].page = Page(call[w].job, call[w].cursor, limit), ![w].gain = gain]
    BY <1>9 DEF Fetch
  <2> DEFINE page == Page(call[w].job, call[w].cursor, limit)
             new  == [call[w] EXCEPT !.phase = "guarding", !.page = page, !.gain = gain]
  <2>2. w \in Working /\ call[w].job \in Jobs
    BY <1>9 DEF Fetch, Working, IInv, KnownJob
  <2>3. /\ After(jobs[call[w].job].symbols, call[w].cursor) \in SUBSET Symbols
        /\ limit \in Nat \ {0} /\ Limit \in Nat /\ limit <= Limit
    BY <2>2, <1>1, CountsAssumption DEF After, JobRows
  <2>4. /\ Prefix(page, Unserved(w)) /\ (Unserved(w) # {} => page # {})
        /\ Cardinality(page) <= limit /\ page \subseteq Symbols
    BY <2>3, FirstOfPrefix DEF Page, Unserved, Prefix
  <2>5. page \in Pages
    <3>1. IsFiniteSet(Symbols)
      BY FS_Interval, CountsAssumption DEF Symbols
    <3>2. Cardinality(page) \in Nat
      BY <3>1, <2>4, FS_Subset, FS_CardinalityType
    <3> QED
      BY <3>2, <2>3, <2>4 DEF Pages
  <2>6. /\ new \in Calls /\ new.phase = "guarding" /\ new.page = page
        /\ new.job = call[w].job /\ new.cursor = call[w].cursor
    <3> HIDE DEF page
    <3> QED
      BY <2>5, <1>1 DEF Calls, Phases
  <2>7. call' = [call EXCEPT ![w] = new]
    BY <2>1, <1>1
  <2>8. UNCHANGED <<jobs, archive, tries>> /\ aborts' \in 0 .. MaxAborts
    BY <1>9, <1>1 DEF Fetch
  <2>9. Unserved(w) = After(jobs[new.job].symbols, new.cursor)
    BY <2>6 DEF Unserved
  <2>10. /\ new.phase \notin {"selecting", "creating"}
         /\ new.phase # "creating" /\ new.phase # "storing" /\ new.job \in Jobs
    BY <2>2, <2>6
  <2> HIDE DEF new, page
  <2>13. new.job = call[w].job /\ new.page = page
    BY <2>6
  <2>11. /\ Prefix(new.page, After(jobs[new.job].symbols, new.cursor))
         /\ After(jobs[new.job].symbols, new.cursor) # {} => new.page # {}
    BY <2>4, <2>9, <2>13
  <2>12. new \in Calls
    BY <2>6
  <2> QED
    BY <2>7, <2>8, <2>10, <2>11, <2>12, CallStep
<1>10. ASSUME NEW w \in Workers, Guard(w) PROVE IInv'
  <2> DEFINE new == [call[w] EXCEPT !.phase = "storing"]
  <2>1. UNCHANGED <<jobs, archive, tries>> /\ aborts' \in 0 .. MaxAborts
    BY <1>10, <1>1 DEF Guard
  <2>2. CASE Valid(call[w].job, call[w].cursor)
    <3>1. /\ new \in Calls /\ new.phase = "storing" /\ new.page = call[w].page
          /\ new.job = call[w].job /\ new.cursor = call[w].cursor
      BY <1>1 DEF Calls, Phases
    <3>2. call' = [call EXCEPT ![w] = new]
      BY <1>10, <2>2 DEF Guard
    <3>3. w \in Fetched /\ w \in Working
      BY <1>10 DEF Guard, Fetched, Working
    <3>4. /\ Prefix(new.page, After(jobs[new.job].symbols, new.cursor))
          /\ After(jobs[new.job].symbols, new.cursor) # {} => new.page # {}
          /\ new.job \in Jobs
      BY <3>1, <3>3 DEF IInv, PageFirst, Unserved, KnownJob
    <3>5. \A v \in Storing : call[v].job = new.job => v = w
      BY <1>10, <3>1 DEF Guard, RowFree, Storing
    <3> HIDE DEF new
    <3> QED
      BY <2>1, <2>2, <3>1, <3>2, <3>4, <3>5, CallStep
  <2>3. CASE ~Valid(call[w].job, call[w].cursor)
    <3>1. call' = [call EXCEPT ![w] = Idle]
      BY <1>10, <2>3 DEF Guard
    <3> QED
      BY <3>1, <2>1, EndStep
  <2> QED
    BY <2>2, <2>3
<1>11. ASSUME NEW w \in Workers, Abort(w) PROVE IInv'
  <2>1. aborts' \in 0 .. MaxAborts
    BY <1>11, <1>1, CountsAssumption DEF Abort
  <2>2. UNCHANGED <<jobs, archive, tries>> /\ call' = [call EXCEPT ![w] = Idle]
    BY <1>11 DEF Abort
  <2> QED
    BY <2>1, <2>2, EndStep
<1>12. CASE RefreshOfficial
  BY <1>12
  DEF RefreshOfficial, IInv, TypeOK, CursorCountsPages, OneOpen, OneCreator, NothingOpen,
      OneHolder, KnownJob, HolderValid, PageFirst, Running, Creators, Storing, Working,
      Fetched, Valid, Unserved
<1>13. CASE UNCHANGED vars
  BY <1>13
  DEF vars, IInv, TypeOK, CursorCountsPages, OneOpen, OneCreator, NothingOpen,
      OneHolder, KnownJob, HolderValid, PageFirst, Running, Creators, Storing, Working,
      Fetched, Valid, Unserved
<1> QED
  BY <1>4, <1>5, <1>6, <1>7, <1>8, <1>9, <1>10, <1>11, <1>12, <1>13, CreateStep, StoreStep
  DEF Next, Begin, Wait, Work

-----------------------------------------------------------------------------
(* It takes the steps of the abstract queue *)

\* A new job opens the queue: nothing else was open.
LEMMA CreateOpens == ASSUME IInv, NEW w \in Workers, CreateJob(w) PROVE Queue!Open
<1>1. PICK j \in Forgotten, managed \in SUBSET Symbols :
        jobs' = [jobs EXCEPT ![j] =
             [status |-> "running", cursor |-> 0,
              symbols |-> Pending(IF call[w].want # {} THEN call[w].want ELSE managed)]]
  BY DEF CreateJob
<1> DEFINE symbols == Pending(IF call[w].want # {} THEN call[w].want ELSE managed)
<1>2. call \in [Workers -> Calls] /\ jobs \in [Jobs -> JobRows] /\ j \in Jobs
  BY <1>1 DEF IInv, TypeOK, Forgotten
<1>3. symbols \subseteq Symbols
  BY <1>2 DEF Pending, Calls
<1>4. Running = {}
  BY DEF CreateJob, IInv, NothingOpen
<1>5. Running' = {j} /\ jobs'[j].symbols = symbols /\ jobs'[j].cursor = 0
  BY <1>1, <1>2, <1>4 DEF Running
<1>6. Left = {} /\ Left' = {After(symbols, 0)}
  BY <1>4, <1>5 DEF Left
<1>7. After(symbols, 0) \in SUBSET Symbols
  BY <1>3 DEF After
<1> QED
  BY <1>6, <1>7 DEF Queue!Open

\* A commit serves a page of the queue.
LEMMA StoreServes == ASSUME IInv, NEW w \in Workers, Store(w) PROVE Queue!Serve
<1> DEFINE c    == call[w]
           page == c.page
           left == Unserved(w)
           row  == RowAfter(c, archive')
<1>1. w \in Storing /\ w \in Fetched /\ w \in Working
  BY DEF Store, Storing, Fetched, Working
<1>2. /\ c \in Calls /\ c.job \in Jobs /\ jobs \in [Jobs -> JobRows]
      /\ jobs[c.job].status = "running" /\ jobs[c.job].cursor = c.cursor
  BY <1>1 DEF IInv, TypeOK, KnownJob, HolderValid, Valid
<1>3. Running = {c.job} /\ Left = {left}
  <2>1. Running = {c.job}
    BY <1>2 DEF IInv, OneOpen, Running
  <2> QED
    BY <2>1, <1>2 DEF Left, Unserved
<1>4. jobs' = [jobs EXCEPT ![c.job] = row]
  BY DEF Store
<1>5. /\ row \in JobRows /\ row.symbols = jobs[c.job].symbols
      /\ row.status \in {"running", "completed"}
      /\ row.status = "completed" <=> left \subseteq page
      /\ \A s \in row.symbols : (row.status = "completed" \/ s <= row.cursor)
                                <=> (s <= c.cursor \/ s \in page)
  BY <1>1, <1>2, RowServes
<1> HIDE DEF row
<1>6. /\ page \in Pages /\ page \subseteq left
      /\ left # {} => page # {}
      /\ \A s \in page, t \in left \ page : s < t
  BY <1>1, <1>2 DEF IInv, PageFirst, Prefix, Calls
<1>7. Left' = IF left = page THEN {} ELSE {left \ page}
  <2>1. jobs'[c.job] = row /\ \A j \in Jobs \ {c.job} : jobs'[j] = jobs[j]
    BY <1>4, <1>2
  <2>2. Running' = IF row.status = "running" THEN {c.job} ELSE {}
    BY <2>1, <1>2, <1>3 DEF Running
  <2>3. CASE row.status = "completed"
    BY <2>2, <2>3, <1>5, <1>6 DEF Left
  <2>4. CASE row.status = "running"
    <3>1. left # page /\ Running' = {c.job}
      BY <2>2, <2>4, <1>5
    <3>2. Left' = {After(row.symbols, row.cursor)}
      BY <3>1, <2>1 DEF Left
    <3>3. /\ \A s \in row.symbols : s \in Int
          /\ row.cursor \in Int /\ c.cursor \in Int
      BY <1>2, <1>5, CountsAssumption DEF JobRows, Calls, Symbols, Cursors
    <3>4. \A s \in row.symbols : s > row.cursor <=> (s > c.cursor /\ s \notin page)
      BY <3>3, <2>4, <1>5
    <3>5. After(row.symbols, row.cursor) = left \ page
      BY <3>4, <1>5 DEF After, Unserved
    <3> QED
      BY <3>1, <3>2, <3>5
  <2> QED
    BY <2>3, <2>4, <1>5
<1>8. Queue!PageOf(left, page)
  <2> HIDE DEF page, left
  <2> QED
    BY <1>6 DEF Queue!PageOf
<1> QED
  BY <1>3, <1>6, <1>7, <1>8 DEF Queue!Serve

\* No other step changes the rows.
LEMMA StepServes == IInv /\ [Next]_vars => [Queue!Next]_Left
<1> SUFFICES ASSUME IInv, [Next]_vars PROVE Queue!Next \/ Left' = Left
  OBVIOUS
<1>1. ASSUME NEW w \in Workers, CreateJob(w) PROVE Queue!Next
  BY <1>1, CreateOpens DEF Queue!Next
<1>2. ASSUME NEW w \in Workers, Store(w) PROVE Queue!Next
  BY <1>2, StoreServes DEF Queue!Next
<1>3. ASSUME jobs' = jobs PROVE Left' = Left
  BY <1>3 DEF Left, Running
<1>4. ASSUME NEW w \in Workers,
             Begin(w) \/ Wait(w) \/ Fetch(w) \/ Abort(w)
      PROVE  jobs' = jobs
  BY <1>4
  DEF Begin, BeginPage, BeginResume, BeginCreate, Wait, Acquire, SelectRunning, Guard,
      Fetch, Abort
<1>5. RefreshOfficial \/ UNCHANGED vars => jobs' = jobs
  BY DEF RefreshOfficial, vars
<1> QED
  BY <1>1, <1>2, <1>3, <1>4, <1>5 DEF Next, Work

-----------------------------------------------------------------------------
(* Theorems *)

\* Every reachable state satisfies the inductive invariant: the locks exclude what
\* they are for, and a request that holds the row of a job holds it as it found it.
THEOREM Inductive == Spec => []IInv
BY InitIInv, NextIInv, PTL DEF Spec

\* Type correctness: the rows, the requests and the histories stay what they are
\* declared to be.
THEOREM TypeCorrect == Spec => []TypeOK
BY Inductive, PTL DEF IInv

\* However many requests race to create a job, over any number of workers and job
\* ids, two jobs are never open at once.
THEOREM OneJob == Spec => []OneRunningJob
<1>1. IInv => OneRunningJob
  <2> SUFFICES ASSUME IInv PROVE OneRunningJob
    OBVIOUS
  <2>1. CASE Running = {}
    BY <2>1, FS_EmptySet DEF OneRunningJob
  <2>2. CASE Running # {}
    <3>1. PICK j \in Running : TRUE
      BY <2>2
    <3>2. Running = {j}
      BY <3>1 DEF IInv, OneOpen
    <3> QED
      BY <3>2, FS_Singleton DEF OneRunningJob
  <2> QED
    BY <2>1, <2>2
<1> QED
  BY <1>1, Inductive, PTL

\* Whatever overlaps, repeats or is cut off, each symbol of a job is committed in
\* exactly one page, and the cursor tells which.
THEOREM CursorCounts == Spec => []CursorCountsPages
BY Inductive, PTL DEF IInv

\* Safety half of ServesQueue: all requests together take only steps of the
\* abstract queue, one job at a time, each page a bounded first part of the rest.
THEOREM Serves == Spec => Queue!Spec
<1>1. Init => Queue!Init
  BY DEF Init, NoRow, Running, Left, Queue!Init
<1> QED
  BY <1>1, StepServes, Inductive, PTL DEF Spec, Queue!Spec
=============================================================================
