-------------------------- MODULE ObservationProofs --------------------------
(***************************************************************************)
(* Proofs about ActiveEtf, for any funds, pages, days and listings: what   *)
(* the archive shows of a fund is what its page said, whatever fails or    *)
(* stops half-way, no refresh forgets a history, and the readings of a day *)
(* and of an interval agree with it and with each other.  And about        *)
(* ResearchValidation, for any candidates, markets, sources and threads:   *)
(* what is stored of a window is what became of it, whatever the sources   *)
(* lack, and what official evidence has settled stays.                     *)
(***************************************************************************)
EXTENDS Observations, FiniteSetTheorems, WellFoundedInduction, TLAPS

-----------------------------------------------------------------------------
(* Sets of days *)

\* The days of S up to d.
Upto(S, d) == {e \in S : e <= d}

\* Days of T of which none before the last is missing.
InitialPart(P, T) == P \subseteq T /\ \A d \in P, e \in T : e <= d => e \in P

\* A nonempty set of natural numbers has a least element.
LEMMA LeastNat ==
    ASSUME NEW T \in SUBSET Nat, T # {}
    PROVE  \E x \in T : \A y \in T : x <= y
<1>1. PICK x \in T : \A y \in T : ~(<<y, x>> \in OpToRel(<, Nat))
  BY WFMin, NatLessThanWellFounded
<1>2. ASSUME NEW y \in T PROVE x <= y
  <2>1. x \in Nat /\ y \in Nat
    OBVIOUS
  <2>2. ~(y < x)
    BY <1>1, <2>1, Zenon DEF OpToRel
  <2> QED
    BY <2>1, <2>2
<1> QED
  BY <1>2

\* Sets of days are finite, and so are their parts.
LEMMA DaysFinite ==
    ASSUME NEW n \in Nat, NEW S \in SUBSET (0 .. n)
    PROVE  /\ IsFiniteSet(S) /\ Cardinality(S) \in Nat
           /\ \A d : /\ IsFiniteSet(Upto(S, d)) /\ Cardinality(Upto(S, d)) \in Nat
                     /\ Cardinality(Upto(S, d)) <= Cardinality(S)
<1>1. IsFiniteSet(0 .. n)
  BY FS_Interval
<1>2. IsFiniteSet(S)
  BY <1>1, FS_Subset
<1>3. \A d : Upto(S, d) \in SUBSET S
  BY DEF Upto
<1> QED
  BY <1>2, <1>3, FS_Subset, FS_CardinalityType

\* The n-th day of a set that has as many is one of it.
LEMMA SomeDayIsNth ==
    ASSUME NEW n \in Nat, NEW S \in SUBSET (0 .. n), NEW w \in Nat \ {0},
           Cardinality(S) >= w
    PROVE  \E m \in S : Cardinality(Upto(S, m)) = w
<1> DEFINE count(d) == Cardinality(Upto(S, d))
           T == {d \in 0 .. n : count(d) >= w}
<1> HIDE DEF count, T
<1>1. \A d : IsFiniteSet(Upto(S, d)) /\ count(d) \in Nat
  BY DaysFinite DEF count
<1>8. \A d \in S : d \in Int /\ 0 <= d /\ d <= n
  OBVIOUS
<1>9. \A d : d \in T <=> d \in 0 .. n /\ count(d) >= w
  BY DEF T
<1>2. Upto(S, n) = S
  BY <1>8 DEF Upto
<1>3. n \in T
  BY <1>2, <1>9 DEF count
<1>4. PICK m \in T : \A d \in T : m <= d
  <2>1. T \in SUBSET Nat
    BY <1>9
  <2> QED
    BY <1>3, <2>1, LeastNat
<1>5. m \in 0 .. n /\ count(m) >= w
  BY <1>9
<1>6. m \in S /\ count(m) = w
  <2>1. CASE m = 0
    <3>5. \A d \in S : d <= m => d = 0
      BY <1>8, <2>1
    <3>1. Upto(S, m) \subseteq {0}
      BY <3>5 DEF Upto
    <3>2. count(m) <= 1
      <4>1. IsFiniteSet({0}) /\ Cardinality({0}) = 1
        BY FS_Singleton
      <4> QED
        BY <3>1, <4>1, FS_Subset DEF count
    <3>3. count(m) = 1 /\ w = 1
      BY <3>2, <1>1, <1>5
    <3>4. Upto(S, m) # {}
      BY <3>3, FS_EmptySet DEF count
    <3> QED
      BY <3>1, <3>3, <3>4, <2>1 DEF Upto
  <2>2. CASE m > 0
    <3>1. m - 1 \in 0 .. n /\ ~(m <= m - 1)
      BY <1>5, <2>2
    <3>2. count(m - 1) < w
      <4>1. m - 1 \notin T
        BY <1>4, <3>1
      <4> QED
        BY <4>1, <3>1, <1>1, <1>9
    <3>5. \A d \in S : d <= m <=> d <= m - 1 \/ d = m
      BY <1>5, <1>8
    <3>3. CASE m \notin S
      <4>1. Upto(S, m) = Upto(S, m - 1)
        BY <3>3, <3>5 DEF Upto
      <4>2. count(m) = count(m - 1)
        BY <4>1 DEF count
      <4> QED
        BY <4>2, <3>2, <1>5, <1>1
    <3>4. CASE m \in S
      <4>1. Upto(S, m) = Upto(S, m - 1) \cup {m} /\ m \notin Upto(S, m - 1)
        BY <3>4, <3>1, <3>5 DEF Upto
      <4>2. count(m) = count(m - 1) + 1
        BY <4>1, <1>1, FS_AddElement DEF count
      <4> QED
        BY <4>2, <3>2, <3>4, <1>5, <1>1
    <3> QED
      BY <3>3, <3>4
  <2> QED
    BY <1>5, <2>1, <2>2
<1> QED
  BY <1>6 DEF count

\* The first and the last day of a set of days.
LEMMA LeastDay ==
    ASSUME NEW T \in SUBSET Nat, T # {}
    PROVE  Min(T) \in T /\ \A d \in T : Min(T) <= d
<1>1. \E x \in T : \A y \in T : x <= y
  BY LeastNat
<1> QED
  BY <1>1 DEF Min

\* ... and the last of those up to a day.
LEMMA GreatestDay ==
    ASSUME NEW n \in Nat, NEW T \in SUBSET (0 .. n), T # {}
    PROVE  Max(T) \in T /\ \A d \in T : d <= Max(T)
<1> DEFINE U == {n - d : d \in T}
<1>0. \A d \in T : d \in Int /\ 0 <= d /\ d <= n
  OBVIOUS
<1>1. U \in SUBSET Nat /\ U # {}
  <2>1. \A d \in T : n - d \in Nat
    BY <1>0
  <2> QED
    BY <2>1
<1>2. PICK x \in U : \A y \in U : x <= y
  BY <1>1, LeastNat
<1>3. PICK d \in T : x = n - d
  OBVIOUS
<1>4. \A e \in T : d >= e
  <2> SUFFICES ASSUME NEW e \in T PROVE d >= e
    OBVIOUS
  <2>1. n - d <= n - e
    BY <1>2, <1>3
  <2> QED
    BY <2>1, <1>0
<1>5. Max(T) \in T /\ \A e \in T : Max(T) >= e
  BY <1>4 DEF Max
<1> QED
  BY <1>5, <1>0

\* The first days of a set miss none of the days before their last, and more
\* days may only be added after them.
LEMMA FirstAreInitial ==
    ASSUME NEW n \in Nat, NEW T \in SUBSET (0 .. n), NEW w \in Nat
    PROVE  /\ InitialPart(FirstOf(T, w), T)
           /\ \A v \in Nat : v <= w => FirstOf(T, v) \subseteq FirstOf(T, w)
<1>1. \A d : Cardinality(Upto(T, d)) \in Nat /\ IsFiniteSet(Upto(T, d))
  BY DaysFinite
<1>2. FirstOf(T, w) = {d \in T : Cardinality(Upto(T, d)) <= w}
      /\ \A v : FirstOf(T, v) = {d \in T : Cardinality(Upto(T, d)) <= v}
  BY DEF FirstOf, Upto
<1>3. ASSUME NEW d \in FirstOf(T, w), NEW e \in T, e <= d PROVE e \in FirstOf(T, w)
  <2>1. \A x \in T : x \in Int
    OBVIOUS
  <2>2. d \in T /\ Cardinality(Upto(T, d)) <= w
    BY <1>2
  <2>3. Upto(T, e) \subseteq Upto(T, d)
    <3>1. \A x \in T : x <= e => x <= d
      BY <1>3, <2>1, <2>2
    <3> QED
      BY <3>1 DEF Upto
  <2>4. Cardinality(Upto(T, e)) <= Cardinality(Upto(T, d))
    BY <2>3, <1>1, FS_Subset
  <2> QED
    BY <2>2, <2>4, <1>1, <1>2
<1>4. \A v \in Nat : v <= w => FirstOf(T, v) \subseteq FirstOf(T, w)
  BY <1>1, <1>2
<1> QED
  BY <1>2, <1>3, <1>4 DEF InitialPart

\* There are as many as were asked for, when the set has them.
LEMMA FirstAreMany ==
    ASSUME NEW n \in Nat, NEW T \in SUBSET (0 .. n), NEW w \in Nat \ {0}, Cardinality(T) >= w
    PROVE  Cardinality(FirstOf(T, w)) = w
<1>1. PICK m \in T : Cardinality(Upto(T, m)) = w
  BY SomeDayIsNth
<1>2. \A d : Cardinality(Upto(T, d)) \in Nat /\ IsFiniteSet(Upto(T, d))
  BY DaysFinite
<1>3. m \in Int /\ \A d \in T : d \in Int
  OBVIOUS
<1>4. ASSUME NEW d \in T, d <= m PROVE Cardinality(Upto(T, d)) <= w
  <2>1. Upto(T, d) \subseteq Upto(T, m)
    <3>1. \A x \in T : x <= d => x <= m
      BY <1>1, <1>3, <1>4
    <3> QED
      BY <3>1 DEF Upto
  <2> QED
    BY <2>1, <1>1, <1>2, FS_Subset
<1>5. ASSUME NEW d \in T, ~(d <= m) PROVE ~(Cardinality(Upto(T, d)) <= w)
  <2>1. Upto(T, m) \cup {d} \subseteq Upto(T, d) /\ d \notin Upto(T, m)
    <3>1. (\A x \in T : x <= m => x <= d) /\ d <= d
      BY <1>1, <1>3, <1>5
    <3> QED
      BY <3>1, <1>5 DEF Upto
  <2>2. Cardinality(Upto(T, m) \cup {d}) = w + 1
    BY <2>1, <1>1, <1>2, FS_AddElement
  <2>3. w + 1 <= Cardinality(Upto(T, d))
    BY <2>1, <2>2, <1>2, FS_Subset
  <2> QED
    BY <2>3, <1>2
<1>6. FirstOf(T, w) = Upto(T, m)
  BY <1>4, <1>5 DEF FirstOf, Upto
<1> QED
  BY <1>1, <1>6

\* An initial part of n days is the first n days.
LEMMA InitialIsFirst ==
    ASSUME NEW n \in Nat, NEW T \in SUBSET Nat, NEW P \in SUBSET (0 .. n), InitialPart(P, T),
           NEW w \in Nat \ {0}, Cardinality(P) = w
    PROVE  FirstOf(T, w) = P
<1>1. P \subseteq T /\ IsFiniteSet(P)
  BY DaysFinite DEF InitialPart
<1>2. \A d \in T : d \in Int /\ 0 <= d
  OBVIOUS
<1>3. \A d \in T : IsFiniteSet(Upto(T, d)) /\ Cardinality(Upto(T, d)) \in Nat
  <2> SUFFICES ASSUME NEW d \in T
               PROVE  IsFiniteSet(Upto(T, d)) /\ Cardinality(Upto(T, d)) \in Nat
    OBVIOUS
  <2>1. Upto(T, d) \in SUBSET (0 .. d) /\ d \in Nat
    <3>1. \A e \in T : e <= d => e \in 0 .. d
      BY <1>2
    <3> QED
      BY <3>1 DEF Upto
  <2> QED
    BY <2>1, DaysFinite
<1>4. ASSUME NEW d \in P PROVE Cardinality(Upto(T, d)) <= w
  <2>1. Upto(T, d) \subseteq P
    BY DEF Upto, InitialPart
  <2> QED
    BY <2>1, <1>1, FS_Subset
<1>5. ASSUME NEW d \in T, d \notin P PROVE ~(Cardinality(Upto(T, d)) <= w)
  <2>1. \A e \in P : ~(d <= e)
    BY <1>5 DEF InitialPart
  <2>2. P \cup {d} \subseteq Upto(T, d)
    BY <2>1, <1>1, <1>2 DEF Upto
  <2>3. Cardinality(P \cup {d}) = w + 1
    BY <1>1, <1>5, FS_AddElement
  <2>4. w + 1 <= Cardinality(Upto(T, d))
    BY <2>2, <2>3, <1>3, FS_Subset
  <2> QED
    BY <2>4, <1>3
<1> QED
  BY <1>1, <1>4, <1>5 DEF FirstOf, Upto

-----------------------------------------------------------------------------
(* ActiveEtf: the inductive invariant *)

\* A page that parsed on its own date.
Good(p) == p.date \in Nat \ {0} /\ Verdict(p, p.date) = "ok"

\* The tables have an entry per fund and day; a page is dated.
TablesOK ==
    /\ etf \in EtfSettings /\ day <= etf.days
    /\ page = [f \in Funds |-> page[f]] /\ \A f \in Funds : page[f].date \in Nat
    /\ observation = [f \in Funds |-> [d \in Days |-> observation[f][d]]]
    /\ snapshot = [f \in Funds |-> [d \in Days |-> snapshot[f][d]]]

\* A refresh works on registered funds; while it stores, it holds good pages
\* of days that have come.
JobOK ==
    /\ job # Idle => job.left \subseteq Funds /\ \A f \in job.left : registry[f] # "absent"
    /\ job.phase = "store" =>
         /\ job = [phase |-> "store", left |-> job.left, failed |-> job.failed,
                   unpublished |-> job.unpublished, got |-> job.got]
         /\ job.left \subseteq DOMAIN job.got /\ DOMAIN job.got \subseteq Funds
         /\ \A f \in DOMAIN job.got : Good(job.got[f]) /\ job.got[f].date <= day

IInv == TablesOK /\ JobOK /\ HoldingsAreEvidenced

-----------------------------------------------------------------------------
(* ActiveEtf: lemmas *)

\* A nonempty set of funds has a first one in code order.
LEMMA FirstFund ==
    ASSUME NEW T \in SUBSET Funds, T # {}
    PROVE  Min(T) \in T
<1>1. T \subseteq Nat
  BY FundsAreCodes
<1> QED
  BY <1>1, LeastDay

\* A page that parses is good, and dated no later than the day it was parsed.
LEMMA ParsedIsGood ==
    ASSUME NEW p, NEW today \in Nat, p.date \in Nat, Verdict(p, today) = "ok"
    PROVE  Good(p) /\ p.date <= today
<1>1. p.date \in Nat \ {0} /\ ~(p.date > today)
  BY DEF Verdict
<1>2. Verdict(p, p.date) = Verdict(p, today)
  BY <1>1 DEF Verdict
<1> QED
  BY <1>1, <1>2 DEF Good

\* A good page and its snapshot are not what stands for none.
LEMMA GoodIsSome ==
    ASSUME NEW p, Good(p)
    PROVE  p # NoPage /\ Snapshot(p, Holdings(p)) # NoSnapshot
<1>1. NoPage.date = 0
  BY DEF NoPage, Page
<1>2. p # NoPage
  BY <1>1 DEF Good
<1>3. Snapshot(p, Holdings(p)).evidence = p /\ NoSnapshot.evidence = NoPage
  BY DEF Snapshot, NoSnapshot
<1> QED
  BY <1>2, <1>3

\* Pages are dated, whatever they show.
LEMMA PublishedIsDated ==
    ASSUME NEW f, NEW d \in Nat, NEW p \in PagesOf(f, d)
    PROVE  p.date \in Nat
BY DEF PagesOf, Page

\* A listing taken over registers every listed fund and forgets none.
LEMMA SyncedKeeps ==
    ASSUME EtfTypeOK
    PROVE  /\ Synced(listing) \in [Funds -> {"absent", "enabled", "disabled"}]
           /\ \A f \in listing : Synced(listing)[f] = "enabled"
           /\ \A f \in Funds : registry[f] # "absent" => Synced(listing)[f] # "absent"
BY DEF Synced, EtfTypeOK

-----------------------------------------------------------------------------
(* ActiveEtf: initial states and steps *)

LEMMA InitHolds == EtfInit => IInv
<1> SUFFICES ASSUME EtfInit
             PROVE  IInv
  OBVIOUS
<1>1. /\ etf \in EtfSettings /\ day = 1 /\ listing = etf.listed /\ job = Idle
      /\ page = [f \in Funds |-> Page(TRUE, TRUE, 0, <<>>)]
      /\ registry = [f \in Funds |-> "absent"]
      /\ observation = [f \in Funds |-> [d \in Days |-> NoPage]]
      /\ snapshot = [f \in Funds |-> [d \in Days |-> NoSnapshot]]
  BY DEF EtfInit
<1>2. TablesOK
  BY <1>1, EtfSettingsAssumption, EtfBounds DEF TablesOK, Page, Days
<1>3. JobOK
  BY <1>1 DEF JobOK, Idle
<1>4. EtfTypeOK
  BY <1>1, EtfSettingsAssumption, EtfBounds DEF EtfTypeOK, Idle, Stored, Days
<1>5. EvidenceReproduces /\ HistoryHasItsFund /\ ReportedIsStored
  BY <1>1 DEF EvidenceReproduces, HistoryHasItsFund, ReportedIsStored, Idle, Stored
<1> QED
  BY <1>2, <1>3, <1>4, <1>5 DEF IInv, HoldingsAreEvidenced

\* What the exchange, the site and the calendar do leaves the archive alone.
LEMMA OutsideStep ==
    ASSUME IInv, NextDay \/ Relist \/ \E f \in Funds : Publish(f)
    PROVE  IInv'
<1>1. UNCHANGED <<etf, registry, observation, snapshot, job>>
  BY DEF NextDay, Relist, Publish
<1>2. day' \in Days /\ day' >= day /\ day' <= etf.days /\ day \in Nat
  BY EtfSettingsAssumption, EtfBounds
  DEF NextDay, Relist, Publish, IInv, TablesOK, HoldingsAreEvidenced, EtfTypeOK, Days
<1>3. listing' \subseteq Funds
  BY DEF NextDay, Relist, Publish, IInv, HoldingsAreEvidenced, EtfTypeOK
<1>4. page' = [f \in Funds |-> page'[f]] /\ \A f \in Funds : page'[f].date \in Nat
  <2>1. CASE NextDay \/ Relist
    BY <2>1 DEF NextDay, Relist, IInv, TablesOK
  <2>2. ASSUME NEW f \in Funds, Publish(f)
        PROVE  page' = [g \in Funds |-> page'[g]] /\ \A g \in Funds : page'[g].date \in Nat
    <3>1. PICK p \in PagesOf(f, day) : page' = [page EXCEPT ![f] = p]
      BY <2>2 DEF Publish
    <3>2. p.date \in Nat
      BY <1>2, <3>1, PublishedIsDated
    <3> QED
      BY <3>1, <3>2 DEF IInv, TablesOK
  <2> QED
    BY <2>1, <2>2
<1>5. TablesOK'
  BY <1>1, <1>2, <1>4 DEF IInv, TablesOK
<1>6. JobOK'
  <2>1. ASSUME job.phase = "store", NEW f \in DOMAIN job.got
        PROVE  Good(job.got[f]) /\ job.got[f].date <= day'
    <3>1. Good(job.got[f]) /\ job.got[f].date <= day /\ job.got[f].date \in Nat
      BY <2>1 DEF IInv, JobOK, Good
    <3> QED
      BY <1>2, <3>1 DEF Days
  <2> QED
    BY <1>1, <2>1 DEF IInv, JobOK
<1>7. EtfTypeOK'
  BY <1>1, <1>2, <1>3 DEF IInv, HoldingsAreEvidenced, EtfTypeOK, Stored
<1>8. (EvidenceReproduces /\ HistoryHasItsFund /\ ReportedIsStored)'
  BY <1>1 DEF IInv, HoldingsAreEvidenced, EvidenceReproduces, HistoryHasItsFund,
              ReportedIsStored, Stored
<1> QED
  BY <1>5, <1>6, <1>7, <1>8 DEF IInv, HoldingsAreEvidenced

\* A call that begins takes the listing over.
LEMMA BeginStep ==
    ASSUME IInv, BeginSome
    PROVE  IInv'
<1> PICK selected \in SUBSET listing : Begin(selected)
  BY DEF BeginSome
<1>1. /\ UNCHANGED <<etf, day, listing, page, used, observation, snapshot>>
      /\ registry' = Synced(listing) /\ selected \subseteq listing
      /\ job' = [phase |-> "fetch", left |-> selected, failed |-> {}, unpublished |-> {}]
  BY DEF Begin
<1>2. EtfTypeOK /\ listing \subseteq Funds
  BY DEF IInv, HoldingsAreEvidenced, EtfTypeOK
<1>3. TablesOK'
  BY <1>1 DEF IInv, TablesOK
<1>4. JobOK'
  BY <1>1, <1>2, SyncedKeeps DEF JobOK
<1>5. EtfTypeOK'
  BY <1>1, <1>2, SyncedKeeps DEF EtfTypeOK, Stored
<1>6. HistoryHasItsFund'
  BY <1>1, <1>2, SyncedKeeps DEF IInv, HoldingsAreEvidenced, HistoryHasItsFund, Stored
<1>7. (EvidenceReproduces /\ ReportedIsStored)'
  BY <1>1 DEF IInv, HoldingsAreEvidenced, EvidenceReproduces, ReportedIsStored
<1> QED
  BY <1>3, <1>4, <1>5, <1>6, <1>7 DEF IInv, HoldingsAreEvidenced

\* What was fetched has parsed on its day; nothing is reported stored yet.
LEMMA FetchStep ==
    ASSUME IInv, FetchAll \/ FetchSome
    PROVE  IInv'
<1> PICK broken : Fetch(broken)
  BY DEF FetchAll, FetchSome
<1> DEFINE parsed == {f \in job.left \ broken : Verdict(page[f], day) = "ok"}
           absent == {f \in job.left \ broken : Verdict(page[f], day) = "not_published"}
<1>1. /\ job.phase = "fetch"
      /\ UNCHANGED <<etf, day, listing, page, registry, observation, snapshot>>
      /\ job' = [phase |-> "store", left |-> parsed, failed |-> job.left \ (parsed \cup absent),
                 unpublished |-> absent, got |-> [f \in parsed |-> page[f]]]
  BY DEF Fetch
<1>2. job.left \subseteq Funds /\ \A f \in job.left : registry[f] # "absent"
  BY <1>1 DEF IInv, JobOK, Idle
<1>3. \A f \in parsed : Good(page[f]) /\ page[f].date <= day
  <2>1. \A f \in parsed : page[f].date \in Nat /\ Verdict(page[f], day) = "ok"
    BY <1>2 DEF IInv, TablesOK
  <2>2. day \in Nat
    BY EtfBounds DEF IInv, HoldingsAreEvidenced, EtfTypeOK, Days
  <2> QED
    BY <2>1, <2>2, ParsedIsGood
<1>4. parsed \subseteq job.left
  OBVIOUS
<1> HIDE DEF parsed, absent
<1>5. TablesOK'
  BY <1>1 DEF IInv, TablesOK
<1>6. JobOK'
  BY <1>1, <1>2, <1>3, <1>4 DEF JobOK, Good
<1>7. (EtfTypeOK /\ EvidenceReproduces /\ HistoryHasItsFund)'
  BY <1>1 DEF IInv, HoldingsAreEvidenced, EtfTypeOK, EvidenceReproduces, HistoryHasItsFund,
              Stored
<1>8. ReportedIsStored'
  BY <1>1 DEF ReportedIsStored
<1> QED
  BY <1>5, <1>6, <1>7, <1>8 DEF IInv, HoldingsAreEvidenced

\* The transaction of a fund files its page and the page's holdings under the
\* page's date, and nothing else.
LEMMA StoreStep ==
    ASSUME IInv, Store
    PROVE  IInv'
<1> DEFINE f == Min(job.left)
           p == job.got[f]
           new == Snapshot(p, Holdings(p))
<1>1. /\ job.phase = "store" /\ job.left # {}
      /\ UNCHANGED <<etf, day, listing, page, used, registry>>
      /\ observation' = [observation EXCEPT ![f][p.date] = p]
      /\ snapshot' = Upserted(f, p)
      /\ job' = [job EXCEPT !.left = @ \ {f}]
  BY DEF Store, Observed
<1>2. /\ job = [phase |-> "store", left |-> job.left, failed |-> job.failed,
                unpublished |-> job.unpublished, got |-> job.got]
      /\ job.left \subseteq DOMAIN job.got /\ DOMAIN job.got \subseteq Funds
      /\ job.left \subseteq Funds /\ \A g \in job.left : registry[g] # "absent"
      /\ \A g \in DOMAIN job.got : Good(job.got[g]) /\ job.got[g].date <= day
  BY <1>1 DEF IInv, JobOK, Idle
<1>3. f \in job.left
  BY <1>1, <1>2, FirstFund
<1>4. f \in Funds /\ f \in DOMAIN job.got /\ Good(p) /\ p.date <= day /\ registry[f] # "absent"
  BY <1>2, <1>3
<1>5. day \in Days /\ p.date \in Days /\ p.date \in 1..day
  BY <1>4, EtfBounds DEF IInv, HoldingsAreEvidenced, EtfTypeOK, Days, Good
<1>6. p # NoPage /\ new # NoSnapshot /\ new.evidence = p /\ new.holdings = Holdings(p)
  BY <1>4, GoodIsSome DEF Snapshot
<1> HIDE DEF f, p, new
<1>7. /\ job'.phase = "store" /\ job'.left = job.left \ {f} /\ job'.failed = job.failed
      /\ job'.got = job.got /\ job'.unpublished = job.unpublished
      /\ job' = [phase |-> "store", left |-> job.left \ {f}, failed |-> job.failed,
                unpublished |-> job.unpublished, got |-> job.got]
  BY <1>1, <1>2
<1>8. /\ observation = [g \in Funds |-> [d \in Days |-> observation[g][d]]]
      /\ snapshot = [g \in Funds |-> [d \in Days |-> snapshot[g][d]]]
  BY DEF IInv, TablesOK
<1>9. /\ observation' = [g \in Funds |-> [d \in Days |->
                            IF g = f /\ d = p.date THEN p ELSE observation[g][d]]]
      /\ snapshot' = [g \in Funds |-> [d \in Days |->
                            IF g = f /\ d = p.date THEN new ELSE snapshot[g][d]]]
  <2>1. observation' = [g \in Funds |-> [d \in Days |->
                            IF g = f /\ d = p.date THEN p ELSE observation[g][d]]]
    BY <1>1, <1>4, <1>5, <1>8
  <2>2. CASE snapshot[f][p.date] = new
    <3>1. snapshot' = snapshot
      BY <1>1, <2>2 DEF Upserted, new
    <3> QED
      BY <1>4, <1>5, <1>8, <2>1, <2>2, <3>1
  <2>3. CASE snapshot[f][p.date] # new
    <3>1. snapshot' = [snapshot EXCEPT ![f][p.date] = new]
      BY <1>1, <2>3 DEF Upserted, new
    <3> QED
      BY <1>4, <1>5, <1>8, <2>1, <3>1
  <2> QED
    BY <2>2, <2>3
<1>10. TablesOK'
  <2>1. observation' = [g \in Funds |-> [d \in Days |-> observation'[g][d]]]
    BY <1>9
  <2>2. snapshot' = [g \in Funds |-> [d \in Days |-> snapshot'[g][d]]]
    BY <1>9
  <2> QED
    BY <1>1, <2>1, <2>2 DEF IInv, TablesOK
<1>11. JobOK'
  BY <1>1, <1>2, <1>7 DEF JobOK, Good
<1>12. EtfTypeOK'
  <2>1. \A g \in Funds : Stored(g)' \subseteq Stored(g) \cup (IF g = f THEN {p.date} ELSE {})
    BY <1>9 DEF Stored
  <2> QED
    BY <1>1, <1>5, <1>7, <2>1 DEF IInv, HoldingsAreEvidenced, EtfTypeOK
<1>13. EvidenceReproduces'
  <2> SUFFICES ASSUME NEW g \in Funds, NEW d \in Days
               PROVE  /\ (snapshot'[g][d] = NoSnapshot) = (observation'[g][d] = NoPage)
                      /\ snapshot'[g][d] # NoSnapshot =>
                            /\ snapshot'[g][d].evidence = observation'[g][d]
                            /\ observation'[g][d].date = d
                            /\ Verdict(observation'[g][d], d) = "ok"
                            /\ Holdings(observation'[g][d]) = snapshot'[g][d].holdings
    BY DEF EvidenceReproduces
  <2>1. CASE g = f /\ d = p.date
    <3>1. observation'[g][d] = p /\ snapshot'[g][d] = new
      BY <1>9, <2>1
    <3> QED
      BY <1>4, <1>6, <2>1, <3>1 DEF Good
  <2>2. CASE ~(g = f /\ d = p.date)
    <3>1. observation'[g][d] = observation[g][d] /\ snapshot'[g][d] = snapshot[g][d]
      BY <1>9, <2>2
    <3> QED
      BY <3>1 DEF IInv, HoldingsAreEvidenced, EvidenceReproduces
  <2> QED
    BY <2>1, <2>2
<1>14. HistoryHasItsFund'
  <2>1. \A g \in Funds : g # f => Stored(g)' = Stored(g)
    BY <1>9 DEF Stored
  <2> QED
    BY <1>1, <1>4, <2>1 DEF IInv, HoldingsAreEvidenced, HistoryHasItsFund
<1>15. ReportedIsStored'
  <2> SUFFICES ASSUME NEW g \in DOMAIN job.got \ ((job.left \ {f}) \cup job.failed)
               PROVE  snapshot'[g][job.got[g].date] = Snapshot(job.got[g], Holdings(job.got[g]))
    BY <1>7 DEF ReportedIsStored
  <2>1. CASE g = f
    BY <1>4, <1>5, <1>9, <2>1 DEF p, new
  <2>2. CASE g # f
    <3>1. snapshot[g][job.got[g].date] = Snapshot(job.got[g], Holdings(job.got[g]))
      BY <1>1, <2>2 DEF IInv, HoldingsAreEvidenced, ReportedIsStored
    <3>2. g \in Funds /\ job.got[g].date \in Days
      <4>1. job.got[g].date \in Nat \ {0} /\ job.got[g].date <= day
        BY <1>2 DEF Good
      <4> QED
        BY <1>2, <1>5, <4>1, EtfBounds DEF Days
    <3> QED
      BY <1>9, <2>2, <3>1, <3>2
  <2> QED
    BY <2>1, <2>2
<1> QED
  BY <1>10, <1>11, <1>12, <1>13, <1>14, <1>15 DEF IInv, HoldingsAreEvidenced

\* A transaction that fails leaves the archive and is reported as failed.
LEMMA FailStep ==
    ASSUME IInv, StoreFails
    PROVE  IInv'
<1> DEFINE f == Min(job.left)
<1>1. /\ job.phase = "store" /\ job.left # {}
      /\ UNCHANGED <<etf, day, listing, page, registry, observation, snapshot>>
      /\ job' = [job EXCEPT !.left = @ \ {f}, !.failed = @ \cup {f}]
  BY DEF StoreFails
<1>2. /\ job = [phase |-> "store", left |-> job.left, failed |-> job.failed,
                unpublished |-> job.unpublished, got |-> job.got]
      /\ job.left \subseteq Funds
  BY <1>1 DEF IInv, JobOK, Idle
<1> HIDE DEF f
<1>3. job' = [phase |-> "store", left |-> job.left \ {f}, failed |-> job.failed \cup {f},
              unpublished |-> job.unpublished, got |-> job.got]
  BY <1>1, <1>2
<1>4. TablesOK'
  BY <1>1 DEF IInv, TablesOK
<1>5. JobOK'
  BY <1>1, <1>3 DEF IInv, JobOK, Good, Idle
<1>6. (EtfTypeOK /\ EvidenceReproduces /\ HistoryHasItsFund)'
  BY <1>1, <1>3 DEF IInv, HoldingsAreEvidenced, EtfTypeOK, EvidenceReproduces,
                    HistoryHasItsFund, Stored
<1>7. ReportedIsStored'
  BY <1>1, <1>3 DEF IInv, HoldingsAreEvidenced, ReportedIsStored
<1> QED
  BY <1>4, <1>5, <1>6, <1>7 DEF IInv, HoldingsAreEvidenced

\* A call that ends, or is lost, leaves the archive.
LEMMA EndStep ==
    ASSUME IInv, Respond \/ Crash
    PROVE  IInv'
<1>1. UNCHANGED <<etf, day, listing, page, registry, observation, snapshot>> /\ job' = Idle
  BY DEF Respond, Crash
<1>2. TablesOK'
  BY <1>1 DEF IInv, TablesOK
<1>3. JobOK'
  BY <1>1 DEF JobOK, Idle
<1>4. HoldingsAreEvidenced'
  BY <1>1 DEF IInv, HoldingsAreEvidenced, EtfTypeOK, EvidenceReproduces, HistoryHasItsFund,
              ReportedIsStored, Stored, Idle
<1> QED
  BY <1>2, <1>3, <1>4 DEF IInv

\* A refused call and a stuttering step change nothing.
LEMMA StutterStep ==
    ASSUME IInv, Refuse \/ UNCHANGED etfVars
    PROVE  IInv'
<1>1. UNCHANGED <<etf, day, listing, page, registry, observation, snapshot, job>>
  BY DEF Refuse, etfVars
<1>2. TablesOK' /\ JobOK'
  BY <1>1 DEF IInv, TablesOK, JobOK
<1>3. (EtfTypeOK /\ EvidenceReproduces /\ HistoryHasItsFund /\ ReportedIsStored)'
  BY <1>1 DEF IInv, HoldingsAreEvidenced, EtfTypeOK, EvidenceReproduces, HistoryHasItsFund,
              ReportedIsStored, Stored
<1> QED
  BY <1>2, <1>3 DEF IInv, HoldingsAreEvidenced

\* A fund that left the listing is disabled, never absent, and no listing makes
\* the number of enabled funds drop below the allowed share of what it was.
LEMMA StepKeepsHistories ==
    ASSUME IInv, [EtfNext]_etfVars
    PROVE  /\ \A f \in Funds, d \in Days : snapshot[f][d] # NoSnapshot => snapshot'[f][d] # NoSnapshot
           /\ Cardinality(Enabled') * KeptDen >= Cardinality(Enabled) * KeptNum
<1>1. IsFiniteSet(Enabled) /\ Cardinality(Enabled) \in Nat
  <2>1. Enabled \in SUBSET Funds
    BY DEF Enabled
  <2> QED
    BY <2>1, FundsAreCodes, FS_Subset, FS_CardinalityType
<1>2. ASSUME registry' = registry
      PROVE  Cardinality(Enabled') * KeptDen >= Cardinality(Enabled) * KeptNum
  <2>1. Enabled' = Enabled
    BY <1>2 DEF Enabled
  <2>2. \A n, k, l \in Nat : k <= l => n * l >= n * k
    OBVIOUS
  <2> QED
    BY <1>1, <2>1, <2>2, KeptIsAShare
<1>3. ASSUME BeginSome
      PROVE  Cardinality(Enabled') * KeptDen >= Cardinality(Enabled) * KeptNum
  <2>1. registry' = Synced(listing) /\ Covers(listing) /\ listing \subseteq Funds
    BY <1>3 DEF BeginSome, Begin, IInv, HoldingsAreEvidenced, EtfTypeOK
  <2>2. Enabled' = listing
    BY <2>1 DEF Enabled, Synced
  <2> QED
    BY <2>1, <2>2 DEF Covers
<1>4. CASE BeginSome
  BY <1>3, <1>4 DEF BeginSome, Begin
<1>5. CASE Store
  <2> DEFINE f == Min(job.left)
             p == job.got[f]
  <2>1. job.left # {} /\ snapshot' = Upserted(f, p) /\ registry' = registry /\ job.phase = "store"
    BY <1>5 DEF Store
  <2>2. job.left \subseteq Funds /\ job.left \subseteq DOMAIN job.got
        /\ \A g \in DOMAIN job.got : Good(job.got[g])
    BY <2>1 DEF IInv, JobOK, Idle
  <2>3. f \in job.left
    BY <2>1, <2>2, FirstFund
  <2>4. Snapshot(p, Holdings(p)) # NoSnapshot
    BY <2>2, <2>3, GoodIsSome
  <2> HIDE DEF f, p
  <2>5. \A g \in Funds, d \in Days :
            snapshot'[g][d] = snapshot[g][d] \/ snapshot'[g][d] = Snapshot(p, Holdings(p))
    BY <2>1 DEF Upserted, IInv, TablesOK
  <2> QED
    BY <1>2, <2>1, <2>4, <2>5
<1>6. CASE UNCHANGED <<registry, snapshot>>
  BY <1>2, <1>6
<1> QED
  BY <1>4, <1>5, <1>6 DEF EtfNext, etfVars, NextDay, Relist, Publish, Refuse, FetchAll, FetchSome,
                          Fetch, StoreFails, Respond, Crash

-----------------------------------------------------------------------------
(* ActiveEtf: theorems *)

\* The invariant the archive's evidence rests on: a refresh works on registered
\* funds only, and what it holds to store are pages that parsed on a day that
\* has come.
THEOREM Inductive == EtfSpec => []IInv
<1>1. EtfInit => IInv
  BY InitHolds
<1>2. ASSUME IInv, [EtfNext]_etfVars PROVE IInv'
  BY <1>2, OutsideStep, BeginStep, FetchStep, StoreStep, FailStep, EndStep, StutterStep
  DEF EtfNext
<1> QED
  BY <1>1, <1>2, PTL DEF EtfSpec

\* Whatever fails, crashes or is corrected within its day, a stored snapshot is
\* what its stored page says of the date it bears, belongs to a known fund, and
\* is there when a call says so.
THEOREM Evidenced == EtfSpec => []HoldingsAreEvidenced
<1>1. IInv => HoldingsAreEvidenced
  BY DEF IInv
<1> QED
  BY <1>1, Inductive, PTL

\* No refresh forgets a snapshot, and none makes the number of enabled funds drop
\* below the allowed share of what it was.
THEOREM HistoriesKept == EtfSpec => HistoriesAreKept
<1>1. ASSUME IInv, [EtfNext]_etfVars
      PROVE  [ /\ \A f \in Funds, d \in Days : snapshot[f][d] # NoSnapshot => snapshot'[f][d] # NoSnapshot
               /\ Cardinality(Enabled') * KeptDen >= Cardinality(Enabled) * KeptNum ]_etfVars
  BY <1>1, StepKeepsHistories
<1> QED
  BY <1>1, Inductive, PTL DEF EtfSpec, HistoriesAreKept

-----------------------------------------------------------------------------
(* ActiveEtf: the rows of the pages *)

\* Whatever page is shown, fetched or kept has finitely many rows, each with a
\* count of shares.
PagesCounted ==
    /\ \A f \in Funds : Counted(page[f].rows)
    /\ \A f \in Funds, d \in Days : Counted(observation[f][d].rows)
    /\ job.phase = "store" => \A f \in DOMAIN job.got : Counted(job.got[f].rows)

\* Finitely many securities, each held with a count of shares.
Book(h) == IsFiniteSet(DOMAIN h) /\ \A s \in DOMAIN h : h[s] \in Nat

\* A page without rows.
LEMMA NoRows == Counted(<<>>) /\ Counted(NoPage.rows)
<1>1. DOMAIN <<>> = {}
  OBVIOUS
<1> QED
  BY <1>1, FS_EmptySet DEF Counted, NoPage, Page

\* What a site may come to show has counted rows.
LEMMA PublishedIsCounted ==
    ASSUME etf \in EtfSettings, NEW f \in Funds, NEW d \in Nat, NEW p \in PagesOf(f, d)
    PROVE  Counted(p.rows)
<1> DEFINE row == [symbol |-> 1, shares |-> 1, equity |-> TRUE]
<1>1. Counted(<<row>>)
  <2>1. row.shares \in Nat
    OBVIOUS
  <2> HIDE DEF row
  <2>2. DOMAIN <<row>> = {1} /\ <<row>>[1] = row
    OBVIOUS
  <2>3. IsFiniteSet({1})
    BY FS_Singleton
  <2> QED
    BY <2>1, <2>2, <2>3 DEF Counted
<1>2. \A t \in etf.tables[f] : Counted(t)
  BY TablesAreCounted
<1> HIDE DEF row
<1>3. \/ \E t \in etf.tables[f] : p = Page(TRUE, FALSE, d, t)
      \/ p = Page(TRUE, TRUE, d, <<>>) \/ p = Page(FALSE, FALSE, d, <<>>)
      \/ p = Page(TRUE, FALSE, d + 1, <<row>>)
  BY DEF PagesOf, row
<1> QED
  BY <1>1, <1>2, <1>3, NoRows DEF Page

\* The sites show nothing at first.
LEMMA InitCounts == EtfInit => PagesCounted
BY NoRows DEF EtfInit, PagesCounted, Page, Idle

\* A page is fetched and kept as it was shown.
LEMMA StepCounts ==
    ASSUME IInv, PagesCounted, [EtfNext]_etfVars
    PROVE  PagesCounted'
<1>1. day \in Nat /\ etf \in EtfSettings
  BY EtfBounds DEF IInv, TablesOK, HoldingsAreEvidenced, EtfTypeOK, Days
<1>2. ASSUME NEW f \in Funds, Publish(f) PROVE PagesCounted'
  <2>1. PICK p \in PagesOf(f, day) : page' = [page EXCEPT ![f] = p]
    BY <1>2 DEF Publish
  <2>2. Counted(p.rows)
    BY <1>1, <2>1, PublishedIsCounted
  <2>3. \A g \in Funds : page'[g] = IF g = f THEN p ELSE page[g]
    BY <2>1 DEF IInv, TablesOK
  <2>4. UNCHANGED <<observation, job>>
    BY <1>2 DEF Publish
  <2> QED
    BY <2>2, <2>3, <2>4 DEF PagesCounted
<1>3. ASSUME NEW broken, Fetch(broken) PROVE PagesCounted'
  <2>1. UNCHANGED <<page, observation>> /\ job.phase = "fetch"
        /\ \E parsed \in SUBSET job.left : job'.got = [f \in parsed |-> page[f]]
    BY <1>3 DEF Fetch
  <2>2. job.left \subseteq Funds
    BY <2>1 DEF IInv, JobOK, Idle
  <2> QED
    BY <2>1, <2>2 DEF PagesCounted
<1>4. ASSUME Store PROVE PagesCounted'
  <2> DEFINE f == Min(job.left)
             p == job.got[f]
  <2>1. /\ job.phase = "store" /\ job.left # {} /\ page' = page
        /\ observation' = [observation EXCEPT ![f][p.date] = p]
        /\ job' = [job EXCEPT !.left = @ \ {f}]
    BY <1>4 DEF Store, Observed
  <2>2. /\ job = [phase |-> "store", left |-> job.left, failed |-> job.failed,
                  unpublished |-> job.unpublished, got |-> job.got]
        /\ job.left \subseteq DOMAIN job.got /\ job.left \subseteq Funds
    BY <2>1 DEF IInv, JobOK, Idle
  <2>3. f \in job.left
    BY <2>1, <2>2, FirstFund
  <2>4. Counted(p.rows)
    BY <2>1, <2>2, <2>3 DEF PagesCounted
  <2> HIDE DEF f, p
  <2>5. job'.got = job.got
    BY <2>1, <2>2
  <2>6. \A g \in Funds, d \in Days :
            observation'[g][d] = observation[g][d] \/ observation'[g][d] = p
    BY <2>1 DEF IInv, TablesOK
  <2> QED
    BY <2>1, <2>4, <2>5, <2>6 DEF PagesCounted
<1>5. ASSUME StoreFails PROVE PagesCounted'
  <2>1. UNCHANGED <<page, observation>> /\ job.phase = "store"
        /\ job' = [job EXCEPT !.left = @ \ {Min(job.left)}, !.failed = @ \cup {Min(job.left)}]
    BY <1>5 DEF StoreFails
  <2>2. job = [phase |-> "store", left |-> job.left, failed |-> job.failed,
               unpublished |-> job.unpublished, got |-> job.got]
    BY <2>1 DEF IInv, JobOK
  <2>3. job'.got = job.got
    BY <2>1, <2>2
  <2> QED
    BY <2>1, <2>3 DEF PagesCounted
<1>6. CASE UNCHANGED <<page, observation>>
           /\ (job' = job \/ job' = Idle \/ \E selected : Begin(selected))
  BY <1>6 DEF PagesCounted, Idle, Begin
<1> QED
  BY <1>2, <1>3, <1>4, <1>5, <1>6
  DEF EtfNext, etfVars, NextDay, Relist, Refuse, BeginSome, Begin, FetchAll, FetchSome, Respond,
      Crash

\* The holdings a stored snapshot shows are a book.
LEMMA StoredIsBook ==
    ASSUME IInv, PagesCounted, NEW f \in Funds, NEW d \in Stored(f)
    PROVE  d \in Days /\ Book(snapshot[f][d].holdings)
<1> DEFINE p == observation[f][d]
           Name(i) == p.rows[i].symbol
           First(s) == CHOOSE i \in EquityRows(p) : p.rows[i].symbol = s
<1>1. d \in Days /\ snapshot[f][d].holdings = Holdings(p) /\ Counted(p.rows)
  BY DEF IInv, HoldingsAreEvidenced, EvidenceReproduces, Stored, PagesCounted
<1> HIDE DEF p
<1>2. EquityRows(p) \in SUBSET DOMAIN p.rows /\ IsFiniteSet(DOMAIN p.rows)
  BY <1>1 DEF EquityRows, Counted
<1>3. IsFiniteSet(EquityRows(p))
  BY <1>2, FS_Subset
<1>4. IsFiniteSet({Name(i) : i \in EquityRows(p)})
  <2> DEFINE T == {Name(i) : i \in EquityRows(p)}
             g == [i \in EquityRows(p) |-> Name(i)]
  <2> HIDE DEF Name
  <2>1. g \in Surjection(EquityRows(p), T)
    BY DEF Surjection
  <2> QED
    BY <2>1, <1>3, FS_Surjection
<1>5. Holdings(p) = [s \in {Name(i) : i \in EquityRows(p)} |-> p.rows[First(s)].shares]
  BY DEF Holdings
<1>6. \A s \in {Name(i) : i \in EquityRows(p)} : First(s) \in EquityRows(p)
  OBVIOUS
<1> HIDE DEF Name, First
<1>7. \A s \in {Name(i) : i \in EquityRows(p)} : Holdings(p)[s] \in Nat
  BY <1>1, <1>2, <1>5, <1>6 DEF Counted
<1> QED
  BY <1>1, <1>4, <1>5, <1>7 DEF Book

-----------------------------------------------------------------------------
(* ActiveEtf: the changes between two books *)

\* The change of a security between two books, also when there is none.
ChangeIn(new, old, s) ==
    Change(s, Scale(new, old), RowOf(new, s), RowOf(old, s))

\* The change of a security tells its shares' difference, and its action the
\* difference's sign.
LEMMA ChangeTells ==
    ASSUME NEW new, NEW old, Book(new), Book(old), NEW s
    PROVE  /\ ChangeIn(new, old, s).symbol = s
           /\ ChangeIn(new, old, s).delta = SharesOf(new, s) - SharesOf(old, s)
           /\ ChangeIn(new, old, s).delta \in Int
           /\ s \notin Compared(new, old) => ChangeIn(new, old, s).delta = 0
           /\ ChangeIn(new, old, s).delta # 0 =>
                 /\ ChangeIn(new, old, s).action \in {"added", "increased"}
                       <=> ChangeIn(new, old, s).delta > 0
                 /\ ChangeIn(new, old, s).action \in {"removed", "decreased"}
                       <=> ChangeIn(new, old, s).delta < 0
<1> DEFINE n == RowOf(new, s)
           b == RowOf(old, s)
           c == ChangeIn(new, old, s)
<1>1. /\ n \in Nat \cup {-1} /\ b \in Nat \cup {-1}
      /\ SharesOf(new, s) = IF n = -1 THEN 0 ELSE n
      /\ SharesOf(old, s) = IF b = -1 THEN 0 ELSE b
      /\ s \notin Compared(new, old) => n = -1 /\ b = -1
  BY DEF Book, RowOf, SharesOf, Compared
<1>2. /\ c.symbol = s
      /\ c.delta = (IF n = -1 THEN 0 ELSE n) - (IF b = -1 THEN 0 ELSE b)
      /\ c.action = CASE b = -1 -> "added"
                      [] n = -1 -> "removed"
                      [] OTHER -> IF n > b THEN "increased" ELSE "decreased"
  BY DEF ChangeIn, Change
<1> HIDE DEF n, b, c
<1>3. c.delta # 0 => /\ c.action \in {"added", "increased"} <=> c.delta > 0
                     /\ c.action \in {"removed", "decreased"} <=> c.delta < 0
  <2>1. CASE b = -1 /\ n = -1
    BY <1>2, <2>1
  <2>2. CASE b = -1 /\ n # -1
    <3>1. c.action = "added" /\ c.delta = n /\ n \in Nat
      BY <1>1, <1>2, <2>2
    <3> QED
      BY <3>1
  <2>3. CASE b # -1 /\ n = -1
    <3>1. c.action = "removed" /\ c.delta = 0 - b /\ b \in Nat
      BY <1>1, <1>2, <2>3
    <3> QED
      BY <3>1
  <2>4. CASE b # -1 /\ n # -1
    <3>1. c.action = (IF n > b THEN "increased" ELSE "decreased") /\ c.delta = n - b
          /\ n \in Nat /\ b \in Nat
      BY <1>1, <1>2, <2>4
    <3> QED
      BY <3>1
  <2> QED
    BY <2>1, <2>2, <2>3, <2>4
<1> QED
  BY <1>1, <1>2, <1>3 DEF c

\* What is listed are the securities' changes that are any.
LEMMA ChangesAre ==
    ASSUME NEW new, NEW old, Book(new), Book(old)
    PROVE  /\ \A c \in Changes(new, old) : c.delta # 0 /\ c = ChangeIn(new, old, c.symbol)
           /\ \A s : ChangeIn(new, old, s).delta # 0
                        => ChangeIn(new, old, s) \in Changes(new, old)
<1>1. Changes(new, old) =
        {c \in {ChangeIn(new, old, s) : s \in Compared(new, old)} : c.delta # 0}
  BY DEF Changes, ChangeIn
<1> QED
  BY <1>1, ChangeTells

\* A security has one change when its shares differ, and none otherwise.
LEMMA ChangesOfOne ==
    ASSUME NEW new, NEW old, Book(new), Book(old), NEW s
    PROVE  {c \in Changes(new, old) : c.symbol = s}
             = IF SharesOf(new, s) = SharesOf(old, s) THEN {} ELSE {ChangeIn(new, old, s)}
<1>1. ChangeIn(new, old, s).symbol = s
      /\ ChangeIn(new, old, s).delta = SharesOf(new, s) - SharesOf(old, s)
  BY ChangeTells
<1>2. SharesOf(new, s) \in Int /\ SharesOf(old, s) \in Int
  BY DEF SharesOf, Book
<1>3. SharesOf(new, s) = SharesOf(old, s) <=> ChangeIn(new, old, s).delta = 0
  BY <1>1, <1>2
<1> QED
  BY <1>1, <1>3, ChangesAre

\* A direction is told of securities whose changes all have its sign.
LEMMA DirectionTells ==
    ASSUME NEW rows, rows # {},
           \A c \in rows : /\ c.delta \in Int /\ c.delta # 0
                           /\ c.action \in {"added", "increased"} <=> c.delta > 0
                           /\ c.action \in {"removed", "decreased"} <=> c.delta < 0
    PROVE  LET direction == Direction({c.action : c \in rows})
           IN  /\ direction = "increase" => \A c \in rows : c.delta > 0
               /\ direction = "decrease" => \A c \in rows : c.delta < 0
               /\ direction = "mixed" => {c \in rows : c.delta > 0} \notin {{}, rows}
<1> DEFINE actions == {c.action : c \in rows}
<1>1. \A c \in rows : c.delta > 0 \/ c.delta < 0
  OBVIOUS
<1>2. \A c \in rows : ~(c.delta > 0 /\ c.delta < 0)
  OBVIOUS
<1>3. actions \subseteq {"added", "increased"} <=> \A c \in rows : c.delta > 0
  OBVIOUS
<1>4. actions \subseteq {"decreased", "removed"} <=> \A c \in rows : c.delta < 0
  OBVIOUS
<1> HIDE DEF actions
<1>5. Direction(actions) =
        IF \A c \in rows : c.delta > 0 THEN "increase"
        ELSE IF \A c \in rows : c.delta < 0 THEN "decrease" ELSE "mixed"
  <2>1. ~((\A c \in rows : c.delta > 0) /\ (\A c \in rows : c.delta < 0))
    BY <1>2
  <2> QED
    BY <2>1, <1>3, <1>4 DEF Direction
<1> QED
  BY <1>1, <1>2, <1>5 DEF actions

-----------------------------------------------------------------------------
(* ActiveEtf: the reading of a day *)

\* A fund's day is compared with the last snapshot before it.
LEMMA BaselineIsStored ==
    ASSUME NEW f, NEW d, Coverage(f, d) = "ready"
    PROVE  /\ d \in Stored(f) /\ Max(Earlier(f, d)) \in Stored(f)
           /\ Max(Earlier(f, d)) < d /\ \A e \in Earlier(f, d) : e <= Max(Earlier(f, d))
<1>1. d \in Stored(f) /\ Earlier(f, d) # {}
  BY DEF Coverage
<1>2. Earlier(f, d) \in SUBSET (0 .. LastDay) /\ LastDay \in Nat
  BY EtfBounds DEF Earlier, Stored, Days
<1>3. Max(Earlier(f, d)) \in Earlier(f, d) /\ \A e \in Earlier(f, d) : e <= Max(Earlier(f, d))
  BY <1>1, <1>2, GreatestDay
<1> QED
  BY <1>1, <1>3 DEF Earlier

\* The books compared for a fund's day.
LEMMA ComparesBooks ==
    ASSUME IInv, PagesCounted, NEW f \in Funds, NEW d, Coverage(f, d) = "ready"
    PROVE  Book(snapshot[f][d].holdings) /\ Book(snapshot[f][Max(Earlier(f, d))].holdings)
BY BaselineIsStored, StoredIsBook

\* A row of a day is a change of an enabled fund that has a baseline.
LEMMA DailyRows ==
    ASSUME NEW d, NEW r
    PROVE  r \in DailyChanges(d) <=>
             \E f \in Enabled :
                /\ Coverage(f, d) = "ready"
                /\ \E c \in Changes(snapshot[f][d].holdings,
                                    snapshot[f][Max(Earlier(f, d))].holdings) :
                      r = [fund |-> f, change |-> c]
BY DEF DailyChanges

\* So the consensus of a day is unanimous.
LEMMA DirectionsAgree ==
    ASSUME IInv, PagesCounted
    PROVE  ConsensusIsUnanimous
<1> SUFFICES ASSUME NEW d \in 2..day, NEW s \in Symbols, NEW rows,
                    rows = {r.change : r \in {x \in DailyChanges(d) : x.change.symbol = s}},
                    rows # {}
             PROVE  LET direction == Direction({c.action : c \in rows})
                    IN  /\ direction = "increase" => \A c \in rows : c.delta > 0
                        /\ direction = "decrease" => \A c \in rows : c.delta < 0
                        /\ direction = "mixed" => {c \in rows : c.delta > 0} \notin {{}, rows}
  BY DEF ConsensusIsUnanimous
<1>1. ASSUME NEW c \in rows
      PROVE  /\ c.delta \in Int /\ c.delta # 0
             /\ c.action \in {"added", "increased"} <=> c.delta > 0
             /\ c.action \in {"removed", "decreased"} <=> c.delta < 0
  <2>1. PICK r \in DailyChanges(d) : c = r.change
    OBVIOUS
  <2>2. PICK f \in Enabled :
           /\ Coverage(f, d) = "ready"
           /\ \E b \in Changes(snapshot[f][d].holdings,
                               snapshot[f][Max(Earlier(f, d))].holdings) :
                 r = [fund |-> f, change |-> b]
    BY <2>1, DailyRows
  <2>3. f \in Funds
    BY DEF Enabled
  <2> DEFINE new == snapshot[f][d].holdings
             old == snapshot[f][Max(Earlier(f, d))].holdings
  <2>4. Book(new) /\ Book(old)
    BY <2>2, <2>3, ComparesBooks
  <2>5. c \in Changes(new, old)
    BY <2>1, <2>2
  <2> HIDE DEF new, old
  <2>6. PICK x : c.delta # 0 /\ c = ChangeIn(new, old, x)
    <3>1. c.delta # 0 /\ c = ChangeIn(new, old, c.symbol)
      BY <2>4, <2>5, ChangesAre
    <3> QED
      BY <3>1
  <2> DEFINE y == ChangeIn(new, old, x)
  <2>7. /\ y.delta \in Int
        /\ y.delta # 0 => /\ y.action \in {"added", "increased"} <=> y.delta > 0
                          /\ y.action \in {"removed", "decreased"} <=> y.delta < 0
    BY <2>4, ChangeTells
  <2>8. c = y
    BY <2>6
  <2> HIDE DEF y
  <2> QED
    BY <2>6, <2>7, <2>8
<1> QED
  BY <1>1, DirectionTells

\* Of securities whose ratios are all the same, any is at any place in order.
LEMMA SomeInOrder ==
    ASSUME NEW new, NEW old, Book(new), Book(old), NEW i \in Nat \ {0},
           i <= Cardinality(Common(new, old)),
           \A s, t \in Common(new, old) : new[s] * old[t] = new[t] * old[s]
    PROVE  InOrder(new, old, i) \in Common(new, old)
<1> DEFINE common == Common(new, old)
           Up(s, t) == new[t] * old[s] - new[s] * old[t]
<1>1. IsFiniteSet(common) /\ Cardinality(common) \in Nat
  <2>1. common \in SUBSET DOMAIN new
    BY DEF Common
  <2> QED
    BY <2>1, FS_Subset, FS_CardinalityType DEF Book
<1>2. \A s \in common : new[s] \in Nat /\ old[s] \in Nat
  BY DEF Common, Book
<1>3. \A s, t \in common : Up(s, t) = 0
  <2> SUFFICES ASSUME NEW s \in common, NEW t \in common PROVE Up(s, t) = 0
    OBVIOUS
  <2> DEFINE x == new[t] * old[s]
             y == new[s] * old[t]
  <2>1. x = y /\ x \in Int
    BY <1>2
  <2> QED
    BY <2>1
<1> HIDE DEF common, Up
<1>4. common # {}
  BY <1>1, FS_EmptySet DEF common
<1>5. \A s \in common : {t \in common : Up(s, t) < 0} = {} /\ {t \in common : Up(s, t) <= 0} = common
  BY <1>3
<1>6. \A s \in common : /\ Cardinality({t \in common : Up(s, t) < 0}) < i
                        /\ i <= Cardinality({t \in common : Up(s, t) <= 0})
  BY <1>5, FS_EmptySet DEF common
<1>7. InOrder(new, old, i)
        = CHOOSE s \in common : /\ Cardinality({t \in common : Up(s, t) < 0}) < i
                                /\ i <= Cardinality({t \in common : Up(s, t) <= 0})
  BY DEF InOrder, common, Up
<1> QED
  BY <1>4, <1>6, <1>7 DEF common

\* A change by the very ratio the scale is made of looks like the scale.
LEMMA SameFactor ==
    ASSUME NEW n \in Nat, NEW b \in Nat \ {0}, NEW nl \in Nat, NEW bl \in Nat \ {0},
           NEW nh \in Nat, NEW bh \in Nat \ {0},
           n * bl = nl * b, n * bh = nh * b, Notable(n, b)
    PROVE  LooksLikeScale([n |-> nl * bh + nh * bl, d |-> 2 * bl * bh], n, b)
<1> DEFINE kn == nl * bh + nh * bl
           kd == 2 * bl * bh
<1>1. \A x, y, z \in Nat : x * (y * z) = (x * y) * z /\ x * y = y * x
                           /\ x * (y + z) = x * y + x * z
  OBVIOUS
<1>2. nl * bh \in Nat /\ nh * bl \in Nat /\ bl * bh \in Nat \ {0} /\ kn \in Nat /\ kd \in Nat \ {0}
  OBVIOUS
<1>3. b * (nl * bh) = n * (bl * bh)
  <2>1. b * (nl * bh) = (nl * b) * bh
    BY <1>1
  <2>2. n * (bl * bh) = (n * bl) * bh
    BY <1>1
  <2> QED
    BY <2>1, <2>2
<1>4. b * (nh * bl) = n * (bl * bh)
  <2>1. b * (nh * bl) = (nh * b) * bl
    BY <1>1
  <2>2. n * (bl * bh) = (n * bh) * bl
    BY <1>1
  <2> QED
    BY <2>1, <2>2
<1>5. b * kn = n * kd
  <2>1. b * kn = b * (nl * bh) + b * (nh * bl)
    BY <1>1, <1>2
  <2>2. kd = bl * bh + bl * bh
    OBVIOUS
  <2>3. n * kd = n * (bl * bh) + n * (bl * bh)
    BY <1>1, <1>2, <2>2
  <2> QED
    BY <1>3, <1>4, <2>1, <2>3
<1>6. b * kn \in Nat
  BY <1>2
<1> HIDE DEF kn, kd
<1>7. Distance(n * kd, b * kn) = 0
  BY <1>5, <1>6 DEF Distance
<1>8. LooksLikeScale([n |-> kn, d |-> kd], n, b)
  BY <1>2, <1>6, <1>7 DEF LooksLikeScale
<1> QED
  BY <1>8 DEF kn, kd

\* A change by the factor of all the common securities is marked.
LEMMA ScalingMarks ==
    ASSUME NEW new, NEW old, Book(new), Book(old),
           Cardinality(Common(new, old)) >= MinSample,
           \A s, t \in Common(new, old) : new[s] * old[t] = new[t] * old[s],
           NEW c \in Changes(new, old), c.symbol \in Common(new, old),
           Notable(new[c.symbol], old[c.symbol])
    PROVE  c.scaled
<1> DEFINE common == Common(new, old)
           n == Cardinality(common)
           low == InOrder(new, old, (n + 1) \div 2)
           high == InOrder(new, old, n \div 2 + 1)
           s == c.symbol
           k == Scale(new, old)
<1>1. n \in Nat \ {0}
  <2>1. common \in SUBSET DOMAIN new
    BY DEF Common
  <2>2. n \in Nat
    BY <2>1, FS_Subset, FS_CardinalityType DEF Book
  <2> QED
    BY <2>2, EtfBounds
<1>2. /\ (n + 1) \div 2 \in Nat \ {0} /\ (n + 1) \div 2 <= n
      /\ n \div 2 + 1 \in Nat \ {0} /\ n \div 2 + 1 <= n
  <2> HIDE DEF n
  <2> QED
    BY <1>1
<1>3. low \in common /\ high \in common
  BY <1>2, SomeInOrder
<1>4. \A t \in common : new[t] \in Nat \ {0} /\ old[t] \in Nat \ {0}
                       /\ t \in DOMAIN new /\ t \in DOMAIN old
  BY DEF Common, Book
<1>5. k = [n |-> new[low] * old[high] + new[high] * old[low],
           d |-> 2 * old[low] * old[high]]
  <2>1. ~(n < MinSample)
    BY <1>1, EtfBounds
  <2> QED
    BY <2>1 DEF Scale, Median
<1>6. RowOf(new, s) = new[s] /\ RowOf(old, s) = old[s] /\ new[s] # -1 /\ old[s] > 0
  BY <1>4 DEF RowOf
<1>7. c.scaled = (RowOf(new, s) # -1 /\ RowOf(old, s) > 0
                    /\ LooksLikeScale(k, RowOf(new, s), RowOf(old, s)))
  <2>1. c = ChangeIn(new, old, s)
    BY ChangesAre
  <2> HIDE DEF k, s
  <2>2. ChangeIn(new, old, s).scaled
          = (RowOf(new, s) # -1 /\ RowOf(old, s) > 0
               /\ LooksLikeScale(k, RowOf(new, s), RowOf(old, s)))
    BY DEF ChangeIn, Change, k
  <2> QED
    BY <2>1, <2>2
<1>8. new[s] * old[low] = new[low] * old[s] /\ new[s] * old[high] = new[high] * old[s]
  BY <1>3
<1>9. LooksLikeScale(k, new[s], old[s])
  <2> DEFINE a == new[s]
             b == old[s]
             nl == new[low]
             bl == old[low]
             nh == new[high]
             bh == old[high]
  <2>1. /\ a \in Nat /\ b \in Nat \ {0} /\ nl \in Nat /\ bl \in Nat \ {0}
        /\ nh \in Nat /\ bh \in Nat \ {0}
    BY <1>3, <1>4
  <2>2. a * bl = nl * b /\ a * bh = nh * b /\ Notable(a, b)
    BY <1>8
  <2>3. k = [n |-> nl * bh + nh * bl, d |-> 2 * bl * bh]
    BY <1>5
  <2> HIDE DEF a, b, nl, bl, nh, bh, k
  <2>4. LooksLikeScale([n |-> nl * bh + nh * bl, d |-> 2 * bl * bh], a, b)
    BY <2>1, <2>2, SameFactor
  <2> QED
    BY <2>3, <2>4 DEF a, b
<1> HIDE DEF k, s
<1> QED
  BY <1>6, <1>7, <1>9

\* So it is on every day that is read.
LEMMA ScalingsAgree ==
    ASSUME IInv, PagesCounted
    PROVE  ScalingIsMarked
<1> SUFFICES ASSUME NEW f \in Enabled, NEW d \in 2..day, Coverage(f, d) = "ready",
                    NEW new, new = snapshot[f][d].holdings,
                    NEW old, old = snapshot[f][Max(Earlier(f, d))].holdings,
                    Cardinality(Common(new, old)) >= MinSample,
                    \A s, t \in Common(new, old) : new[s] * old[t] = new[t] * old[s],
                    NEW c \in Changes(new, old), c.symbol \in Common(new, old),
                    Notable(new[c.symbol], old[c.symbol])
             PROVE  c.scaled
  BY DEF ScalingIsMarked
<1>1. f \in Funds
  BY DEF Enabled
<1>2. Book(new) /\ Book(old)
  BY <1>1, ComparesBooks
<1> QED
  BY <1>2, ScalingMarks

-----------------------------------------------------------------------------
(* ActiveEtf: the reading of an interval *)

\* What starts at nothing and grows by a timeline's changes ends at its total.
LEMMA TotalIs ==
    ASSUME NEW line, NEW w, w = [d \in 0..LastDay |-> w[d]], w[0] = 0,
           \A d \in 1..LastDay : w[d] = w[d - 1] + DeltaAt(line, d)
    PROVE  Total(line) = w[LastDay]
<1> DEFINE Sums(u) == u = [d \in 0..LastDay |-> IF d = 0 THEN 0 ELSE u[d - 1] + DeltaAt(line, d)]
           upTo == CHOOSE u : Sums(u)
<1>1. Total(line) = upTo[LastDay]
  BY DEF Total
<1>2. LastDay \in Nat /\ \A d \in 0..LastDay : d = 0 \/ d \in 1..LastDay
  BY EtfBounds
<1>3. Sums(w)
  <2>1. \A d \in 0..LastDay : w[d] = IF d = 0 THEN 0 ELSE w[d - 1] + DeltaAt(line, d)
    BY <1>2
  <2> QED
    BY <2>1
<1>4. Sums(upTo)
  BY <1>3
<1>5. \A d \in 0..LastDay : upTo[d] = IF d = 0 THEN 0 ELSE upTo[d - 1] + DeltaAt(line, d)
  BY <1>4
<1> HIDE DEF Sums, upTo
<1>6. \A d \in 0..LastDay : upTo[d] = w[d]
  <2> DEFINE Off == {d \in 0..LastDay : upTo[d] # w[d]}
  <2> SUFFICES ASSUME Off # {} PROVE FALSE
    OBVIOUS
  <2>1. Off \in SUBSET Nat
    OBVIOUS
  <2>2. PICK d \in Off : \A e \in Off : d <= e
    BY <2>1, LeastNat
  <2>3. d \in 0..LastDay /\ d # 0
    BY <1>5, <1>2
  <2>4. d \in 1..LastDay /\ d - 1 \in 0..LastDay /\ ~(d <= d - 1)
    BY <1>2, <2>3
  <2>5. upTo[d - 1] = w[d - 1]
    BY <2>2, <2>4
  <2>6. upTo[d] = w[d]
    BY <1>5, <2>3, <2>4, <2>5
  <2> QED
    BY <2>6
<1> QED
  BY <1>1, <1>2, <1>6

\* Stored days, of which the one before each is the day's baseline.
Dates(f, h) ==
    /\ h \in SUBSET Stored(f) /\ h \in SUBSET (0 .. LastDay) /\ h \in SUBSET Days
    /\ Min(h) \in h /\ Max(h) \in h /\ \A d \in h : Min(h) <= d /\ d <= Max(h)
    /\ \A d \in h : d # Min(h) =>
          /\ Before(h, d) \in h /\ Before(h, d) < d
          /\ \A e \in h : e < d => e <= Before(h, d)
          /\ Coverage(f, d) = "ready" /\ Before(h, d) = Max(Earlier(f, d))

\* Such are the dates of a history.
LEMMA HistoryFacts ==
    ASSUME NEW f, NEW from \in Nat, NEW to \in Nat, NEW h, h = History(f, from, to), h # {}
    PROVE  Dates(f, h)
<1>1. /\ h \in SUBSET Stored(f) /\ h \in SUBSET (0 .. LastDay) /\ h \in SUBSET Nat
      /\ h \in SUBSET Days /\ LastDay \in Nat
  BY EtfBounds DEF History, Stored, Days
<1>2. Min(h) \in h /\ Max(h) \in h /\ \A d \in h : Min(h) <= d /\ d <= Max(h)
  BY <1>1, LeastDay, GreatestDay
<1>3. ASSUME NEW d \in h, d # Min(h)
      PROVE  /\ Before(h, d) \in h /\ Before(h, d) < d
             /\ \A e \in h : e < d => e <= Before(h, d)
             /\ Coverage(f, d) = "ready" /\ Before(h, d) = Max(Earlier(f, d))
  <2> DEFINE b == Before(h, d)
             T == {e \in h : e < d}
             m == Max(Earlier(f, d))
  <2>1. Min(h) \in Nat /\ d \in Nat /\ Min(h) < d
    <3>1. Min(h) <= d /\ Min(h) \in Nat /\ d \in Nat
      BY <1>1, <1>2
    <3> QED
      BY <1>3, <3>1
  <2>2. T \in SUBSET (0 .. LastDay) /\ T # {}
    BY <1>1, <1>2, <2>1
  <2>3. b \in T /\ \A e \in T : e <= b
    BY <1>1, <2>2, GreatestDay DEF Before
  <2>4. b \in h /\ b < d /\ \A e \in h : e < d => e <= b
    BY <2>3
  <2> HIDE DEF b, T, m
  <2>5. b \in Earlier(f, d)
    BY <1>1, <2>4 DEF Earlier
  <2>6. Coverage(f, d) = "ready"
    BY <1>1, <1>3, <2>5 DEF Coverage
  <2>7. m \in Stored(f) /\ m < d /\ b <= m
    BY <2>5, <2>6, BaselineIsStored DEF m
  <2>8. m \in h
    <3>1. from <= b /\ d <= to /\ b \in Nat /\ d \in Nat
      BY <1>1, <1>3, <2>4 DEF History
    <3>2. m \in Nat
      BY <2>7 DEF Stored, Days
    <3>3. m \in from..to
      BY <2>7, <3>1, <3>2
    <3> QED
      BY <2>7, <3>3 DEF History
  <2>9. m = b
    <3>1. m <= b /\ m \in Nat /\ b \in Nat
      BY <1>1, <2>4, <2>7, <2>8
    <3> QED
      BY <2>7, <3>1
  <2> QED
    BY <2>4, <2>6, <2>9 DEF b, m
<1> QED
  BY <1>1, <1>2, <1>3 DEF Dates

\* Points that tell the difference to the date before, their action the
\* difference's sign.
Points(f, s, h, line) ==
    /\ DOMAIN line = h /\ \A d : d \notin h => DeltaAt(line, d) = 0
    /\ line[Min(h)] = {} /\ DeltaAt(line, Min(h)) = 0
    /\ \A d \in h : d # Min(h) =>
          /\ line[d] = {c \in Changes(snapshot[f][d].holdings,
                                      snapshot[f][Max(Earlier(f, d))].holdings) : c.symbol = s}
          /\ DeltaAt(line, d) = SharesOf(snapshot[f][d].holdings, s)
                                   - SharesOf(snapshot[f][Before(h, d)].holdings, s)
          /\ (\E c \in line[d] : c.action \in {"added", "increased"}) <=> DeltaAt(line, d) > 0
          /\ (\E c \in line[d] : c.action \in {"removed", "decreased"}) <=> DeltaAt(line, d) < 0

\* Such are the points of a timeline.
LEMMA TimelineTells ==
    ASSUME IInv, PagesCounted, NEW f \in Funds, NEW s, NEW from \in Nat, NEW to \in Nat,
           NEW h, h = History(f, from, to), h # {}, NEW line, line = Timeline(f, s, h)
    PROVE  Points(f, s, h, line)
<1>1. /\ h \in SUBSET Stored(f) /\ Min(h) \in h
      /\ \A d \in h : d # Min(h) => /\ Before(h, d) \in h /\ Coverage(f, d) = "ready"
                                    /\ Before(h, d) = Max(Earlier(f, d))
  <2>1. Dates(f, h)
    BY HistoryFacts
  <2> QED
    BY <2>1 DEF Dates
<1>2. /\ DOMAIN line = h /\ line[Min(h)] = {}
      /\ \A d \in h : d # Min(h) =>
            line[d] = {c \in Changes(snapshot[f][d].holdings,
                                     snapshot[f][Before(h, d)].holdings) : c.symbol = s}
  BY <1>1 DEF Timeline
<1>3. (\A d : d \notin h => DeltaAt(line, d) = 0) /\ DeltaAt(line, Min(h)) = 0
  BY <1>1, <1>2 DEF DeltaAt
<1>4. ASSUME NEW d \in h, d # Min(h)
      PROVE  /\ line[d] = {c \in Changes(snapshot[f][d].holdings,
                                         snapshot[f][Max(Earlier(f, d))].holdings) : c.symbol = s}
             /\ DeltaAt(line, d) = SharesOf(snapshot[f][d].holdings, s)
                                      - SharesOf(snapshot[f][Before(h, d)].holdings, s)
             /\ (\E c \in line[d] : c.action \in {"added", "increased"}) <=> DeltaAt(line, d) > 0
             /\ (\E c \in line[d] : c.action \in {"removed", "decreased"}) <=> DeltaAt(line, d) < 0
  <2> DEFINE new == snapshot[f][d].holdings
             old == snapshot[f][Before(h, d)].holdings
             c == ChangeIn(new, old, s)
  <2>1. Before(h, d) = Max(Earlier(f, d)) /\ Coverage(f, d) = "ready"
    BY <1>1, <1>4
  <2>2. Book(new) /\ Book(old)
    BY <2>1, ComparesBooks
  <2>3. line[d] = {x \in Changes(new, old) : x.symbol = s}
    BY <1>2, <1>4
  <2>4. /\ line[d] = {x \in Changes(new, snapshot[f][Max(Earlier(f, d))].holdings) : x.symbol = s}
    BY <2>1, <2>3
  <2> HIDE DEF new, old
  <2>5. line[d] = IF SharesOf(new, s) = SharesOf(old, s) THEN {} ELSE {c}
    BY <2>2, <2>3, ChangesOfOne
  <2>6. SharesOf(new, s) \in Int /\ SharesOf(old, s) \in Int
    BY <2>2 DEF SharesOf, Book
  <2>7. /\ c.delta = SharesOf(new, s) - SharesOf(old, s) /\ c.delta \in Int
        /\ c.delta # 0 => /\ c.action \in {"added", "increased"} <=> c.delta > 0
                          /\ c.action \in {"removed", "decreased"} <=> c.delta < 0
    BY <2>2, ChangeTells
  <2> HIDE DEF c
  <2>8. DeltaAt(line, d) = IF line[d] = {} THEN 0 ELSE (CHOOSE x \in line[d] : TRUE).delta
    BY <1>2, <1>4 DEF DeltaAt
  <2>9. CASE SharesOf(new, s) = SharesOf(old, s)
    <3>1. line[d] = {} /\ DeltaAt(line, d) = 0
      BY <2>5, <2>8, <2>9
    <3> QED
      BY <2>4, <2>6, <2>9, <3>1 DEF new, old
  <2>10. CASE SharesOf(new, s) # SharesOf(old, s)
    <3>1. line[d] = {c} /\ DeltaAt(line, d) = c.delta
      BY <2>5, <2>8, <2>10
    <3>2. c.delta # 0
      BY <2>6, <2>7, <2>10
    <3> QED
      BY <2>4, <2>7, <3>1, <3>2 DEF new, old
  <2> QED
    BY <2>9, <2>10
<1> QED
  BY <1>2, <1>3, <1>4 DEF Points

\* The changes of an interval add up to its net change.
LEMMA ChangesAddUp ==
    ASSUME IInv, PagesCounted, NEW f \in Funds, NEW s, NEW from \in Nat, NEW to \in Nat,
           NEW h, h = History(f, from, to), h # {}
    PROVE  Net(f, s, h) = Total(Timeline(f, s, h))
<1> DEFINE line == Timeline(f, s, h)
           Shares(d) == SharesOf(snapshot[f][d].holdings, s)
           LastTo(d) == Max({e \in h : e <= d})
           w == [d \in 0..LastDay |-> IF d < Min(h) THEN 0 ELSE Shares(LastTo(d)) - Shares(Min(h))]
<1>1. /\ h \in SUBSET Stored(f) /\ h \in SUBSET (0 .. LastDay) /\ h \in SUBSET Days
      /\ Min(h) \in h /\ Max(h) \in h /\ \A d \in h : Min(h) <= d /\ d <= Max(h)
      /\ \A d \in h : d # Min(h) => Before(h, d) \in h /\ Before(h, d) < d
  <2>1. Dates(f, h)
    BY HistoryFacts
  <2> QED
    BY <2>1 DEF Dates
<1>2. LastDay \in Nat /\ \A d \in h : d \in 1..LastDay
  BY <1>1, EtfBounds DEF Days
<1>3. \A d \in h : Shares(d) \in Int
  <2> SUFFICES ASSUME NEW d \in h PROVE Shares(d) \in Int
    OBVIOUS
  <2>1. Book(snapshot[f][d].holdings)
    BY <1>1, StoredIsBook
  <2> QED
    BY <2>1 DEF SharesOf, Book
<1>4. /\ \A d \in 0..LastDay : d \notin h => DeltaAt(line, d) = 0
      /\ DeltaAt(line, Min(h)) = 0
      /\ \A d \in h : d # Min(h) => DeltaAt(line, d) = Shares(d) - Shares(Before(h, d))
  <2>1. Points(f, s, h, line)
    BY TimelineTells
  <2> HIDE DEF line
  <2> QED
    BY <2>1 DEF Points
<1> HIDE DEF line, Shares
<1>5. \A d \in 0..LastDay : ~(d < Min(h)) => LastTo(d) \in h
  <2> SUFFICES ASSUME NEW d \in 0..LastDay, ~(d < Min(h)) PROVE LastTo(d) \in h
    OBVIOUS
  <2> DEFINE T == {e \in h : e <= d}
  <2>1. T \in SUBSET (0 .. LastDay) /\ T # {}
    BY <1>1, <1>2
  <2>2. Max(T) \in T
    BY <1>2, <2>1, GreatestDay
  <2> QED
    BY <2>2
<1>6. \A d \in h : LastTo(d) = d
  <2> SUFFICES ASSUME NEW d \in h PROVE LastTo(d) = d
    OBVIOUS
  <2> DEFINE T == {e \in h : e <= d}
  <2>1. T \in SUBSET (0 .. LastDay) /\ d \in T
    BY <1>1, <1>2
  <2>2. Max(T) \in T /\ \A e \in T : e <= Max(T)
    BY <1>2, <2>1, GreatestDay
  <2>3. Max(T) <= d /\ d <= Max(T) /\ Max(T) \in Int
    BY <1>2, <2>1, <2>2
  <2> HIDE DEF T
  <2>4. Max(T) = d
    BY <1>2, <2>3
  <2> QED
    BY <2>4 DEF T
<1>7. ASSUME NEW d \in 1..LastDay PROVE w[d] = w[d - 1] + DeltaAt(line, d)
  <2>1. d \in Nat /\ d \in 0..LastDay /\ d - 1 \in 0..LastDay /\ Min(h) \in Nat
    BY <1>1, <1>2
  <2>2. CASE d < Min(h)
    <3>1. d \notin h /\ d - 1 < Min(h)
      BY <1>1, <2>1, <2>2
    <3>2. w[d] = 0 /\ w[d - 1] = 0 /\ DeltaAt(line, d) = 0
      BY <1>4, <2>1, <2>2, <3>1
    <3> QED
      BY <3>2
  <2>3. CASE d = Min(h)
    <3>1. LastTo(d) = d /\ d - 1 < Min(h) /\ ~(d < Min(h))
      BY <1>1, <1>6, <2>1, <2>3
    <3>2. w[d] = Shares(d) - Shares(d) /\ w[d - 1] = 0 /\ DeltaAt(line, d) = 0
      BY <1>4, <2>1, <2>3, <3>1
    <3> QED
      BY <1>1, <1>3, <2>3, <3>2
  <2>4. CASE d > Min(h) /\ d \in h
    <3>1. \A e \in h : e <= d - 1 <=> e < d
      BY <1>2, <2>1
    <3>2. LastTo(d - 1) = Before(h, d) /\ LastTo(d) = d
      BY <1>6, <2>4, <3>1 DEF Before
    <3>3. ~(d < Min(h)) /\ ~(d - 1 < Min(h)) /\ d # Min(h)
      BY <2>1, <2>4
    <3>4. w[d] = Shares(d) - Shares(Min(h)) /\ w[d - 1] = Shares(Before(h, d)) - Shares(Min(h))
          /\ DeltaAt(line, d) = Shares(d) - Shares(Before(h, d))
      BY <1>4, <2>1, <2>4, <3>2, <3>3
    <3>5. Before(h, d) \in h
      BY <1>1, <2>4, <3>3
    <3> HIDE DEF w
    <3> QED
      BY <1>1, <1>3, <2>4, <3>4, <3>5
  <2>5. CASE d > Min(h) /\ d \notin h
    <3>1. \A e \in h : e <= d - 1 <=> e <= d
      BY <1>2, <2>1, <2>5
    <3>2. LastTo(d - 1) = LastTo(d) /\ ~(d < Min(h)) /\ ~(d - 1 < Min(h))
      BY <2>1, <2>5, <3>1
    <3>3. w[d] = w[d - 1] /\ DeltaAt(line, d) = 0 /\ w[d] = Shares(LastTo(d)) - Shares(Min(h))
      BY <1>4, <2>1, <2>5, <3>2
    <3>4. w[d] \in Int
      BY <1>1, <1>3, <1>5, <2>1, <3>2, <3>3
    <3> HIDE DEF w
    <3> QED
      BY <3>3, <3>4
  <2> QED
    BY <2>1, <2>2, <2>3, <2>4, <2>5
<1>8. w[0] = 0 /\ w = [d \in 0..LastDay |-> w[d]]
  BY <1>1, <1>2
<1>9. w[LastDay] = Shares(Max(h)) - Shares(Min(h))
  <2>1. \A e \in h : e <= LastDay
    BY <1>2
  <2>2. {e \in h : e <= LastDay} = h /\ LastDay \in 0..LastDay /\ ~(LastDay < Min(h))
    BY <1>1, <1>2, <2>1
  <2> QED
    BY <2>2
<1> HIDE DEF w
<1>10. Total(line) = w[LastDay]
  BY <1>7, <1>8, TotalIs
<1> QED
  BY <1>9, <1>10 DEF Net, Shares, line

\* An interval's timeline tells what its days tell.
LEMMA RangesAgree ==
    ASSUME IInv, PagesCounted
    PROVE  RangeAgreesWithDaily
<1> SUFFICES ASSUME NEW f \in Enabled, NEW s \in Symbols, NEW from \in 1..day, NEW to \in 1..day,
                    NEW h, h = History(f, from, to), h # {}, NEW line, line = Timeline(f, s, h)
             PROVE  /\ Net(f, s, h) = Total(line)
                    /\ DaysOf({"added", "increased"}, line) = {d \in h : DeltaAt(line, d) > 0}
                    /\ DaysOf({"removed", "decreased"}, line) = {d \in h : DeltaAt(line, d) < 0}
                    /\ \A d \in h \ {Min(h)} : line[d] = {row.change : row \in
                            {r \in DailyChanges(d) : r.fund = f /\ r.change.symbol = s}}
  BY DEF RangeAgreesWithDaily
<1>1. f \in Funds /\ from \in Nat /\ to \in Nat
  BY DEF Enabled
<1>2. Net(f, s, h) = Total(line)
  BY <1>1, ChangesAddUp
<1>3. Dates(f, h)
  BY <1>1, HistoryFacts
<1>4. Points(f, s, h, line)
  BY <1>1, TimelineTells
<1>5. /\ DOMAIN line = h /\ line[Min(h)] = {} /\ DeltaAt(line, Min(h)) = 0
      /\ \A d \in h : d # Min(h) =>
            /\ (\E c \in line[d] : c.action \in {"added", "increased"}) <=> DeltaAt(line, d) > 0
            /\ (\E c \in line[d] : c.action \in {"removed", "decreased"}) <=> DeltaAt(line, d) < 0
  BY <1>4 DEF Points
<1>6. /\ DaysOf({"added", "increased"}, line) = {d \in h : DeltaAt(line, d) > 0}
      /\ DaysOf({"removed", "decreased"}, line) = {d \in h : DeltaAt(line, d) < 0}
  BY <1>5 DEF DaysOf
<1>7. ASSUME NEW d \in h, d # Min(h)
      PROVE  line[d] = {row.change : row \in
                 {r \in DailyChanges(d) : r.fund = f /\ r.change.symbol = s}}
  <2> DEFINE changes == Changes(snapshot[f][d].holdings, snapshot[f][Max(Earlier(f, d))].holdings)
  <2>1. line[d] = {c \in changes : c.symbol = s}
    BY <1>4, <1>7 DEF Points
  <2>2. Coverage(f, d) = "ready"
    BY <1>3, <1>7 DEF Dates
  <2>3. \A r : r \in DailyChanges(d) /\ r.fund = f <=>
                 \E c \in changes : r = [fund |-> f, change |-> c]
    BY <2>2, DailyRows
  <2> DEFINE R == {r \in DailyChanges(d) : r.fund = f /\ r.change.symbol = s}
             row(c) == [fund |-> f, change |-> c]
  <2>4. \A c : row(c).fund = f /\ row(c).change = c
    OBVIOUS
  <2> HIDE DEF changes, row
  <2>5. \A c \in changes : c.symbol = s => row(c) \in R
    BY <2>3, <2>4 DEF row
  <2>6. \A r \in R : \E c \in changes : r = row(c) /\ c.symbol = s
    BY <2>3, <2>4 DEF row
  <2> HIDE DEF R
  <2>7. {r.change : r \in R} = {c \in changes : c.symbol = s}
    BY <2>4, <2>5, <2>6
  <2> QED
    BY <2>1, <2>7 DEF R
<1> QED
  BY <1>2, <1>6, <1>7

-----------------------------------------------------------------------------
(* ActiveEtf: what the readings show *)

\* For any books, gaps and intervals: the changes of an interval add up to its
\* net change and are those the daily view shows, a direction is told only when
\* no fund went the other way, and a change by the factor of all the others is
\* marked as money paid in or out.
THEOREM ReadsAgreed == EtfSpec => []HoldingsReadsAgree
<1>1. EtfInit => PagesCounted
  BY InitCounts
<1>2. ASSUME IInv, PagesCounted, [EtfNext]_etfVars PROVE PagesCounted'
  BY <1>2, StepCounts
<1>3. EtfSpec => []PagesCounted
  BY <1>1, <1>2, Inductive, PTL DEF EtfSpec
<1>4. ASSUME IInv, PagesCounted PROVE HoldingsReadsAgree
  BY <1>4, RangesAgree, DirectionsAgree, ScalingsAgree DEF HoldingsReadsAgree
<1> QED
  BY <1>3, <1>4, Inductive, PTL

-----------------------------------------------------------------------------
(* ResearchValidation: what a call knows *)

WorldOK == ResearchBounds /\ world \in ResearchSettings

\* What every market, source and request is like.
LEMMA WorldFacts ==
    ASSUME WorldOK
    PROVE  /\ Lookback \in Nat /\ LastDate \in Nat /\ Horizons \subseteq Nat \ {0}
           /\ \A w \in Horizons : w \in 0 .. Lookback
           /\ Sessions \subseteq Nat /\ Prepared \subseteq Nat /\ 0 \in Sessions
           /\ Sessions \cap IndexGaps \subseteq Prepared /\ Active \subseteq Threads
<1>1. PICK s \in ResearchSettings : s = world
  BY DEF WorldOK
<1>2. /\ s.lookback \in Nat /\ s.lastDate \in Nat /\ s.horizons \subseteq Nat \ {0}
      /\ \A w \in s.horizons : s.lookback >= 2 * w
      /\ s.sessions \subseteq Nat /\ s.prepared \subseteq Nat /\ 0 \in s.sessions
      /\ s.sessions \cap s.indexGaps \subseteq s.prepared /\ s.active \subseteq Threads
  BY DEF WorldOK, ResearchBounds
<1>3. \A w \in s.horizons : w \in 0 .. s.lookback
  BY <1>2
<1> QED
  BY <1>1, <1>2, <1>3 DEF Lookback, LastDate, Horizons, Sessions, Prepared, IndexGaps, Active

\* Every day of the index is a session, and with the signal day among them no
\* session up to the call's day is missing from the calendar.
LEMMA CalendarFacts ==
    ASSUME WorldOK, NEW asof \in Nat, NEW down
    PROVE  /\ Benchmark(asof, down) \subseteq Sessions
           /\ TradingCalendar(asof, down) \in SUBSET (0 .. asof) /\ 0 \notin TradingCalendar(asof, down)
           /\ 0 \in Benchmark(asof, down) =>
                 \A d \in Sessions : 0 < d /\ d <= asof => d \in TradingCalendar(asof, down)
<1>1. Sessions \subseteq Nat /\ Prepared \subseteq Nat /\ Sessions \cap IndexGaps \subseteq Prepared
  BY WorldFacts
<1>2. Benchmark(asof, down) \subseteq Sessions
  BY DEF Benchmark, ProviderIndex
<1>3. \A d \in PreparedDays(asof) \cup Benchmark(asof, down) : d \in Nat
  BY <1>1, <1>2 DEF PreparedDays
<1>4. \A d \in Nat : 0 < d /\ d <= asof => d \in 0 .. asof /\ d # 0
  OBVIOUS
<1>5. TradingCalendar(asof, down) \in SUBSET (0 .. asof) /\ 0 \notin TradingCalendar(asof, down)
  BY <1>3, <1>4 DEF TradingCalendar, After
<1>6. ASSUME 0 \in Benchmark(asof, down), NEW d \in Sessions, 0 < d, d <= asof
      PROVE  d \in PreparedDays(asof) \cup Benchmark(asof, down)
  <2>1. CASE d \in Prepared
    BY <2>1, <1>6 DEF PreparedDays
  <2>2. CASE d \notin Prepared
    <3>1. d \notin IndexGaps
      BY <2>2, <1>1
    <3> QED
      BY <3>1, <1>6 DEF Benchmark, ProviderIndex
  <2> QED
    BY <2>1, <2>2
<1> QED
  BY <1>2, <1>5, <1>6 DEF TradingCalendar, After

\* The n days on which a call judges a window are its sessions, when they miss
\* none of the sessions before their last.
LEMMA DaysAreWindow ==
    ASSUME WorldOK, NEW w \in Horizons, NEW asof \in Nat, NEW days \in SUBSET (0 .. asof),
           InitialPart(days, Sessions \ {0}), Cardinality(days) = w
    PROVE  /\ days = WindowOf(w) /\ Cardinality(WindowOf(w)) = w /\ days # {}
           /\ Max(days) = Max(WindowOf(w)) /\ Max(days) <= asof
<1>1. w \in Nat \ {0} /\ Sessions \ {0} \in SUBSET Nat
  BY WorldFacts
<1>2. days = WindowOf(w)
  BY <1>1, InitialIsFirst DEF WindowOf
<1>3. days # {}
  BY <1>1, FS_EmptySet
<1>4. Max(days) \in days
  BY <1>3, GreatestDay
<1>5. Max(days) <= asof
  <2>1. PICK m \in days : m = Max(days)
    BY <1>4
  <2>2. m \in 0 .. asof
    OBVIOUS
  <2> QED
    BY <2>1, <2>2
<1> QED
  BY <1>2, <1>3, <1>5

\* With the signal day in the index, and its first n days in it too, the calendar
\* shows the window's sessions.
LEMMA CalendarTells ==
    ASSUME WorldOK, NEW w \in Horizons, NEW asof \in Nat, NEW down,
           0 \in Benchmark(asof, down), Cardinality(TradingCalendar(asof, down)) >= w,
           FirstOf(TradingCalendar(asof, down), w) \subseteq Benchmark(asof, down)
    PROVE  LET days == FirstOf(TradingCalendar(asof, down), w)
           IN /\ days = WindowOf(w) /\ Cardinality(WindowOf(w)) = w
              /\ Max(days) = Max(WindowOf(w)) /\ Max(days) <= asof
<1> DEFINE T == TradingCalendar(asof, down)
           days == FirstOf(T, w)
<1>1. /\ T \in SUBSET (0 .. asof) /\ 0 \notin T /\ Benchmark(asof, down) \subseteq Sessions
      /\ \A d \in Sessions : 0 < d /\ d <= asof => d \in T
  BY CalendarFacts
<1>2. w \in Nat \ {0} /\ Sessions \subseteq Nat
  BY WorldFacts
<1> HIDE DEF T
<1>3. InitialPart(days, T)
  BY <1>1, <1>2, FirstAreInitial
<1>4. Cardinality(days) = w
  BY <1>1, <1>2, FirstAreMany DEF T
<1>5. days \subseteq Sessions \ {0} /\ days \in SUBSET (0 .. asof)
  BY <1>1, <1>3 DEF InitialPart, T
<1>6. ASSUME NEW d \in days, NEW e \in Sessions \ {0}, e <= d PROVE e \in days
  <2> HIDE DEF days
  <2>1. d \in Int /\ d <= asof /\ e \in Nat /\ e # 0
    BY <1>2, <1>5
  <2>2. 0 < e /\ e <= asof
    BY <2>1, <1>6
  <2> QED
    BY <2>2, <1>1, <1>3, <1>6 DEF InitialPart
<1>7. InitialPart(days, Sessions \ {0})
  BY <1>5, <1>6 DEF InitialPart
<1> HIDE DEF days
<1>8. /\ days = WindowOf(w) /\ Cardinality(WindowOf(w)) = w
      /\ Max(days) = Max(WindowOf(w)) /\ Max(days) <= asof
  BY <1>4, <1>5, <1>7, DaysAreWindow
<1> QED
  BY <1>8 DEF days, T

\* A row tells of a split what happened, and a row of an archived day without a
\* conflict has the price that was traded at.
LEMMA RepairFacts ==
    ASSUME WorldOK, NEW c, NEW asof \in Nat, NEW down, NEW lost,
           NEW required \in SUBSET (0 .. asof)
    PROVE  LET prices == Repair(c, ProviderRows(c, asof, down), required, lost)
           IN \A d \in DOMAIN prices :
                 /\ prices[d].split = Split(c, d)
                 /\ Archived = Sessions /\ d \in required /\ ~prices[d].conflict => prices[d].kind = "raw"
<1> DEFINE own == ProviderRows(c, asof, down)
           prices == Repair(c, own, required, lost)
           archived == ArchivedDays(c, required)
<1>1. /\ DOMAIN own \subseteq TradedDays(c, asof)
      /\ \A d \in DOMAIN own : own[d] = [kind |-> Kind(c, d), split |-> Split(c, d), conflict |-> FALSE]
  BY DEF ProviderRows
<1> HIDE DEF own
<1> SUFFICES ASSUME NEW d \in DOMAIN prices
             PROVE  /\ prices[d].split = Split(c, d)
                    /\ Archived = Sessions /\ d \in required /\ ~prices[d].conflict => prices[d].kind = "raw"
  BY DEF own
<1>2. CASE required = {}
  BY <1>1, <1>2 DEF Repair
<1>3. CASE required # {}
  <2>1. PICK recovered, official :
           /\ recovered \cap DOMAIN own = {}
           /\ prices = [e \in DOMAIN own \cup recovered |->
                 IF e \in recovered THEN [kind |-> "raw", split |-> Split(c, e), conflict |-> FALSE]
                 ELSE [own[e] EXCEPT !.conflict = e \in MarkedDays(own, archived, official)]]
    <3> DEFINE missing    == required \ DOMAIN own
               unresolved == missing \ archived
               refused    == unresolved # {} /\ "prices" \in lost
               blank      == c \notin Listed /\ "blank" \in lost
               official   == archived \cup (IF unresolved = {} \/ refused \/ blank THEN {}
                                            ELSE ReportedDays(c, required, unresolved))
               marked     == MarkedDays(own, archived, official)
               recovered  == IF marked # {} \/ refused \/ "actions" \in lost THEN {}
                             ELSE missing \cap official
    <3>1. recovered \cap DOMAIN own = {}
      OBVIOUS
    <3>2. prices = [e \in DOMAIN own \cup recovered |->
                 IF e \in recovered THEN [kind |-> "raw", split |-> Split(c, e), conflict |-> FALSE]
                 ELSE [own[e] EXCEPT !.conflict = e \in marked]]
      BY <1>3 DEF Repair
    <3> HIDE DEF recovered, official, prices
    <3> QED
      BY <3>1, <3>2
  <2> HIDE DEF prices
  <2>2. CASE d \in recovered
    BY <2>1, <2>2
  <2>3. CASE d \notin recovered
    <3> DEFINE marked == MarkedDays(own, archived, official)
    <3>1. d \in DOMAIN own /\ prices[d] = [own[d] EXCEPT !.conflict = d \in marked]
      BY <2>1, <2>3
    <3> HIDE DEF marked
    <3>2. prices[d] = [kind |-> Kind(c, d), split |-> Split(c, d), conflict |-> d \in marked]
      BY <3>1, <1>1
    <3>3. ASSUME Archived = Sessions, d \in required, d \notin marked PROVE Kind(c, d) = "raw"
      <4>1. Max(required) \in required /\ d <= Max(required)
        BY <1>3, <3>3, GreatestDay
      <4>2. Min(required) <= d /\ Min(required) \in required
        <5>1. required \in SUBSET Nat
          OBVIOUS
        <5> QED
          BY <5>1, <1>3, <3>3, LeastDay
      <4>3. d \in Span(required)
        <5>1. Max(required) \in Int /\ Min(required) \in Int /\ d \in Int
          <6>1. \A e \in required : e \in Int
            OBVIOUS
          <6> QED
            BY <6>1, <3>3, <4>1, <4>2
        <5> QED
          BY <5>1, <4>1, <4>2 DEF Span
      <4>4. d \in archived
        BY <4>1, <4>3, <3>1, <3>3, <1>1 DEF ArchivedDays, TradedDays
      <4>5. own[d].kind # "raw" => d \in marked
        BY <4>4, <3>1 DEF marked, MarkedDays
      <4> QED
        BY <4>5, <3>1, <3>3, <1>1
    <3>4. /\ prices[d].split = Split(c, d) /\ prices[d].kind = Kind(c, d)
          /\ prices[d].conflict = (d \in marked)
      BY <3>2
    <3> QED
      BY <3>3, <3>4
  <2> QED
    BY <2>2, <2>3
<1> QED
  BY <1>2, <1>3

-----------------------------------------------------------------------------
(* ResearchValidation: what a call concludes *)

\* What may be stored of a window.
SoundRow(c, w, r) ==
    /\ r.status = "validated" =>
          /\ r.target = Max(WindowOf(w)) /\ Cardinality(WindowOf(w)) = w /\ r.target <= r.asof
          /\ Archived = Sessions \/ Proven(r) => r.raw
    /\ r.status = "skipped" /\ Closed(r) =>
          \/ c \in OutOfDate
          \/ Event(c) \in {"distribution", "halt"} /\ EventDay \in WindowOf(w)

\* Nothing found is nothing stored.
LEMMA NoneIsSound == \A c, w : SoundRow(c, w, None)
BY DEF SoundRow, None, ResultRow

\* What a call knows of the days, whichever official sources it can still ask.
ByCalendar(call, asof, down) ==
    /\ call.asof = asof
    /\ call.calendar = TradingCalendar(asof, down) /\ call.benchmark = Benchmark(asof, down)

LEMMA CallIsByCalendar ==
    ASSUME NEW mode, NEW asof, NEW down, NEW budget, NEW n
    PROVE  LET call == Call(mode, asof, down, budget)
           IN ByCalendar(call, asof, down) /\ ByCalendar(Within(call, n), asof, down)
BY DEF Call, Within, ByCalendar

\* By its days alone a window is validated on the archive's prices, and ended by
\* a split of its own.
LEMMA EvaluateIsSound ==
    ASSUME WorldOK, NEW c \in Stocks, NEW w \in Horizons, NEW asof \in Nat, NEW down, NEW lost,
           NEW call, ByCalendar(call, asof, down),
           NEW required \in SUBSET (0 .. asof),
           FirstOf(TradingCalendar(asof, down), w) \subseteq required
    PROVE  SoundRow(c, w, EvaluateResearchWindow(c, w,
               Repair(c, ProviderRows(c, asof, down), required, lost), call))
<1> DEFINE prices == Repair(c, ProviderRows(c, asof, down), required, lost)
           calendar == TradingCalendar(asof, down)
           benchmark == Benchmark(asof, down)
           days == FirstOf(calendar, w)
           r == EvaluateResearchWindow(c, w, prices, call)
<1>1. call.asof = asof /\ call.calendar = calendar /\ call.benchmark = benchmark
  BY DEF ByCalendar
<1>2. \A d \in DOMAIN prices :
          /\ prices[d].split = Split(c, d)
          /\ Archived = Sessions /\ d \in required /\ ~prices[d].conflict => prices[d].kind = "raw"
  BY RepairFacts
<1>3. ASSUME ~(Cardinality(calendar) < w), 0 \in benchmark, days \subseteq benchmark
      PROVE  /\ days = WindowOf(w) /\ Cardinality(WindowOf(w)) = w
             /\ Max(days) = Max(WindowOf(w)) /\ Max(days) <= asof
  <2>1. calendar \in SUBSET (0 .. asof) /\ w \in Nat
    BY CalendarFacts, WorldFacts
  <2>2. Cardinality(calendar) \in Nat
    BY <2>1, DaysFinite
  <2>3. Cardinality(calendar) >= w
    BY <2>1, <2>2, <1>3
  <2> QED
    BY <2>3, <1>3, CalendarTells
<1> HIDE DEF prices, calendar, benchmark
<1>4. CASE Cardinality(calendar) < w
  <2>1. r.status = "pending" \/ (r.status = "skipped" /\ r.reason = "missing_benchmark")
    BY <1>1, <1>4 DEF EvaluateResearchWindow, Skipped, ResultRow
  <2> QED
    BY <2>1 DEF r, SoundRow, Closed, RESEARCH_TERMINAL_REASONS, TERMINAL_REASONS, prices
<1>5. CASE ~(Cardinality(calendar) < w)
  <2> DEFINE priced == days \cap DOMAIN prices
  <2>1. CASE (\E d \in priced : prices[d].conflict) \/ 0 \notin benchmark \/ ~(days \subseteq benchmark)
             \/ priced # days
    <3>1. r.status = "skipped" /\ r.reason \in {CONFLICT_REASON, "missing_benchmark", "missing_future_price"}
      BY <1>1, <1>5, <2>1 DEF EvaluateResearchWindow, Skipped, ResultRow
    <3> QED
      BY <3>1 DEF SoundRow, Closed, RESEARCH_TERMINAL_REASONS, TERMINAL_REASONS, CONFLICT_REASON,
                  prices
  <2>2. CASE /\ ~\E d \in priced : prices[d].conflict
             /\ 0 \in benchmark /\ days \subseteq benchmark /\ priced = days
    <3>1. r = IF \E d \in days : prices[d].split THEN Skipped("stock_split_in_window", 0, asof)
              ELSE ResultRow("validated", "none", Max(days), asof, \A d \in days : prices[d].kind = "raw", "none")
      BY <1>1, <1>5, <2>2 DEF EvaluateResearchWindow
    <3>2. /\ days = WindowOf(w) /\ Cardinality(WindowOf(w)) = w
          /\ Max(days) = Max(WindowOf(w)) /\ Max(days) <= asof
      BY <1>3, <1>5, <2>2
    <3>3. CASE \E d \in days : prices[d].split
      <4>1. \E d \in days : Split(c, d)
        BY <3>3, <2>2, <1>2
      <4>2. Event(c) = "distribution" /\ EventDay \in days
        BY <4>1 DEF Split
      <4>3. r.status = "skipped"
        BY <3>1, <3>3 DEF Skipped, ResultRow
      <4> QED
        BY <4>2, <4>3, <3>2 DEF SoundRow, prices
    <3>4. CASE ~\E d \in days : prices[d].split
      <4>1. Archived = Sessions => \A d \in days : prices[d].kind = "raw"
        BY <2>2, <1>2 DEF calendar
      <4>2. /\ r.status = "validated" /\ r.target = Max(days) /\ r.asof = asof /\ r.proof = "none"
            /\ r.raw = \A d \in days : prices[d].kind = "raw"
        BY <3>1, <3>4 DEF ResultRow
      <4> QED
        BY <4>1, <4>2, <3>2 DEF SoundRow, Proven, prices
    <3> QED
      BY <3>3, <3>4
  <2> QED
    BY <2>1, <2>2
<1> QED
  BY <1>4, <1>5

\* Proof of a rights issue covers exactly the window's sessions.
LEMMA RightsAreSound ==
    ASSUME WorldOK, NEW c \in Stocks, NEW w \in Horizons, NEW asof \in Nat, NEW down,
           NEW call, ByCalendar(call, asof, down), NEW own, NEW prices
    PROVE  SoundRow(c, w, RecoverRights(c, w, own, prices, call))
<1> DEFINE calendar == TradingCalendar(asof, down)
           days == FirstOf(calendar, w)
           r == RecoverRights(c, w, own, prices, call)
<1>1. call.asof = asof /\ call.calendar = calendar
  BY DEF ByCalendar
<1>2. calendar \in SUBSET (0 .. asof) /\ 0 \notin calendar
  BY CalendarFacts
<1>3. days \in SUBSET (0 .. asof) /\ 0 \notin days
  BY <1>2 DEF FirstOf
<1> HIDE DEF calendar
<1>4. CASE r = None
  BY <1>4, NoneIsSound
<1>5. CASE r # None
  <2>1. /\ Cardinality(days) = w /\ {0} \cup days = {d \in Sessions : d <= Max(days)}
        /\ r = ResultRow("validated", "none", Max(days), asof, TRUE, "rights")
    BY <1>1, <1>5 DEF RecoverRights, RightsProven
  <2>2. InitialPart(days, Sessions \ {0})
    <3>1. \A d \in days, e \in Sessions : e <= d => e <= Max(days)
      <4>1. days # {} => Max(days) \in days /\ \A d \in days : d <= Max(days)
        BY <1>3, GreatestDay
      <4>2. \A d \in days : d \in Int
        BY <1>3
      <4>3. \A e \in Sessions : e \in Int
        BY WorldFacts
      <4> HIDE DEF days
      <4> QED
        BY <4>1, <4>2, <4>3
    <3> QED
      BY <2>1, <3>1, <1>3 DEF InitialPart
  <2>3. /\ Cardinality(WindowOf(w)) = w /\ Max(days) = Max(WindowOf(w)) /\ Max(days) <= asof
    BY <2>1, <2>2, <1>3, DaysAreWindow
  <2>4. r.status = "validated" /\ r.target = Max(days) /\ r.asof = asof /\ r.raw = TRUE
    BY <2>1 DEF ResultRow
  <2> QED
    BY <2>3, <2>4 DEF SoundRow
<1> QED
  BY <1>4, <1>5

\* Proof of a distribution or a reduction is of an event of the window.
LEMMA ActionsAreSound ==
    ASSUME WorldOK, NEW c \in Stocks, NEW w \in Horizons, NEW asof \in Nat, NEW down,
           NEW call, ByCalendar(call, asof, down), NEW own, NEW prices
    PROVE  SoundRow(c, w, ClassifyAction(c, w, own, prices, call))
<1> DEFINE past == After(Sessions, asof)
           days == FirstOf(past, w)
           r == ClassifyAction(c, w, own, prices, call)
<1>1. call.asof = asof
  BY DEF ByCalendar
<1>2. past \in SUBSET (0 .. asof) /\ past \subseteq Sessions \ {0}
  <2>1. Sessions \subseteq Nat
    BY WorldFacts
  <2>2. \A d \in Nat : 0 < d /\ d <= asof => d \in 0 .. asof /\ d # 0
    OBVIOUS
  <2> QED
    BY <2>1, <2>2 DEF After
<1>3. \A d \in past, e \in Sessions \ {0} : e <= d => e \in past
  <2>1. \A e \in Sessions \ {0} : e \in Int /\ 0 < e
    <3>1. \A e \in Sessions : e \in Nat
      BY WorldFacts
    <3> QED
      BY <3>1
  <2> QED
    BY <2>1, <1>2 DEF After
<1> HIDE DEF past
<1>4. CASE r = None
  BY <1>4, NoneIsSound
<1>5. CASE r # None
  <2>1. /\ Cardinality(days) = w /\ Event(c) \in {"distribution", "halt"} /\ EventDay \in days
        /\ r.status = "skipped"
    BY <1>1, <1>5 DEF ClassifyAction, ActionProven, ResultRow, past
  <2>2. InitialPart(days, Sessions \ {0})
    <3>1. InitialPart(days, past)
      <4>1. w \in Nat
        BY WorldFacts
      <4> QED
        BY <4>1, <1>2, FirstAreInitial
    <3> QED
      BY <3>1, <1>2, <1>3 DEF InitialPart
  <2>3. days = WindowOf(w)
    <3>1. days \in SUBSET (0 .. asof)
      BY <1>2 DEF FirstOf
    <3> QED
      BY <3>1, <2>1, <2>2, DaysAreWindow
  <2> QED
    BY <2>1, <2>3 DEF SoundRow
<1> QED
  BY <1>4, <1>5

\* The repair of a candidate's prices asks for every day that one of its mature
\* windows is judged on.
LEMMA RequiredFacts ==
    ASSUME WorldOK, NEW asof \in Nat, NEW down, NEW call, ByCalendar(call, asof, down),
           NEW pending \in SUBSET Windowed, NEW p \in pending, Mature(p, call)
    PROVE  LET required == RequiredDays(p[1], pending, call)
           IN /\ required \in SUBSET (0 .. asof)
              /\ FirstOf(TradingCalendar(asof, down), p[2]) \subseteq required
<1> DEFINE calendar == TradingCalendar(asof, down)
           mature == {q \in pending : q[1] = p[1] /\ Mature(q, call)}
           lengths == {q[2] : q \in mature}
<1>1. call.calendar = calendar
  BY DEF ByCalendar
<1>2. calendar \in SUBSET (0 .. asof)
  BY CalendarFacts
<1>3. p \in mature
  OBVIOUS
<1>4. lengths \in SUBSET (0 .. Lookback) /\ p[2] \in lengths /\ Lookback \in Nat
  <2>1. \A q \in Windowed : q[2] \in Horizons
    BY DEF Windowed
  <2>2. \A w \in Horizons : w \in 0 .. Lookback
    BY WorldFacts
  <2>3. Lookback \in Nat
    BY WorldFacts
  <2> QED
    BY <1>3, <2>1, <2>2, <2>3
<1> DEFINE longest == Max(lengths)
<1>5. RequiredDays(p[1], pending, call) = FirstOf(calendar, longest)
  BY <1>1, <1>3 DEF RequiredDays
<1> HIDE DEF calendar, lengths
<1>6. longest \in lengths /\ p[2] <= longest
  BY <1>4, GreatestDay
<1>7. longest \in Nat /\ p[2] \in Nat
  <2>1. \A n \in 0 .. Lookback : n \in Nat
    OBVIOUS
  <2> QED
    BY <2>1, <1>4, <1>6
<1> HIDE DEF longest
<1>8. FirstOf(calendar, p[2]) \subseteq FirstOf(calendar, longest)
  BY <1>2, <1>6, <1>7, FirstAreInitial
<1>9. FirstOf(calendar, longest) \in SUBSET (0 .. asof)
  BY <1>2 DEF FirstOf
<1> QED
  BY <1>5, <1>8, <1>9 DEF calendar

\* A row that may be stored of a window of the candidates.
Storable(f) == /\ f.window \in Windowed
               /\ SoundRow(f.window[1], f.window[2], f.row)

\* Whatever sources a call has lost, what its prices say may be stored.
LEMMA JudgedAreSound ==
    ASSUME WorldOK, NEW mode, NEW asof \in Nat, NEW down, NEW budget, NEW pending \in SUBSET Windowed
    PROVE  LET call  == Call(mode, asof, down, budget)
               fresh == Fresh(pending, call)
           IN \A f \in Judged(fresh, Repaired(fresh, call), call) : f.window \in fresh /\ Storable(f)
<1> DEFINE call     == Call(mode, asof, down, budget)
           fresh    == Fresh(pending, call)
           repaired == Repaired(fresh, call)
<1>1. call.asof = asof /\ call.down = down /\ ByCalendar(call, asof, down)
  BY CallIsByCalendar DEF Call
<1>2. fresh \in SUBSET Windowed /\ \A p \in fresh : Mature(p, call)
  BY DEF Fresh
<1> HIDE DEF call
<1>3. ASSUME NEW s \in repaired
      PROVE  \E lost : s.prices = Repair(s.stock, ProviderRows(s.stock, asof, down),
                                        RequiredDays(s.stock, fresh, call), lost)
  <2> DEFINE own(c)      == ProviderRows(c, call.asof, call.down)
             required(c) == RequiredDays(c, fresh, call)
             asking      == {c \in {p[1] : p \in fresh} : AsksRepair(c, own(c), required(c))}
             Row(c)      == [stock |-> c, asks |-> c \in asking, own |-> own(c),
                             prices |-> Repair(c, own(c), required(c),
                                               Within(call, Cardinality({b \in asking : b < c})).down)]
  <2>1. repaired = {Row(c) : c \in {p[1] : p \in fresh}}
    BY DEF Repaired
  <2>2. \A c : /\ Row(c).stock = c
               /\ \E lost : Row(c).prices = Repair(c, own(c), required(c), lost)
    OBVIOUS
  <2> HIDE DEF Row, repaired
  <2>3. PICK c : s = Row(c)
    BY <2>1, <1>3
  <2> QED
    BY <2>2, <2>3, <1>1
<1> HIDE DEF fresh, repaired
<1> SUFFICES ASSUME NEW f \in Judged(fresh, repaired, call) PROVE f.window \in fresh /\ Storable(f)
  BY DEF fresh, repaired, call
<1>4. PICK p \in fresh, s \in repaired :
         /\ p[1] = s.stock /\ f.window = p
         /\ f.row = EvaluateResearchWindow(p[1], p[2], s.prices, call)
  <2>1. PICK x \in {y \in fresh \X repaired : y[1][1] = y[2].stock} :
           f = [window |-> x[1], own |-> x[2].own, prices |-> x[2].prices,
                row |-> EvaluateResearchWindow(x[1][1], x[1][2], x[2].prices, call)]
    BY DEF Judged
  <2>2. /\ x[1] \in fresh /\ x[2] \in repaired /\ x[1][1] = x[2].stock
        /\ f.window = x[1] /\ f.row = EvaluateResearchWindow(x[1][1], x[1][2], x[2].prices, call)
    BY <2>1
  <2> QED
    BY <2>2
<1>5. PICK lost : s.prices = Repair(p[1], ProviderRows(p[1], asof, down),
                                    RequiredDays(p[1], fresh, call), lost)
  BY <1>3, <1>4
<1>6. p \in Windowed /\ p[1] \in Stocks /\ p[2] \in Horizons /\ Mature(p, call)
  BY <1>2 DEF Windowed
<1> DEFINE required == RequiredDays(p[1], fresh, call)
<1>7. required \in SUBSET (0 .. asof) /\ FirstOf(TradingCalendar(asof, down), p[2]) \subseteq required
  BY <1>1, <1>2, <1>6, RequiredFacts
<1> HIDE DEF required
<1>8. SoundRow(p[1], p[2], f.row)
  BY <1>1, <1>4, <1>5, <1>6, <1>7, EvaluateIsSound DEF required
<1> QED
  BY <1>4, <1>6, <1>8 DEF Storable

\* A proof of rights may be stored, whatever is left of the budget.
LEMMA RightsAreStorable ==
    ASSUME WorldOK, NEW mode, NEW asof \in Nat, NEW down, NEW budget, NEW asks,
           NEW claims, \A f \in claims : f.window \in Windowed,
           NEW f \in Rights(claims, asks, Call(mode, asof, down, budget))
    PROVE  Storable(f) /\ \E g \in claims : g.window = f.window
<1> DEFINE call == Call(mode, asof, down, budget)
<1>1. \A n : ByCalendar(Within(call, n), asof, down)
  BY CallIsByCalendar
<1>2. PICK g \in claims : \E n :
         f = [window |-> g.window,
              row |-> RecoverRights(g.window[1], g.window[2], g.own, g.prices, Within(call, n))]
  BY DEF Rights
<1> HIDE DEF call
<1>3. PICK n :
         f = [window |-> g.window,
              row |-> RecoverRights(g.window[1], g.window[2], g.own, g.prices, Within(call, n))]
  BY <1>2
<1>4. g.window \in Windowed /\ g.window[1] \in Stocks /\ g.window[2] \in Horizons
  BY DEF Windowed
<1>5. SoundRow(g.window[1], g.window[2],
               RecoverRights(g.window[1], g.window[2], g.own, g.prices, Within(call, n)))
  BY <1>1, <1>4, RightsAreSound
<1> QED
  BY <1>3, <1>4, <1>5 DEF Storable

\* And so may a proof of another action.
LEMMA ActionsAreStorable ==
    ASSUME WorldOK, NEW mode, NEW asof \in Nat, NEW down, NEW budget, NEW asks,
           NEW claims, \A f \in claims : f.window \in Windowed,
           NEW f \in Actions(claims, asks, Call(mode, asof, down, budget))
    PROVE  Storable(f) /\ \E g \in claims : g.window = f.window
<1> DEFINE call == Call(mode, asof, down, budget)
<1>1. \A n : ByCalendar(Within(call, n), asof, down)
  BY CallIsByCalendar
<1>2. PICK g \in claims : \E n :
         f = [window |-> g.window,
              row |-> ClassifyAction(g.window[1], g.window[2], g.own, g.prices, Within(call, n))]
  BY DEF Actions
<1> HIDE DEF call
<1>3. PICK n :
         f = [window |-> g.window,
              row |-> ClassifyAction(g.window[1], g.window[2], g.own, g.prices, Within(call, n))]
  BY <1>2
<1>4. g.window \in Windowed /\ g.window[1] \in Stocks /\ g.window[2] \in Horizons
  BY DEF Windowed
<1>5. SoundRow(g.window[1], g.window[2],
               ClassifyAction(g.window[1], g.window[2], g.own, g.prices, Within(call, n)))
  BY <1>1, <1>4, ActionsAreSound
<1> QED
  BY <1>3, <1>4, <1>5 DEF Storable

\* What a call finds is one of these, of a window that it was to judge.
LEMMA FindingsAreSound ==
    ASSUME NEW pending \in SUBSET Windowed, NEW judged, NEW proven, NEW call,
           \A f \in judged \cup proven : f.window \in pending /\ Storable(f)
    PROVE  LET found == Findings(pending, judged, proven, call)
           IN \A p \in DOMAIN found : p \in pending /\ SoundRow(p[1], p[2], found[p])
<1> DEFINE stale == {[window |-> p, row |-> Skipped("stale_candidate_price", 0, call.asof)]
                        : p \in {x \in pending : x[1] \in OutOfDate}}
           plain == {f \in judged : f.row.status # "pending" /\ \A g \in proven : g.window # f.window}
           all   == proven \cup (IF call.mode = "scoped" THEN {} ELSE plain \cup stale)
           found == Findings(pending, judged, proven, call)
<1>1. \A f \in stale : f.window \in pending /\ Storable(f)
  <2> SUFFICES ASSUME NEW p \in pending, p[1] \in OutOfDate
               PROVE  SoundRow(p[1], p[2], Skipped("stale_candidate_price", 0, call.asof))
    BY DEF Storable
  <2>1. Skipped("stale_candidate_price", 0, call.asof).status = "skipped"
    BY DEF Skipped, ResultRow
  <2> QED
    BY <2>1 DEF SoundRow
<1>2. found = [p \in {f.window : f \in all} |-> (CHOOSE f \in all : f.window = p).row]
  BY DEF Findings
<1> HIDE DEF stale, found
<1>3. \A f \in all : f.window \in pending /\ Storable(f)
  BY <1>1
<1> HIDE DEF all
<1>4. ASSUME NEW p \in DOMAIN found PROVE p \in pending /\ SoundRow(p[1], p[2], found[p])
  <2>1. \E f \in all : f.window = p
    BY <1>2
  <2> DEFINE g == CHOOSE f \in all : f.window = p
  <2>2. g \in all /\ g.window = p
    BY <2>1
  <2>3. found[p] = g.row
    BY <1>2, <1>4
  <2> HIDE DEF g
  <2> QED
    BY <2>2, <2>3, <1>3 DEF Storable
<1> QED
  BY <1>4 DEF found

\* So whatever a call loses on the way, what it has found in the end may be stored.
LEMMA ResearchFinds ==
    ASSUME WorldOK, NEW k \in Threads, NEW down, NEW budget, Research(k, down, budget),
           request[k].asof \in Nat, request[k].pending \in SUBSET Windowed
    PROVE  \E found, whole :
              /\ \A p \in DOMAIN found : p \in request[k].pending /\ SoundRow(p[1], p[2], found[p])
              /\ Conclude(k, found, whole)
<1> DEFINE asof     == request[k].asof
           pending  == request[k].pending
           mode     == request[k].mode
           call     == Call(mode, asof, down, budget)
           fresh    == Fresh(pending, call)
           repaired == Repaired(fresh, call)
           judged   == Judged(fresh, repaired, call)
           noticed  == Noticed(judged, call)
           asks     == Cardinality({s \in repaired : s.asks})
           rights   == {f \in Rights(noticed, asks, call) : f.row # None}
           unclear  == Unclear(judged, rights, call)
           others   == asks + Cardinality(noticed)
           actions  == {f \in Actions(unclear, others, call) : f.row # None}
           found    == Findings(pending, judged, rights \cup actions, call)
           whole    == down = {} /\ budget = Max(Budgets)
<1>1. Conclude(k, found, whole)
  BY ZenonT(60) DEF Research
<1> HIDE DEF found, whole, asks, others
<1>2. \A f \in judged : f.window \in pending /\ Storable(f)
  <2>1. \A f \in judged : f.window \in fresh /\ Storable(f)
    BY JudgedAreSound
  <2> QED
    BY <2>1 DEF Fresh
<1> HIDE DEF asof, pending, mode, fresh, repaired, judged
<1>3. /\ noticed \subseteq judged /\ unclear \subseteq judged
  BY DEF Noticed, Unclear
<1> HIDE DEF noticed, unclear
<1>4. \A f \in noticed \cup unclear : f.window \in Windowed /\ f.window \in pending
  BY <1>2, <1>3 DEF pending
<1>5. \A f \in rights : Storable(f) /\ f.window \in pending
  <2>1. asof \in Nat /\ \A f \in noticed : f.window \in Windowed
    BY <1>4 DEF asof
  <2>2. \A f \in Rights(noticed, asks, call) : Storable(f) /\ \E g \in noticed : g.window = f.window
    BY <2>1, RightsAreStorable
  <2> HIDE DEF call
  <2> QED
    BY <2>2, <1>4
<1>6. \A f \in actions : Storable(f) /\ f.window \in pending
  <2>1. asof \in Nat /\ \A f \in unclear : f.window \in Windowed
    BY <1>4 DEF asof
  <2>2. \A f \in Actions(unclear, others, call) : Storable(f) /\ \E g \in unclear : g.window = f.window
    BY <2>1, ActionsAreStorable
  <2> HIDE DEF call
  <2> QED
    BY <2>2, <1>4
<1> HIDE DEF call, rights, actions
<1>7. \A p \in DOMAIN found : p \in pending /\ SoundRow(p[1], p[2], found[p])
  BY <1>2, <1>5, <1>6, FindingsAreSound DEF found, pending
<1> QED
  BY <1>1, <1>7 DEF pending

-----------------------------------------------------------------------------
(* ResearchValidation: the inductive invariant *)

\* A request judges windows of the candidates, on a day that has a date, and
\* what it has found of them may be stored.
Fields == {"phase", "mode", "asof", "pending", "found", "whole"}
RequestsOK ==
    /\ request = [k \in Threads |-> request[k]]
    /\ \A k \in Threads :
          /\ DOMAIN request[k] = Fields
          /\ request[k].asof \in Nat /\ request[k].pending \subseteq Windowed
          /\ \A p \in DOMAIN request[k].found :
                p \in Windowed /\ SoundRow(p[1], p[2], request[k].found[p])

RowsOK == \A c \in Stocks, w \in Horizons : SoundRow(c, w, verdicts[c][w])

ResearchIInv == WorldOK /\ RequestsOK /\ RowsOK

\* Rows that may be stored are sound.
LEMMA ResearchIInvIsEnough == ResearchIInv => VerdictsAreSound
BY DEF ResearchIInv, RowsOK, SoundRow, VerdictsAreSound, ValidatedIsOfficial, ClosedForCause

\* What a thread at rest holds.
LEMMA RestingIsOK ==
    /\ DOMAIN Resting = Fields
    /\ Resting.asof = 0 /\ Resting.pending = {} /\ DOMAIN Resting.found = {} /\ Resting.phase = "idle"
BY DEF Resting, Fields

\* Nothing is stored and nothing asked at first.
LEMMA InitResearch == ResearchBounds /\ ResearchInit => ResearchIInv
<1> SUFFICES ASSUME ResearchBounds, ResearchInit PROVE ResearchIInv
  OBVIOUS
<1> USE DEF ResearchInit
<1>1. WorldOK
  BY DEF WorldOK
<1>2. RequestsOK
  BY RestingIsOK DEF RequestsOK
<1>3. RowsOK
  BY NoneIsSound DEF RowsOK
<1> QED
  BY <1>1, <1>2, <1>3 DEF ResearchIInv

\* The market and the sources never change, so neither does what may be stored.
LEMMA SoundStays ==
    ASSUME world' = world
    PROVE  /\ Windowed' = Windowed /\ Horizons' = Horizons /\ (WorldOK <=> WorldOK')
           /\ Sessions' = Sessions /\ Archived' = Archived /\ OutOfDate' = OutOfDate
           /\ EventDay' = EventDay /\ \A c : Event(c)' = Event(c)
           /\ \A w : WindowOf(w)' = WindowOf(w)
<1>1. /\ Sessions' = Sessions /\ Horizons' = Horizons /\ Archived' = Archived
      /\ OutOfDate' = OutOfDate /\ EventDay' = EventDay /\ \A c : Event(c)' = Event(c)
  BY DEF Sessions, Horizons, Archived, OutOfDate, EventDay, Event
<1>2. \A w : WindowOf(w)' = WindowOf(w)
  BY <1>1 DEF WindowOf
<1> QED
  BY <1>1, <1>2 DEF Windowed, WorldOK, ResearchBounds

\* What a step that leaves the market alone has to show.
LEMMA ResearchFrame ==
    ASSUME ResearchIInv, world' = world,
           RequestsOK => RequestsOK', RowsOK => RowsOK'
    PROVE  ResearchIInv'
BY SoundStays DEF ResearchIInv

\* One request that changes keeps the others.
LEMMA RequestStep ==
    ASSUME RequestsOK, world' = world, NEW k \in Threads, NEW q,
           request' = [request EXCEPT ![k] = q],
           DOMAIN q = Fields, q.asof \in Nat, q.pending \subseteq Windowed,
           \A p \in DOMAIN q.found : p \in Windowed /\ SoundRow(p[1], p[2], q.found[p])
    PROVE  RequestsOK'
<1>1. request' = [j \in Threads |-> IF j = k THEN q ELSE request[j]]
  BY DEF RequestsOK
<1>2. \A j \in Threads : request'[j] = IF j = k THEN q ELSE request[j]
  BY <1>1
<1>4. request' = [j \in Threads |-> request'[j]]
  BY <1>1
<1>5. \A j \in Threads :
          /\ DOMAIN request'[j] = Fields
          /\ request'[j].asof \in Nat /\ request'[j].pending \subseteq Windowed
          /\ \A p \in DOMAIN request'[j].found :
                p \in Windowed /\ SoundRow(p[1], p[2], request'[j].found[p])
  <2> SUFFICES ASSUME NEW j \in Threads
               PROVE  LET s == request'[j] IN
                      /\ DOMAIN s = Fields
                      /\ s.asof \in Nat /\ s.pending \subseteq Windowed
                      /\ \A p \in DOMAIN s.found : p \in Windowed /\ SoundRow(p[1], p[2], s.found[p])
    OBVIOUS
  <2>1. CASE j = k
    BY <2>1, <1>2
  <2>2. CASE j # k
    BY <2>2, <1>2 DEF RequestsOK
  <2> QED
    BY <2>1, <2>2
<1> QED
  BY <1>4, <1>5, SoundStays DEF RequestsOK, SoundRow, Proven, Closed

\* A request that ends.
LEMMA RestStep ==
    ASSUME RequestsOK, world' = world, NEW k \in Threads,
           request' = [request EXCEPT ![k] = Resting]
    PROVE  RequestsOK'
<1>1. /\ DOMAIN Resting = Fields /\ Resting.asof \in Nat /\ Resting.pending \subseteq Windowed
      /\ \A p \in DOMAIN Resting.found : p \in Windowed /\ SoundRow(p[1], p[2], Resting.found[p])
  BY RestingIsOK
<1> QED
  BY <1>1, RequestStep

\* The calendar and the canonical run may move on under a request.
LEMMA OutsideResearch == ResearchIInv /\ (DayPasses \/ Rerun \/ UNCHANGED researchVars) => ResearchIInv'
<1> SUFFICES ASSUME ResearchIInv, DayPasses \/ Rerun \/ UNCHANGED researchVars PROVE ResearchIInv'
  OBVIOUS
<1>1. world' = world /\ request' = request /\ verdicts' = verdicts
  BY DEF DayPasses, Rerun, researchVars
<1>2. RequestsOK => RequestsOK'
  BY <1>1, SoundStays DEF RequestsOK, SoundRow, Proven, Closed
<1>3. RowsOK => RowsOK'
  BY <1>1, SoundStays DEF RowsOK, SoundRow, Proven, Closed
<1> QED
  BY <1>1, <1>2, <1>3, ResearchFrame

\* A step of a request that stores nothing.
LEMMA RowsStay == RowsOK /\ world' = world /\ verdicts' = verdicts => RowsOK'
BY SoundStays DEF RowsOK, SoundRow, Proven, Closed

\* A call judges windows of the candidates only.
LEMMA StartStep ==
    ASSUME ResearchIInv, NEW k \in Threads, NEW mode, NEW asof \in 0 .. LastDate, Start(k, mode, asof)
    PROVE  ResearchIInv'
<1> DEFINE q == [Resting EXCEPT !.phase = "started", !.mode = mode, !.asof = asof,
                                !.pending = ToEvaluate(mode, asof)]
<1>1. /\ world' = world /\ verdicts' = verdicts
      /\ request' = [request EXCEPT ![k] = q]
  BY DEF Start
<1>2. ToEvaluate(mode, asof) \subseteq Windowed
  BY DEF ToEvaluate, Resumed
<1>3. asof \in Nat
  BY WorldFacts DEF ResearchIInv
<1>4. /\ DOMAIN q = Fields /\ q.asof = asof /\ q.pending = ToEvaluate(mode, asof)
      /\ q.found = Resting.found
  BY RestingIsOK DEF Fields
<1> HIDE DEF q
<1>5. RequestsOK => RequestsOK'
  BY <1>1, <1>2, <1>3, <1>4, RestingIsOK, RequestStep
<1> QED
  BY <1>1, <1>5, RowsStay, ResearchFrame

\* Whatever it has lost, it finds only what may be stored.
LEMMA ResearchStep ==
    ASSUME ResearchIInv, NEW k \in Threads, NEW down, NEW budget, Research(k, down, budget)
    PROVE  ResearchIInv'
<1>0. RequestsOK /\ WorldOK
  BY DEF ResearchIInv
<1>1. /\ DOMAIN request[k] = Fields /\ request[k].asof \in Nat /\ request[k].pending \in SUBSET Windowed
      /\ request = [j \in Threads |-> request[j]]
  BY <1>0 DEF RequestsOK
<1>2. world' = world /\ verdicts' = verdicts
  BY DEF Research
<1>3. PICK found, whole :
         /\ \A p \in DOMAIN found : p \in request[k].pending /\ SoundRow(p[1], p[2], found[p])
         /\ Conclude(k, found, whole)
  BY <1>0, <1>1, ResearchFinds
<1> DEFINE q == [request[k] EXCEPT !.phase = "concluded", !.pending = {}, !.whole = whole, !.found = found]
<1>4. request' = [request EXCEPT ![k] = q]
  BY <1>1, <1>3 DEF Conclude
<1>5. DOMAIN q = Fields /\ q.asof = request[k].asof /\ q.pending = {} /\ q.found = found
  BY <1>1 DEF Fields
<1> HIDE DEF q
<1>6. RequestsOK'
  BY <1>0, <1>1, <1>2, <1>3, <1>4, <1>5, RequestStep
<1> QED
  BY <1>2, <1>6, RowsStay, ResearchFrame

\* A call that is cut off leaves nothing.
LEMMA DropStep ==
    ASSUME ResearchIInv, NEW k \in Threads, Drop(k)
    PROVE  ResearchIInv'
<1>1. world' = world /\ verdicts' = verdicts /\ request' = [request EXCEPT ![k] = Resting]
  BY DEF Drop
<1>2. RequestsOK => RequestsOK'
  BY <1>1, RestStep
<1> QED
  BY <1>1, <1>2, RowsStay, ResearchFrame

\* A row is what it was, or what the request has found.
LEMMA SavedRows ==
    ASSUME NEW k \in Threads, Save(k), NEW c \in Stocks, NEW w \in Horizons
    PROVE  \/ verdicts'[c][w] = verdicts[c][w]
           \/ /\ <<c, w>> \in DOMAIN request[k].found /\ ~Proven(verdicts[c][w])
              /\ verdicts'[c][w] = request[k].found[<<c, w>>]
BY DEF Save, Accepted

\* What a request has found it may store, though the rows have changed.
LEMMA SaveStep ==
    ASSUME ResearchIInv, NEW k \in Threads, Save(k)
    PROVE  ResearchIInv'
<1>1. world' = world /\ request' = [request EXCEPT ![k] = Resting]
  BY DEF Save
<1>2. RequestsOK => RequestsOK'
  BY <1>1, RestStep
<1>3. ASSUME NEW c \in Stocks, NEW w \in Horizons PROVE SoundRow(c, w, verdicts'[c][w])
  <2>1. SoundRow(c, w, verdicts[c][w])
    BY DEF ResearchIInv, RowsOK
  <2>2. \A p \in DOMAIN request[k].found : SoundRow(p[1], p[2], request[k].found[p])
    BY DEF ResearchIInv, RequestsOK
  <2>3. <<c, w>>[1] = c /\ <<c, w>>[2] = w
    OBVIOUS
  <2> QED
    BY <2>1, <2>2, <2>3, SavedRows
<1>4. RowsOK'
  BY <1>1, <1>3, SoundStays DEF RowsOK, SoundRow, Proven, Closed
<1> QED
  BY <1>1, <1>2, <1>4, ResearchFrame

\* Every step keeps the invariant.
LEMMA ResearchInductive == ResearchIInv /\ [ResearchNext]_researchVars => ResearchIInv'
<1> SUFFICES ASSUME ResearchIInv, [ResearchNext]_researchVars PROVE ResearchIInv'
  OBVIOUS
<1>1. Active \subseteq Threads
  BY WorldFacts DEF ResearchIInv
<1>2. CASE DayPasses \/ Rerun \/ UNCHANGED researchVars
  BY <1>2, OutsideResearch
<1>3. ASSUME NEW k \in Active, NEW mode, NEW asof \in 0 .. LastDate, Start(k, mode, asof) PROVE ResearchIInv'
  BY <1>1, <1>3, StartStep
<1>4. ASSUME NEW k \in Active, NEW down, NEW budget, Research(k, down, budget) PROVE ResearchIInv'
  BY <1>1, <1>4, ResearchStep
<1>5. ASSUME NEW k \in Active, Save(k) PROVE ResearchIInv'
  BY <1>1, <1>5, SaveStep
<1>6. ASSUME NEW k \in Active, Drop(k) PROVE ResearchIInv'
  BY <1>1, <1>6, DropStep
<1> QED
  BY <1>2, <1>3, <1>4, <1>5, <1>6 DEF ResearchNext

-----------------------------------------------------------------------------
(* ResearchValidation: what is settled *)

\* Only the threads that are called hold requests, and a due call that is alone
\* judges no window that is settled.
UnsettledOnly ==
    /\ \A k \in Threads \ Active : request[k] = Resting
    /\ OneDue => \A k \in Active : \A p \in request[k].pending \cup DOMAIN request[k].found : Open(p)

\* At first no thread holds a request.
LEMMA InitUnsettled == ResearchBounds /\ ResearchInit => UnsettledOnly
<1> SUFFICES ASSUME ResearchBounds, ResearchInit PROVE UnsettledOnly
  OBVIOUS
<1>1. \A k \in Threads : request[k] = Resting
  BY DEF ResearchInit
<1>2. \A k \in Threads : request[k].pending = {} /\ DOMAIN request[k].found = {}
  BY <1>1, RestingIsOK
<1>3. Active \subseteq Threads
  BY WorldFacts DEF WorldOK, ResearchInit
<1> QED
  BY <1>1, <1>2, <1>3 DEF UnsettledOnly

\* A request of the only thread is judged on rows that none else writes.
LEMMA UnsettledStep ==
    ResearchIInv /\ UnsettledOnly /\ [ResearchNext]_researchVars => UnsettledOnly'
<1> SUFFICES ASSUME ResearchIInv, UnsettledOnly, [ResearchNext]_researchVars PROVE UnsettledOnly'
  OBVIOUS
<1>0. /\ Active \subseteq Threads /\ request = [j \in Threads |-> request[j]]
      /\ \A j \in Threads : DOMAIN request[j] = Fields
  BY WorldFacts DEF ResearchIInv, RequestsOK
<1>1. world' = world
  BY DEF ResearchNext, DayPasses, Rerun, Start, Research, Save, Drop, researchVars
<1>2. Active' = Active /\ (OneDue' <=> OneDue)
  BY <1>1 DEF Active, Requests, OneDue
<1> DEFINE judged(k) == request[k].pending \cup DOMAIN request[k].found
\* A step of a request that stores nothing and looks only at what is open.
<1>3. ASSUME NEW k \in Active, NEW q, request' = [request EXCEPT ![k] = q], verdicts' = verdicts,
             OneDue => \A p \in q.pending \cup DOMAIN q.found : Open(p)
      PROVE  UnsettledOnly'
  <2>1. \A j \in Threads : request'[j] = IF j = k THEN q ELSE request[j]
    BY <1>0, <1>3
  <2>2. \A p : Open(p)' <=> Open(p)
    BY <1>3 DEF Open
  <2>3. \A j \in Threads \ Active : request'[j] = Resting
    BY <2>1 DEF UnsettledOnly
  <2>4. OneDue => \A j \in Active : \A p \in request'[j].pending \cup DOMAIN request'[j].found : Open(p)
    BY <2>1, <1>0, <1>3 DEF UnsettledOnly
  <2> QED
    BY <1>1, <1>2, <1>3, <2>2, <2>3, <2>4 DEF UnsettledOnly, Open, Resting, Closed
<1>4. CASE DayPasses \/ Rerun \/ UNCHANGED researchVars
  <2>1. request' = request /\ verdicts' = verdicts
    BY <1>4 DEF DayPasses, Rerun, researchVars
  <2> QED
    BY <2>1, <1>1, <1>2 DEF UnsettledOnly, Open, Resting, Closed
<1>5. ASSUME NEW k \in Active, NEW mode \in Requests, NEW asof \in 0 .. LastDate, Start(k, mode, asof)
      PROVE  UnsettledOnly'
  <2> DEFINE q == [Resting EXCEPT !.phase = "started", !.mode = mode, !.asof = asof,
                                  !.pending = ToEvaluate(mode, asof)]
  <2>1. request' = [request EXCEPT ![k] = q] /\ verdicts' = verdicts
    BY <1>5 DEF Start
  <2>2. q.pending = ToEvaluate(mode, asof) /\ DOMAIN q.found = {}
    BY RestingIsOK DEF Fields
  <2>3. OneDue => \A p \in ToEvaluate(mode, asof) : Open(p)
    <3>1. OneDue => mode = "due"
      BY <1>5 DEF OneDue
    <3> QED
      BY <3>1 DEF ToEvaluate
  <2> HIDE DEF q
  <2> QED
    BY <2>1, <2>2, <2>3, <1>3
<1>6. ASSUME NEW k \in Active, NEW down, NEW budget, Research(k, down, budget) PROVE UnsettledOnly'
  <2>0. /\ k \in Threads /\ WorldOK
        /\ request[k].asof \in Nat /\ request[k].pending \in SUBSET Windowed
    BY <1>0 DEF ResearchIInv, RequestsOK
  <2>1. PICK found, whole :
           (\A p \in DOMAIN found : p \in request[k].pending) /\ Conclude(k, found, whole)
    BY <2>0, <1>6, ResearchFinds
  <2> DEFINE q == [request[k] EXCEPT !.phase = "concluded", !.pending = {}, !.whole = whole, !.found = found]
  <2>2. verdicts' = verdicts
    BY <1>6 DEF Research
  <2>5. request' = [request EXCEPT ![k] = q]
    BY <2>0, <2>1, <1>0 DEF Conclude
  <2>3. q.pending = {} /\ q.found = found
    BY <2>0, <1>0 DEF Fields
  <2>4. OneDue => \A p \in request[k].pending : Open(p)
    BY DEF UnsettledOnly
  <2> HIDE DEF q
  <2> QED
    BY <2>1, <2>2, <2>3, <2>4, <2>5, <1>3
<1>7. ASSUME NEW k \in Active, Save(k) PROVE UnsettledOnly'
  <2>1. \A j \in Threads : request'[j] = IF j = k THEN Resting ELSE request[j]
    BY <1>0, <1>7 DEF Save
  <2>2. OneDue => \A j \in Active : j = k
    BY DEF OneDue
  <2>3. OneDue => \A j \in Active : request'[j].pending \cup DOMAIN request'[j].found = {}
    BY <2>1, <2>2, <1>0, RestingIsOK
  <2>4. \A j \in Threads \ Active : request'[j] = Resting
    BY <2>1 DEF UnsettledOnly
  <2> QED
    BY <1>1, <1>2, <2>3, <2>4 DEF UnsettledOnly, Resting
<1>8. ASSUME NEW k \in Active, Drop(k) PROVE UnsettledOnly'
  <2>1. request' = [request EXCEPT ![k] = Resting] /\ verdicts' = verdicts
    BY <1>8 DEF Drop
  <2>2. Resting.pending \cup DOMAIN Resting.found = {}
    BY RestingIsOK
  <2> QED
    BY <2>1, <2>2, <1>3
<1> QED
  BY <1>4, <1>5, <1>6, <1>7, <1>8 DEF ResearchNext

\* Official evidence is never overwritten, and what is settled is judged by no
\* due call that is alone.
Kept == \A c \in Stocks, w \in Horizons :
           (Proven(verdicts[c][w]) \/ (OneDue /\ Closed(verdicts[c][w])))
           => verdicts'[c][w] = verdicts[c][w]

\* Every step keeps what is settled.
LEMMA SettledStaysStep == ResearchIInv /\ UnsettledOnly /\ [ResearchNext]_researchVars => Kept
<1> SUFFICES ASSUME ResearchIInv, UnsettledOnly, [ResearchNext]_researchVars PROVE Kept
  OBVIOUS
<1>1. CASE verdicts' = verdicts
  BY <1>1 DEF Kept
<1>2. ASSUME NEW k \in Active, Save(k) PROVE Kept
  <2>1. k \in Threads
    BY WorldFacts DEF ResearchIInv
  <2> SUFFICES ASSUME NEW c \in Stocks, NEW w \in Horizons,
                      Proven(verdicts[c][w]) \/ (OneDue /\ Closed(verdicts[c][w]))
               PROVE  verdicts'[c][w] = verdicts[c][w]
    BY DEF Kept
  <2>2. CASE Proven(verdicts[c][w])
    BY <2>1, <2>2, <1>2, SavedRows
  <2>3. CASE OneDue /\ Closed(verdicts[c][w])
    <3>1. ~Open(<<c, w>>)
      BY <2>3 DEF Open
    <3>2. <<c, w>> \notin DOMAIN request[k].found
      BY <3>1, <2>3 DEF UnsettledOnly
    <3> QED
      BY <3>2, <2>1, <1>2, SavedRows
  <2> QED
    BY <2>2, <2>3
<1> QED
  BY <1>1, <1>2 DEF ResearchNext, DayPasses, Rerun, Start, Research, Drop, researchVars

-----------------------------------------------------------------------------
(* ResearchValidation: theorems *)

\* What a request has found and what is stored agree with what became of their
\* windows in every state, so no step has to trust an earlier one.
THEOREM ResearchSafe == ASSUME ResearchBounds PROVE ResearchSpec => []ResearchIInv
<1>1. ResearchInit => ResearchIInv
  BY InitResearch
<1>2. ResearchIInv /\ [ResearchNext]_researchVars => ResearchIInv'
  BY ResearchInductive
<1> QED
  BY <1>1, <1>2, PTL DEF ResearchSpec

\* Whatever sources a call loses, whatever the provider adjusts, lacks or gets
\* wrong, and however calls overlap: a validated window ends on its n-th session
\* and rests on no price that the archive contradicts, and a window is given up
\* only for a stale candidate or an event of its own days.
THEOREM VerdictsSound == ASSUME ResearchBounds PROVE ResearchSpec => []VerdictsAreSound
<1> QED
  BY ResearchSafe, ResearchIInvIsEnough, PTL

\* An overlapping call that looked earlier never overwrites what official
\* evidence has settled, and a due call that is alone nothing that is settled.
THEOREM ProvenKept == ASSUME ResearchBounds PROVE ResearchSpec => ProvenStays
<1>1. ResearchInit => UnsettledOnly
  BY InitUnsettled
<1>2. ResearchIInv /\ UnsettledOnly /\ [ResearchNext]_researchVars => UnsettledOnly'
  BY UnsettledStep
<1>3. ResearchIInv /\ UnsettledOnly /\ [ResearchNext]_researchVars => Kept
  BY SettledStaysStep
<1>4. ProvenStays <=> [][Kept]_researchVars
  BY DEF ProvenStays, Kept
<1> QED
  BY <1>1, <1>2, <1>3, <1>4, ResearchSafe, PTL DEF ResearchSpec

\* Neither a fund's history nor a verdict with official evidence is lost, wherever
\* both components run.
THEOREM NothingLost == ASSUME ResearchBounds PROVE EtfSpec /\ ResearchSpec => NothingIsLost
<1> QED
  BY HistoriesKept, ProvenKept DEF NothingIsLost
=============================================================================
