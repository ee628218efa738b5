------------------------------ MODULE ActiveEtf ------------------------------
(***************************************************************************)
(* Holdings of the active exchange-traded funds (active_etf_holdings/).    *)
(*                                                                         *)
(* The exchange lists the funds and a public site shows one page per fund: *)
(* the holdings of its latest disclosed day.  A scheduled refresh takes    *)
(* the listing, fetches the page of every fund and stores, one             *)
(* transaction per fund, the raw page as an observation and the parsed     *)
(* rows as the snapshot of the date the page bears.  Users read the        *)
(* differences of one day against each fund's preceding snapshot, and the  *)
(* movements of a share over an interval.                                  *)
(*                                                                         *)
(* The workflow's concurrency group lets one refresh run at a time.        *)
(***************************************************************************)
EXTENDS Integers, Sequences, FiniteSets, FiniteSetsExt, TLC

CONSTANTS
    Funds,          \* fund codes, naturals: transactions run in code order
    Symbols,        \* securities a page may name
    LastDay,        \* bound: days 1..LastDay
    EtfSettings,    \* instances: the funds listed first, the tables each page
                    \* may show, the funds
                    \* whose page may be odd, the days, and bounds on changes of the
                    \* listing, on pages replaced within their day and on faults
    MinSample,      \* common holdings a scale estimate needs (5 in the code)
    KeptNum, KeptDen \* share of the enabled funds a listing must reach (4/5)

ASSUME FundsAreCodes == Funds \subseteq Nat /\ Funds # {} /\ IsFiniteSet(Funds)
ASSUME EtfBounds == LastDay \in Nat \ {0} /\ MinSample \in Nat \ {0}
ASSUME EtfSettingsAssumption ==
    \A e \in EtfSettings : e.listed \subseteq Funds /\ e.days \in 1..LastDay
\* A page has finitely many rows, and parsing only takes counts for shares.
Counted(rows) == IsFiniteSet(DOMAIN rows) /\ \A i \in DOMAIN rows : rows[i].shares \in Nat
ASSUME TablesAreCounted ==
    \A e \in EtfSettings, f \in Funds : \A t \in e.tables[f] : Counted(t)
ASSUME KeptIsAShare == KeptNum \in Nat /\ KeptDen \in Nat \ {0} /\ KeptNum <= KeptDen

VARIABLES
    etf,         \* the instance, fixed
    day,         \* the day by the exchange's calendar
    listing,     \* the exchange's answer: the set of listed funds
    page,        \* the page the site shows for each fund
    used,        \* how much of each bound is used up
    registry,    \* ActiveEtfFund rows: "absent", "enabled" or "disabled"
    observation, \* ActiveEtfSourceObservation: the raw page per fund and date
    snapshot,    \* ActiveEtfHoldingSnapshot: evidence and holdings per fund and date
    job          \* the refresh that is running, Idle when none is

etfVars == <<etf, day, listing, page, used,
             registry, observation, snapshot, job>>

Days == 1..LastDay
Idle == [phase |-> "idle"]

Spend(what) ==
    /\ used[what] < etf.bounds[what]
    /\ used' = [used EXCEPT ![what] = @ + 1]

-----------------------------------------------------------------------------
\* Pages.  A row is a security with its shares; a row that is not an equity
\* (cash, futures) carries equity = FALSE.  date = 0 is a page without a date.

Page(heading, empty, date, rows) ==
    [heading |-> heading, empty |-> empty, date |-> date, rows |-> rows]

NoPage == Page(FALSE, TRUE, 0, <<>>)

\* The pages a fund may come to show on day d: its table, an explicit "no
\* data" row, a page dated ahead of the day, and another fund's page.
PagesOf(f, d) ==
    {Page(TRUE, FALSE, d, t) : t \in etf.tables[f]}
        \cup {p \in {Page(TRUE, TRUE, d, <<>>), Page(FALSE, FALSE, d, <<>>),
                     Page(TRUE, FALSE, d + 1, <<[symbol |-> 1, shares |-> 1, equity |-> TRUE]>>)} :
                 f \in etf.odd}

\* The positions of the equities' rows.
EquityRows(p) == {i \in DOMAIN p.rows : p.rows[i].equity}

Twice(p) == \E i, j \in EquityRows(p) : i # j /\ p.rows[i].symbol = p.rows[j].symbol

\* Mutant: the page's date is not compared with today.
TakesFutureDates(p, today) ==
    IF ~p.heading THEN "identity_mismatch"
    ELSE IF p.empty THEN "not_published"
    ELSE "ok"

\* What parsing a page concludes, in the order of the code's checks.
Verdict(p, today) ==
    CASE ~p.heading -> "identity_mismatch"
      [] p.heading /\ p.empty -> "not_published"
      [] p.heading /\ ~p.empty /\ p.date = 0 -> "date_missing"
      [] p.heading /\ ~p.empty /\ p.date > today -> "date_in_future"
      [] OTHER -> IF Twice(p) THEN "duplicate_holding"
                  ELSE IF EquityRows(p) = {} THEN "empty" ELSE "ok"

\* The holdings of a page that parses: shares by security.
Holdings(p) ==
    [s \in {p.rows[i].symbol : i \in EquityRows(p)} |->
        p.rows[CHOOSE i \in EquityRows(p) : p.rows[i].symbol = s].shares]

\* A row of active_etf_holding_snapshots with its holdings; "evidence" is the
\* hash of the raw page in verification_details.
Snapshot(evidence, holdings) == [evidence |-> evidence, holdings |-> holdings]

NoSnapshot == Snapshot(NoPage, <<>>)

Stored(f) == {d \in Days : snapshot[f][d] # NoSnapshot}
Enabled == {f \in Funds : registry[f] = "enabled"}

-----------------------------------------------------------------------------
\* The exchange, the site and the calendar.

NextDay ==
    /\ day < etf.days
    /\ day' = day + 1
    /\ UNCHANGED <<etf, listing, page, used,
                   registry, observation, snapshot, job>>

Relist ==
    /\ Spend("relistings")
    /\ listing' \in SUBSET Funds \ {listing}
    /\ UNCHANGED <<etf, day, page, registry, observation, snapshot, job>>

\* A fund's page comes to show today, or is replaced within the day.
Publish(f) ==
    /\ page' \in {[page EXCEPT ![f] = p] : p \in PagesOf(f, day) \ {page[f]}}
    /\ IF page[f].date < day
       THEN used' = used ELSE Spend("corrections")
    /\ UNCHANGED <<etf, day, listing, registry, observation, snapshot, job>>

-----------------------------------------------------------------------------
\* The refresh.

\* Mutant: the guard against a short listing is missing.
AcceptsAnyListing(listed) == TRUE

\* Does a listing reach the share of the enabled funds it must reach?
Covers(listed) == Cardinality(listed) * KeptDen >= Cardinality(Enabled) * KeptNum

\* Mutant: a fund that left the listing loses its row and its history's owner.
ForgetsUnlisted(listed) ==
    [f \in Funds |-> IF f \in listed THEN "enabled" ELSE "absent"]

\* The rows after a listing is taken over: listed funds are enabled, the
\* others disabled, none is deleted.
Synced(listed) ==
    [f \in Funds |-> IF f \in listed THEN "enabled"
                     ELSE IF registry[f] = "absent" THEN "absent" ELSE "disabled"]

\* An empty listing, an unlisted fund or a short listing refuses the call
\* before anything is written.
Refuse ==
    /\ job = Idle
    /\ listing # Funds \/ ~Covers(listing)
    /\ UNCHANGED etfVars

\* A call of the refresh endpoint for the given funds.
Begin(selected) ==
    /\ job = Idle
    /\ selected # {}
    /\ selected \subseteq listing
    /\ Covers(listing)
    /\ registry' = Synced(listing)
    /\ job' = [phase |-> "fetch", left |-> selected, failed |-> {}, unpublished |-> {}]
    /\ UNCHANGED <<etf, day, listing, page, used, observation, snapshot>>

\* The scheduled call names no fund: every listed one is selected.
BeginAll == Begin(listing)
BeginSome == \E selected \in SUBSET listing : Begin(selected)

\* Mutant: one page that cannot be parsed ends the call for all.
FetchTogether(broken) ==
    /\ job.phase = "fetch"
    /\ broken \subseteq job.left
    /\ LET parsed == {f \in job.left \ broken : Verdict(page[f], day) = "ok"}
           kept == IF parsed = job.left THEN parsed ELSE {}
       IN  job' = [phase |-> "store", left |-> kept, failed |-> job.left \ kept,
                   unpublished |-> {}, got |-> [f \in kept |-> page[f]]]
    /\ UNCHANGED <<etf, day, listing, page, registry, observation, snapshot>>

\* The pool fetches and parses every selected page; each request fails or
\* not on its own.  Each reads one page, so the pool is one step.
Fetch(broken) ==
    /\ job.phase = "fetch"
    /\ broken \subseteq job.left
    /\ LET unpublished == {f \in job.left \ broken :
                              Verdict(page[f], day) = "not_published"}
           parsed == {f \in job.left \ broken : Verdict(page[f], day) = "ok"}
       IN  job' = [phase |-> "store", left |-> parsed,
                   failed |-> job.left \ (parsed \cup unpublished),
                   unpublished |-> unpublished,
                   got |-> [f \in parsed |-> page[f]]]
    /\ UNCHANGED <<etf, day, listing, page, registry, observation, snapshot>>

FetchAll == Fetch({}) /\ UNCHANGED used
FetchSome ==
    /\ job.phase = "fetch"
    /\ \E broken \in SUBSET job.left \ {{}} : Fetch(broken)
    /\ Spend("faults")

\* Mutant: an observation that exists is kept as it is.
KeepsFirstObservation(f, p) ==
    IF observation[f][p.date] # NoPage THEN observation
    ELSE [observation EXCEPT ![f][p.date] = p]

\* _upsert_observation: the page replaces the observation of its date.
Observed(f, p) == [observation EXCEPT ![f][p.date] = p]

\* Mutant: a snapshot is reused whenever the holdings are the same.
ReusesOnHoldingsAlone(f, p) ==
    LET old == snapshot[f][p.date]
    IN  IF old # NoSnapshot /\ old.holdings = Holdings(p) THEN snapshot
        ELSE [snapshot EXCEPT ![f][p.date] = Snapshot(p, Holdings(p))]

\* Mutant: new rows are added to those of the earlier page.
AddsToOldHoldings(f, p) ==
    LET old == snapshot[f][p.date]
    IN  [snapshot EXCEPT ![f][p.date] =
            Snapshot(p, IF old = NoSnapshot THEN Holdings(p) ELSE Holdings(p) @@ old.holdings)]

\* _upsert_snapshot: the row of the page's date is reused when holdings and
\* evidence are unchanged, otherwise its holdings are deleted and rewritten.
Upserted(f, p) ==
    LET new == Snapshot(p, Holdings(p))
    IN  IF snapshot[f][p.date] = new THEN snapshot
        ELSE [snapshot EXCEPT ![f][p.date] = new]

\* The transaction of the next fund in code order.
Store ==
    /\ job.phase = "store"
    /\ job.left # {}
    /\ LET f == Min(job.left)
       IN  /\ observation' = Observed(f, job.got[f])
           /\ snapshot' = Upserted(f, job.got[f])
           /\ job' = [job EXCEPT !.left = @ \ {f}]
    /\ UNCHANGED <<etf, day, listing, page, used, registry>>

\* The transaction fails and is rolled back; the next fund follows.
StoreFails ==
    /\ job.phase = "store"
    /\ job.left # {}
    /\ Spend("faults")
    /\ LET f == Min(job.left)
       IN  job' = [job EXCEPT !.left = @ \ {f}, !.failed = @ \cup {f}]
    /\ UNCHANGED <<etf, day, listing, page,
                   registry, observation, snapshot>>

\* The response is returned; it is partial when a fund failed.
Respond ==
    /\ job.phase = "store"
    /\ job.left = {}
    /\ job' = Idle
    /\ UNCHANGED <<etf, day, listing, page, used,
                   registry, observation, snapshot>>

\* The server stops: committed funds stay, the rest of the call is lost.
Crash ==
    /\ job # Idle
    /\ Spend("faults")
    /\ job' = Idle
    /\ UNCHANGED <<etf, day, listing, page, registry, observation, snapshot>>

EtfInit ==
    /\ etf \in EtfSettings
    /\ day = 1
    /\ listing = etf.listed
    /\ page = [f \in Funds |-> Page(TRUE, TRUE, 0, <<>>)]
    /\ used = [relistings |-> 0, corrections |-> 0, faults |-> 0]
    /\ registry = [f \in Funds |-> "absent"]
    /\ observation = [f \in Funds |-> [d \in Days |-> NoPage]]
    /\ snapshot = [f \in Funds |-> [d \in Days |-> NoSnapshot]]
    /\ job = Idle

EtfNext ==
    \/ NextDay
    \/ Relist
    \/ \E f \in Funds : Publish(f)
    \/ Refuse
    \/ BeginSome
    \/ FetchAll
    \/ FetchSome
    \/ Store
    \/ StoreFails
    \/ Respond
    \/ Crash

\* The workflow calls twice on every working day, and a call that is not
\* disturbed runs to its end.  Faults are bounded by the instance.
EtfFairness ==
    /\ SF_etfVars(BeginAll)
    /\ WF_etfVars(FetchAll \/ Store \/ Respond)

EtfSpec == EtfInit /\ [][EtfNext]_etfVars /\ EtfFairness

-----------------------------------------------------------------------------
\* Reading: the differences between two snapshots.

SharesOf(holdings, s) == IF s \in DOMAIN holdings THEN holdings[s] ELSE 0

\* Mutant: only the securities held today are compared.
ComparesHeldOnly(now, before) == DOMAIN now

\* The securities a comparison goes over.
Compared(now, before) == DOMAIN now \cup DOMAIN before

\* The securities held on both sides.
Common(now, before) == {s \in DOMAIN now \cap DOMAIN before : now[s] > 0 /\ before[s] > 0}

\* The i-th of them in the order of their ratios now[s] / before[s].
InOrder(now, before, i) ==
    LET Up(s, t) == now[t] * before[s] - now[s] * before[t]   \* > 0: t grew by more
    IN  CHOOSE s \in Common(now, before) :
            /\ Cardinality({t \in Common(now, before) : Up(s, t) < 0}) < i
            /\ i <= Cardinality({t \in Common(now, before) : Up(s, t) <= 0})

\* The median of n ratios, the mean of the middle two when n is even.
Median(now, before, n) ==
    LET low == InOrder(now, before, (n + 1) \div 2)
        high == InOrder(now, before, n \div 2 + 1)
    IN  [n |-> now[low] * before[high] + now[high] * before[low],
         d |-> 2 * before[low] * before[high]]

NoScale == [n |-> 0, d |-> 0]

\* Mutant: one common security too many is asked for.
ScaleOfMore(now, before) ==
    LET n == Cardinality(Common(now, before))
    IN  IF n <= MinSample THEN NoScale ELSE Median(now, before, n)

\* The common scale: the median ratio, when there are enough of them.
Scale(now, before) ==
    LET n == Cardinality(Common(now, before))
    IN  IF n < MinSample THEN NoScale ELSE Median(now, before, n)

Distance(a, b) == IF a < b THEN b - a ELSE a - b

Notable(now, before) == Distance(now, before) * 200 >= before

\* Half a percent at least in shares, half a percent at most beside the common
\* scale k.  (The code rounds both percentages to four decimals first.)
LooksLikeScale(k, now, before) ==
    /\ k.d > 0
    /\ Distance(now * k.d, before * k.n) * 200 <= before * k.n
    /\ Notable(now, before)

\* The change of one security given its shares; -1 stands for no row.
Change(s, k, now, before) ==
    [symbol |-> s,
     delta |-> (IF now = -1 THEN 0 ELSE now) - (IF before = -1 THEN 0 ELSE before),
     action |-> CASE before = -1 -> "added"
                  [] now = -1 -> "removed"
                  [] OTHER -> IF now > before THEN "increased" ELSE "decreased",
     scaled |-> now # -1 /\ before > 0 /\ LooksLikeScale(k, now, before)]

RowOf(holdings, s) == IF s \in DOMAIN holdings THEN holdings[s] ELSE -1

\* _changes_for_snapshots: one row per security whose shares differ.
Changes(now, before) ==
    UNION {{c \in {Change(s, k, RowOf(now, s), RowOf(before, s)) : s \in Compared(now, before)}
               : c.delta # 0} : k \in {Scale(now, before)}}

-----------------------------------------------------------------------------
\* Reading one day (get_active_etf_daily_response).

\* Mutant: the baseline is the calendar day before.
BaselineIsYesterday(f, d) == Stored(f) \cap {d - 1}

\* The dates a fund's snapshot of day d may be compared with.
Earlier(f, d) == {e \in Stored(f) : e < d}

Coverage(f, d) == IF d \notin Stored(f) THEN "missing"
                  ELSE IF Earlier(f, d) = {} THEN "no_baseline" ELSE "ready"

\* The changes of day d over every enabled fund, each row with its fund.
DailyChanges(d) ==
    UNION {IF Coverage(f, d) # "ready" THEN {}
           ELSE {[fund |-> f, change |-> c] :
                    c \in Changes(snapshot[f][d].holdings,
                                  snapshot[f][Max(Earlier(f, d))].holdings)}
              : f \in Enabled}

\* Mutant: a removal is not counted among the sales.
ForgetsRemovals(actions) ==
    CASE "decreased" \notin actions /\ actions \cap {"added", "increased"} # {} -> "increase"
      [] actions \subseteq {"decreased", "removed"} -> "decrease"
      [] OTHER -> "mixed"

\* The direction of a security, of what the funds that changed it did.
Direction(actions) ==
    CASE actions \subseteq {"added", "increased"} -> "increase"
      [] actions \subseteq {"decreased", "removed"} -> "decrease"
      [] OTHER -> "mixed"

-----------------------------------------------------------------------------
\* Reading an interval (get_active_etf_range_response).

\* A fund's snapshot dates in the interval.
History(f, from, to) == Stored(f) \cap (from..to)

\* The date before d in a history.
Before(h, d) == Max({e \in h : e < d})

\* Mutant: the first snapshot is compared with an empty one.
CountsTheFirst(f, s, h) ==
    [d \in h |-> {c \in Changes(snapshot[f][d].holdings,
                               IF d = Min(h) THEN <<>> ELSE snapshot[f][Before(h, d)].holdings) :
                     c.symbol = s}]

\* The change of a security at each snapshot of the interval's history h, as
\* a set of none or one; the first snapshot is the baseline.
Timeline(f, s, h) ==
    [d \in h |-> IF d = Min(h) THEN {} ELSE
        {c \in Changes(snapshot[f][d].holdings, snapshot[f][Before(h, d)].holdings) :
            c.symbol = s}]

\* The share_delta of a timeline's point.
DeltaAt(line, d) ==
    IF d \notin DOMAIN line THEN 0
    ELSE IF line[d] = {} THEN 0 ELSE (CHOOSE c \in line[d] : TRUE).delta

\* What the changes of a timeline add up to, day after day.
Total(line) ==
    LET upTo[d \in 0..LastDay] == IF d = 0 THEN 0 ELSE upTo[d - 1] + DeltaAt(line, d)
    IN  upTo[LastDay]

\* The days of a timeline with a change of one of the given kinds.
DaysOf(actions, line) == {d \in DOMAIN line : \E c \in line[d] : c.action \in actions}

\* The net change of a security between the first and the last snapshot of h.
Net(f, s, h) ==
    SharesOf(snapshot[f][Max(h)].holdings, s) - SharesOf(snapshot[f][Min(h)].holdings, s)

-----------------------------------------------------------------------------
\* Properties.

EtfTypeOK ==
    /\ day \in Days /\ listing \subseteq Funds
    /\ registry \in [Funds -> {"absent", "enabled", "disabled"}]
    /\ \A f \in Funds : Stored(f) \subseteq 1..day
    /\ job.phase \in {"idle", "fetch", "store"}

\* What a reader is shown and the raw page kept as its proof belong together:
\* parsing the stored page again gives exactly the stored holdings, on the
\* date they are filed under, and the page is the one the snapshot names.
EvidenceReproduces ==
    \A f \in Funds, d \in Days :
        /\ (snapshot[f][d] = NoSnapshot) = (observation[f][d] = NoPage)
        /\ snapshot[f][d] # NoSnapshot =>
              /\ snapshot[f][d].evidence = observation[f][d]
              /\ observation[f][d].date = d
              /\ Verdict(observation[f][d], d) = "ok"
              /\ Holdings(observation[f][d]) = snapshot[f][d].holdings

\* A snapshot always has a fund to be read under, enabled or not.
HistoryHasItsFund ==
    \A f \in Funds : Stored(f) # {} => registry[f] # "absent"

\* What a call reports as stored is stored as it was fetched; the workflow
\* judges its run by these numbers.
ReportedIsStored ==
    job.phase = "store" =>
        \A f \in DOMAIN job.got \ (job.left \cup job.failed) :
            snapshot[f][job.got[f].date] = Snapshot(job.got[f], Holdings(job.got[f]))

\* Interval and day tell the same story: the changes at a fund's snapshots,
\* gaps between them included, add up to the net change between its first and
\* its last; each is the change the daily view shows for that date; additions
\* are on days of an increase, removals on days of a decrease.
RangeAgreesWithDaily ==
    \A f \in Enabled, s \in Symbols, from, to \in 1..day :
        \A h \in {History(f, from, to)} : h # {} =>
            \A line \in {Timeline(f, s, h)} :
                /\ Net(f, s, h) = Total(line)
                /\ DaysOf({"added", "increased"}, line) = {d \in h : DeltaAt(line, d) > 0}
                /\ DaysOf({"removed", "decreased"}, line) = {d \in h : DeltaAt(line, d) < 0}
                /\ \A d \in h \ {Min(h)} : line[d] = {row.change : row \in
                        {r \in DailyChanges(d) : r.fund = f /\ r.change.symbol = s}}

\* A direction is only told when no fund went the other way.
ConsensusIsUnanimous ==
    \A d \in 2..day : \A changes \in {DailyChanges(d)} : \A s \in Symbols :
        \A rows \in {{r.change : r \in {x \in changes : x.change.symbol = s}}} :
            rows # {} =>
                \A direction \in {Direction({c.action : c \in rows})} :
                    /\ direction = "increase" => \A c \in rows : c.delta > 0
                    /\ direction = "decrease" => \A c \in rows : c.delta < 0
                    /\ direction = "mixed" => {c \in rows : c.delta > 0} \notin {{}, rows}

\* Money paid into a fund is not a decision on a share: when every security
\* held on both sides grew or shrank by one and the same factor, whatever was
\* added or removed beside them, each change of half a percent or more in one
\* of them is marked so.
ScalingIsMarked ==
    \A f \in Enabled, d \in 2..day : Coverage(f, d) = "ready" =>
        \A now \in {snapshot[f][d].holdings} :
            \A before \in {snapshot[f][Max(Earlier(f, d))].holdings} :
                \A common \in {Common(now, before)} :
                    (/\ Cardinality(common) >= MinSample
                     /\ \A s, t \in common : now[s] * before[t] = now[t] * before[s])
                        => \A c \in Changes(now, before) :
                               c.symbol \in common /\ Notable(now[c.symbol], before[c.symbol])
                                  => c.scaled

\* The number of funds in view never drops below the allowed share of what it was
\* in one listing, though an equally long list of other funds may take their
\* place; and no step forgets a snapshot.
HistoriesAreKept ==
    [][ /\ \A f \in Funds, d \in Days : snapshot[f][d] # NoSnapshot => snapshot'[f][d] # NoSnapshot
        /\ Cardinality(Enabled') * KeptDen >= Cardinality(Enabled) * KeptNum ]_etfVars

\* Is a listed fund showing a good page that the readers cannot see?
Outstanding(f) ==
    /\ Verdict(page[f], day) = "ok"
    /\ f \in listing /\ Covers(listing)
    /\ \/ f \notin Enabled
       \/ snapshot[f][page[f].date] # Snapshot(page[f], Holdings(page[f]))

\* No fund's page stays out of sight: whatever fails or crashes on the way,
\* later calls make up for it, also for a fund that left and came back.
PublishedIsStored == \A f \in Funds : []<>~Outstanding(f)

\* What an archive of holdings shows is what the site published.
HoldingsAreEvidenced ==
    EtfTypeOK /\ EvidenceReproduces /\ HistoryHasItsFund /\ ReportedIsStored

\* The two readings of the archive agree with it and with each other.
HoldingsReadsAgree == RangeAgreesWithDaily /\ ConsensusIsUnanimous /\ ScalingIsMarked
=============================================================================
