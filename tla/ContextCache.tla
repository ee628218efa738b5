---------------------------- MODULE ContextCache ----------------------------
(***************************************************************************)
(* The shared background context cache (shared_background_contexts) for    *)
(* one context type: update_background_chip_context_cache as called by     *)
(* refresh-lending and refresh-full-margin ("required": it reuses same-day *)
(* fresh rows and requires the rest to come back fresh) and by the         *)
(* one-shot run and chip-context/update ("plain").  One call is one        *)
(* transaction: it reads what it may reuse, asks the provider, upserts     *)
(* answer by answer and commits.  Timestamps of a row are PostgreSQL's     *)
(* now(), the start of the transaction that wrote it, not its commit.      *)
(***************************************************************************)
EXTENDS Naturals, FiniteSets

CONSTANT Settings    \* what a behaviour may be about: one of these records

VARIABLES setting,   \* the context type, its callers and the bounds; never changes
          rows,      \* the table, by symbol and replay key
          source,    \* external: what the provider's source holds, by symbol and day
          call,      \* the call each worker is serving
          step,      \* step status of the day: what the prepared row records
          calls      \* calls begun so far (bound); also the clock

vars == <<setting, rows, source, call, step, calls>>

Symbols    == setting.symbols     \* stock symbols
LastDay    == setting.lastDay     \* bound: run dates are 0 .. LastDay
StaleAfter == setting.staleAfter  \* stale_after_days of the providers
Margin     == setting.margin      \* the type is full_margin: payloads may be incomplete
Kinds      == setting.kinds       \* the kinds of call that are made
Workers    == setting.workers     \* threads serving requests
MaxCalls   == setting.maxCalls    \* bound: calls begun
Days       == 0 .. LastDay

ASSUME SettingsAssumption ==
    \A s \in Settings : /\ s.lastDay \in Nat /\ s.staleAfter \in Nat /\ s.maxCalls \in Nat
                        /\ s.margin \in BOOLEAN /\ s.kinds \subseteq {"required", "plain"}

-----------------------------------------------------------------------------
(* Data *)

\* Replay keys: a dated context carries its as_of_date, the other two the run
\* date of the call that wrote them.
Keys  == [tag : {"dated", "inapplicable", "missing"}, day : Days]
NoKey == [tag |-> "none", day |-> 0]
Dated(day)        == [tag |-> "dated", day |-> day]
Inapplicable(day) == [tag |-> "inapplicable", day |-> day]
MissingOn(day)    == [tag |-> "missing", day |-> day]

\* A row: its freshness and payload columns, and its updated_at.  Stamp 0 is
\* "no row".
Rows  == [fresh : {"fresh", "stale", "missing"},
          pay   : {"empty", "partial", "full", "inapplicable"}, stamp : 0 .. MaxCalls]
NoRow == [fresh |-> "missing", pay |-> "empty", stamp |-> 0]
Row(fresh, pay) == [fresh |-> fresh, pay |-> pay, stamp |-> 0]

\* What the source holds of one day; margin trading applies or it does not.
Sourced == IF Margin THEN {"none", "partial", "full", "inapplicable"} ELSE {"none", "full"}

\* An answer of the provider, and a row a session holds or is going to write.
Items  == [key : Keys \cup {NoKey}, row : Rows]
NoItem == [key |-> NoKey, row |-> NoRow]

\* A call.  need is what it asks the provider for, held the row its session
\* keeps of each symbol since it looked what to reuse, todo the answers still to
\* be upserted, at the one it has selected the stored row for (base), and pend
\* its uncommitted rows.
Calls == [kind : {"idle", "required", "plain"}, phase : {"asked", "storing"},
          day : Days, syms : SUBSET Symbols, start : 0 .. MaxCalls,
          need : SUBSET Symbols, held : [Symbols -> Items],
          answer : [Symbols -> Items], todo : SUBSET Symbols,
          at : SUBSET Symbols, base : Rows, pend : [Symbols -> Items],
          failed : BOOLEAN]

NoItems == [s \in Symbols |-> NoItem]
Idle == [kind |-> "idle", phase |-> "asked", day |-> 0, syms |-> {}, start |-> 0,
         need |-> {}, held |-> NoItems, answer |-> NoItems, todo |-> {}, at |-> {},
         base |-> NoRow, pend |-> NoItems, failed |-> FALSE]

NoStep == [status |-> "none", syms |-> {}]

-----------------------------------------------------------------------------
(* The reader: get_shared_background_context_rows, point in time *)

Stored(s) == {k \in Keys : rows[s][k].stamp > 0}

\* _point_in_time_sort_key: the date first, then updated_at.
\* Mutant: the row written last, whatever date it is of.
NewestFirst(s, k, l) == rows[s][k].stamp >= rows[s][l].stamp
Sorted(s, k, l) == \/ k.day > l.day
                   \/ k.day = l.day /\ rows[s][k].stamp >= rows[s][l].stamp

\* The row a reader of a day gets.
Eligible(s, day) == {k \in Stored(s) : k.day <= day}
Winner(s, day) == IF Eligible(s, day) = {} THEN NoKey
                  ELSE CHOOSE k \in Eligible(s, day) :
                         \A l \in Eligible(s, day) : Sorted(s, k, l)

\* same_day_background_context_is_reusable: of the day, fresh and complete.
Reusable(key, row, day) ==
    /\ key.tag \in {"dated", "inapplicable"} /\ key.day = day
    /\ row.fresh = "fresh" /\ row.pay \in {"full", "inapplicable"}

ReaderHas(s, day) == LET k == Winner(s, day)
                     IN k # NoKey /\ Reusable(k, rows[s][k], day)

-----------------------------------------------------------------------------
(* The provider *)

\* Days of a symbol the source can date a context with, asked for a run date.
Published(s, day) == {a \in 0 .. day : source[s][a] \in {"partial", "full"}}

\* _freshness
Freshness(asof, day) == IF day - asof <= StaleAfter THEN "fresh" ELSE "stale"

\* What the provider may answer for a symbol: the latest context the source
\* has; official evidence that margin trading does not apply on the run date;
\* a missing context (no data, or an error of this dataset); or nothing.
Answers(s, day) ==
    {NoItem, [key |-> MissingOn(day), row |-> Row("missing", "empty")]}
    \cup {[key |-> Dated(a), row |-> Row(Freshness(a, day), source[s][a])] :
            a \in {b \in Published(s, day) : \A c \in Published(s, day) : c <= b}}
    \cup (IF source[s][day] = "inapplicable"
          THEN {[key |-> Inapplicable(day), row |-> Row("fresh", "inapplicable")]}
          ELSE {})

\* An answer a required call does not count: reported as incomplete.
Incomplete(c, s) == ~Reusable(c.answer[s].key, c.answer[s].row, c.day)

\* What is upserted of an answer: a required call persists an incomplete
\* same-day context as missing.
\* Mutant: under a freshness of its own.
PersistedIncomplete(c, s) ==
    IF c.kind = "required" /\ Incomplete(c, s) THEN Row("incomplete", "empty")
    ELSE c.answer[s].row
Persisted(c, s) ==
    IF /\ c.kind = "required" /\ Incomplete(c, s)
       /\ c.answer[s].key = Dated(c.day) /\ c.answer[s].row.fresh = "fresh"
    THEN Row("missing", "empty") ELSE c.answer[s].row

-----------------------------------------------------------------------------
Init == /\ setting \in Settings
        /\ rows = [s \in Symbols |-> [k \in Keys |-> NoRow]]
        /\ source = [s \in Symbols |-> [d \in Days |-> "none"]]
        /\ call = [w \in Workers |-> Idle]
        /\ step = [d \in Days |-> NoStep]
        /\ calls = 0

\* External: the source publishes a day of a symbol, or completes it.
Publish(s, d) ==
    /\ source[s][d] \in {"none", "partial"}
    /\ \E p \in IF source[s][d] = "none" THEN Sourced \ {"none"} ELSE {"full"} :
         source' = [source EXCEPT ![s][d] = p]
    /\ UNCHANGED <<setting, rows, call, step, calls>>

\* A call begins: a required one leaves out what a reader of the day would find
\* reusable.  Its session keeps the rows that reader selected.
Begin(w) ==
    /\ call[w] = Idle
    /\ calls < MaxCalls
    /\ \E kind \in Kinds, day \in Days, syms \in (SUBSET Symbols) \ {{}} :
         LET reads == kind = "required"
             Held(s) == IF reads /\ Winner(s, day) # NoKey
                        THEN [key |-> Winner(s, day), row |-> rows[s][Winner(s, day)]]
                        ELSE NoItem
         IN call' = [call EXCEPT ![w] =
              [Idle EXCEPT !.kind  = kind, !.day = day, !.syms = syms,
                           !.start = calls + 1,
                           !.need  = IF reads THEN {s \in syms : ~ReaderHas(s, day)}
                                     ELSE syms,
                           !.held  = [s \in Symbols |-> IF s \in syms THEN Held(s)
                                                        ELSE NoItem]]]
    /\ calls' = calls + 1
    /\ UNCHANGED <<setting, rows, source, step>>

\* The provider answers for all the symbols, or fails before it yields any.
Fetch(w) ==
    /\ call[w].kind # "idle" /\ call[w].phase = "asked"
    /\ LET c == call[w]
           Answered(answer) ==
               call' = [call EXCEPT ![w].phase  = "storing", ![w].answer = answer,
                                    ![w].todo = {s \in c.need : answer[s] # NoItem}]
       IN \/ \E chosen \in [c.need -> UNION {Answers(s, c.day) : s \in c.need}] :
               /\ \A s \in c.need : chosen[s] \in Answers(s, c.day)
               /\ Answered([s \in Symbols |-> IF s \in c.need THEN chosen[s] ELSE NoItem])
          \/ /\ c.need # {}
             /\ call' = [call EXCEPT ![w].phase = "storing", ![w].failed = TRUE]
    /\ UNCHANGED <<setting, rows, source, step, calls>>

\* upsert_shared_background_context selects the row of the key; one the session
\* still holds is not refreshed.
SelectRow(w) ==
    /\ call[w].phase = "storing" /\ call[w].at = {}
    /\ \E s \in call[w].todo :
         LET key == call[w].answer[s].key IN
         call' = [call EXCEPT
           ![w].at   = {s},
           ![w].todo = @ \ {s},
           ![w].base = IF call[w].held[s].key = key THEN call[w].held[s].row
                       ELSE rows[s][key]]
    /\ UNCHANGED <<setting, rows, source, step, calls>>

\* No other session has an uncommitted row of the key.
Unlocked(w, s, key) == \A v \in Workers \ {w} : call[v].pend[s].key # key

\* The columns the UPDATE writes: those that differ from the selected row.
Merged(new, base, now) ==
    [fresh |-> IF new.fresh # base.fresh THEN new.fresh ELSE now.fresh,
     pay   |-> IF new.pay # base.pay THEN new.pay ELSE now.pay, stamp |-> 0]

\* ... and inserts it, or updates the columns that differ, or finds nothing to
\* write.  Two payloads this model identifies may still differ in detail, hence
\* the choice.  Its updated_at is the start of the transaction.
UpsertRow(w) ==
    /\ call[w].at # {}
    /\ \E s \in call[w].at :
         LET c   == call[w]
             key == c.answer[s].key
             new == Persisted(c, s)
             now == rows[s][key]
             Write(row) ==
                /\ Unlocked(w, s, key)
                /\ call' = [call EXCEPT ![w].at = {}, ![w].pend[s] =
                              [key |-> key, row |-> [row EXCEPT !.stamp = c.start]]]
         IN \/ /\ c.base.stamp = 0 /\ now.stamp = 0
               /\ Write(new)
            \/ /\ c.base.stamp = 0 /\ now.stamp # 0
               /\ Unlocked(w, s, key)
               /\ call' = [call EXCEPT ![w] = Idle]
            \/ /\ c.base.stamp # 0
               /\ Write(Merged(new, c.base, now))
            \/ /\ c.base.stamp # 0
               /\ new = [c.base EXCEPT !.stamp = 0]
               /\ call' = [call EXCEPT ![w].at = {}]
    /\ UNCHANGED <<setting, rows, source, step, calls>>

\* The status of a required call.
\* Mutant: symbols the provider did not answer for are forgotten.
CompletedAnswered(c) ==
    ~c.failed /\ \A s \in c.need : c.answer[s] # NoItem => ~Incomplete(c, s)
Completed(c) == ~c.failed /\ \A s \in c.need : ~Incomplete(c, s)

\* The transaction commits its rows and, for a required call, its step status.
Commit(w) ==
    /\ call[w].kind # "idle" /\ call[w].phase = "storing"
    /\ call[w].todo = {} /\ call[w].at = {}
    /\ LET c == call[w]  IN
       /\ rows' = [s \in Symbols |-> IF c.pend[s] = NoItem THEN rows[s]
                                     ELSE [rows[s] EXCEPT ![c.pend[s].key] = c.pend[s].row]]
       /\ step' = IF c.kind = "plain" THEN step
                  ELSE [step EXCEPT ![c.day] =
                         [status |-> IF Completed(c) THEN "completed" ELSE "failed",
                          syms   |-> c.syms]]
    /\ call' = [call EXCEPT ![w] = Idle]
    /\ UNCHANGED <<setting, source, calls>>

\* A deadlock between two upserts, an error after the provider, a lost client
\* or a killed process: the transaction is rolled back.
Abort(w) ==
    /\ call[w].kind # "idle"
    /\ call' = [call EXCEPT ![w] = Idle]
    /\ UNCHANGED <<setting, rows, source, step, calls>>

\* The bound on calls is used up, every call is answered and all is published.
Over == /\ calls = MaxCalls
        /\ \A w \in Workers : call[w] = Idle
        /\ \A s \in Symbols, d \in Days : source[s][d] \in {"full", "inapplicable"}
        /\ UNCHANGED vars

Handle(w) == \/ Begin(w) \/ Fetch(w) \/ SelectRow(w) \/ UpsertRow(w)
             \/ Commit(w) \/ Abort(w)

Next == \/ \E w \in Workers : Handle(w)
        \/ \E s \in Symbols, d \in Days : Publish(s, d)
        \/ Over

Spec == Init /\ [][Next]_vars

-----------------------------------------------------------------------------
(* Properties *)

\* Only required calls are made, one at a time; and no run date is so late that
\* a context of the first one has become stale for it.
Alone  == Kinds = {"required"} /\ \A v, w \in Workers : v = w
Recent == LastDay <= StaleAfter

\* Type invariant.
TypeOK == /\ rows \in [Symbols -> [Keys -> Rows]]
          /\ source \in [Symbols -> [Days -> Sourced]]
          /\ call \in [Workers -> Calls]
          /\ step \in [Days -> [status : {"none", "completed", "failed"},
                                syms : SUBSET Symbols]]
          /\ calls \in 0 .. MaxCalls

\* Called one at a time, refresh-lending and refresh-full-margin answer
\* "completed" only when a reader of the day, such as run-scoring after them,
\* gets a fresh and complete context of the day for every selected symbol; and
\* it stays so, whatever dates are refreshed later within the staleness window.
CompletedReadsFresh ==
    Alone /\ Recent => \A d \in Days : step[d].status = "completed" =>
        \A s \in step[d].syms : ReaderHas(s, d)

\* A stored row that is fresh, complete and of the day.
HasFresh(s, day) == \E k \in Stored(s) : Reusable(k, rows[s][k], day)

\* README.md: refresh-lending and refresh-full-margin first reuse same-day fresh
\* contexts.  A required call asks the provider for no symbol the table holds a
\* fresh, complete context of the day for.
FreshIsReused ==
    [][Alone => \A w \in Workers : call[w] = Idle /\ call'[w].kind = "required" =>
          \A s \in call'[w].need : ~HasFresh(s, call'[w].day)]_vars

\* Of refresh-lending, "completed" means that the table holds what it reported,
\* whatever overlaps the call, even where a row another call wrote hides it: an
\* overlapping upsert of the same key is refused or leaves the columns it did not
\* change.  Of refresh-full-margin it means so while calls do not overlap: one that
\* was answered before the source was complete, and stores after "completed" was
\* committed, takes the complete row back.  Then a row of the day is still there, and as it is not
\* reusable it tells its readers that it is incomplete.
TakenBack(s, day) ==
    /\ Margin /\ \E v, w \in Workers : v # w
    /\ Dated(day) \in Stored(s) /\ ~HasFresh(s, day)
CompletedIsStored ==
    Recent => \A d \in Days : step[d].status = "completed" =>
        \A s \in step[d].syms : HasFresh(s, d) \/ TakenBack(s, d)

\* "completed" is no empty promise, neither to readers, when calls are made one
\* at a time, nor about the table, when they overlap.
CompletedIsFresh == CompletedReadsFresh /\ CompletedIsStored

\* The grade of what a reader gets.
AllDays    == UNION {0 .. s.lastDay : s \in Settings}
AllSymbols == UNION {s.symbols : s \in Settings}
ReaderView == [d \in AllDays |-> [s \in AllSymbols |->
                 IF ~(Alone /\ Recent /\ d \in Days /\ s \in Symbols) THEN "none"
                 ELSE IF Winner(s, d) = NoKey THEN "none"
                 ELSE IF ReaderHas(s, d) THEN "fresh" ELSE "poor"]]

Contexts == INSTANCE ContextView WITH view <- ReaderView,
                                      Days <- AllDays, Symbols <- AllSymbols

\* Refinement: required calls, one at a time, only ever improve what readers get.
OnlyImproves == Contexts!Spec
=============================================================================
