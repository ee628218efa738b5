---------------------------- MODULE RadarPrepared ----------------------------
(***************************************************************************)
(* The staged Daily Radar pipeline of one (run_date, market): the row of   *)
(* daily_radar_prepared_runs, the raw rows of that date, and the HTTP      *)
(* handlers that read and write them.  Every handler runs in a threadpool  *)
(* thread with a database session of its own; sessions are READ COMMITTED  *)
(* and the ORM writes back only the columns it changed.  A handler is a    *)
(* "call": it loads the row, leaves the database for its provider, and     *)
(* commits.  Only refresh-ohlcv and refresh-managed-raw-data take the row  *)
(* lock and read the row again before they write (SELECT ... FOR UPDATE);  *)
(* everything else commits over whatever the row has become since it was   *)
(* loaded.  Raw rows are under no lock of their own.                       *)
(*                                                                         *)
(* The other handlers' commit is one step: their UPDATE waits for the row  *)
(* lock and the COMMIT follows at once, so no session writes the row in    *)
(* between.                                                                *)
(***************************************************************************)
EXTENDS Naturals

CONSTANTS Symbols,       \* stock symbols the universe is drawn from
          Managed,       \* symbols of recent general analyses (managed_raw_data.py)
          Workers,       \* threads serving internal requests
          ContextSteps,  \* steps run by _refresh_daily_radar_context_step
          OptionalSteps, \* steps of the same unlocked shape scoring does not need
          Served,        \* the handlers called in this instance
          MaxCalls       \* bound: calls begun

ArchiveStep  == "refresh-institutional-flows"
UniverseStep == "prepare-universe"
OhlcvStep    == "refresh-ohlcv"
MarketStep   == "refresh-market-context"
ManagedStep  == "refresh-managed-raw-data"
OwnSteps     == {ArchiveStep, UniverseStep, OhlcvStep, MarketStep, ManagedStep}

ASSUME ManagedAssumption == Managed \subseteq Symbols
ASSUME StepNamesAssumption ==
    /\ ContextSteps \cap OptionalSteps = {}
    /\ (ContextSteps \cup OptionalSteps)
         \cap (OwnSteps \cup {"idle", "run-scoring", "run"}) = {}
ASSUME MaxCallsAssumption == MaxCalls \in Nat

UnlockedSteps == ContextSteps \cup OptionalSteps
Steps         == OwnSteps \cup UnlockedSteps

\* DAILY_RADAR_REQUIRED_REFRESH_STEPS
Required == ContextSteps \cup {ArchiveStep, OhlcvStep, MarketStep}

VARIABLES prepared,   \* the daily_radar_prepared_runs row
          raw,        \* stock_raw_data of the run date, by symbol
          call,       \* what each worker is doing
          run,        \* the public run readers of this date see
          calls,      \* calls begun so far (bound)
          blind       \* history: symbols stored by a call that held no lock

vars == <<prepared, raw, call, run, calls, blind>>

-----------------------------------------------------------------------------
(* Data *)

\* A raw row as the readers classify it: "current" is final, complete and of
\* the run date (current_daily_radar_raw_rows); "short" is of the run date
\* with a proven short history (insufficient_history_daily_radar_raw_rows);
\* "unusable" is a row neither of them returns.
RawStates == {"none", "unusable", "short", "current"}
Usable    == {"short", "current"}

\* What the technical fetcher brings back for one symbol.
Payloads  == {"nopayload", "unusable", "short", "current"}

\* market_context_refresh_error is None for a "fresh" context only.
Contexts  == {"none", "bad", "fresh"}

\* An entry of step_statuses, with the symbols the handler worked on.
Entries   == [status : {"none", "completed", "failed"}, sel : SUBSET Symbols]
NoEntry   == [status |-> "none", sel |-> {}]
Entry(status, sel) == [status |-> status, sel |-> sel]

Universes == [syms : SUBSET Symbols, tracks : SUBSET Symbols]
NoUniverse == [syms |-> {}, tracks |-> {}]

\* The columns some handler reads: selected_symbols, universe, market_context
\* and step_statuses.  The label in the status column is read by none.
PreparedRows == [sel   : SUBSET Symbols,
                 uni   : Universes,
                 ctx   : Contexts,
                 steps : [Steps -> Entries]]

NoRow == [sel |-> {}, uni |-> NoUniverse, ctx |-> "none",
          steps |-> [s \in Steps |-> NoEntry]]

\* A preparation with an empty universe is refused.
Exists(row) == row.sel # {}

Ops    == {"idle", UniverseStep, OhlcvStep, MarketStep, ManagedStep,
           "run-scoring", "run"} \cup UnlockedSteps
Phases == {"loaded", "fetched", "locked", "unlocked", "failing", "checked"}
NoRows == [s \in Symbols |-> "none"]

\* A call: its handler, how far it got, the prepared row it loaded, the
\* symbols it is going to store, the universe it computed and the raw rows it
\* loaded.
Calls == [op : Ops, phase : Phases, row : PreparedRows,
          need : SUBSET Symbols, uni : Universes, rows : [Symbols -> RawStates]]

Idle == [op |-> "idle", phase |-> "loaded", row |-> NoRow, need |-> {},
         uni |-> NoUniverse, rows |-> NoRows]

\* What of a public run the properties tell apart: the endpoint that made it,
\* the symbols it scored and the raw rows and market context it scored.
Runs  == [kind : {"none", "staged", "oneshot"}, sel : SUBSET Symbols,
          ctx : Contexts, rows : [Symbols -> RawStates]]
NoRun == [kind |-> "none", sel |-> {}, ctx |-> "none", rows |-> NoRows]

\* The row as a handler loads it, with the columns it is going to use.
Loaded(columns) ==
    [sel   |-> IF "sel"   \in columns THEN prepared.sel   ELSE NoRow.sel,
     uni   |-> IF "uni"   \in columns THEN prepared.uni   ELSE NoRow.uni,
     ctx   |-> IF "ctx"   \in columns THEN prepared.ctx   ELSE NoRow.ctx,
     steps |-> IF "steps" \in columns THEN prepared.steps ELSE NoRow.steps]

NotCurrent(syms) == {s \in syms : raw[s] # "current"}

-----------------------------------------------------------------------------
(* Shared pieces of the handlers *)

Begin(w, c) ==
    /\ call[w] = Idle
    /\ c.op \in Served
    /\ calls < MaxCalls
    /\ call' = [call EXCEPT ![w] = c]
    /\ calls' = calls + 1
    /\ UNCHANGED <<prepared, raw, run, blind>>

Return(w) == call' = [call EXCEPT ![w] = Idle]

\* The column an ORM flush leaves: the session writes a column only when its
\* value differs from the one it loaded.  Two values this model identifies may
\* still differ in detail (order, metrics), hence the choice.
\* Mutant: a column changed in place is not seen as changed.
ColumnInPlace(now, loaded, wanted) == {now, wanted}
Column(now, loaded, wanted) ==
    {wanted} \cup (IF wanted = loaded THEN {now} ELSE {})

\* update_daily_radar_prepared_step_status: the whole JSON map is rebuilt from
\* the loaded one, and its updated_at makes it differ every time.
\* Mutant: the map is started anew.
WithStepOnly(row, step, status) ==
    [s \in Steps |-> IF s = step THEN Entry(status, row.sel) ELSE NoEntry]
WithStep(row, step, status) ==
    [row.steps EXCEPT ![step] = Entry(status, row.sel)]

\* No session holds the row lock of SELECT ... FOR UPDATE.
\* Mutant: an UPDATE that does not wait for it.
LockIgnored == TRUE
LockFree == \A v \in Workers : call[v].phase # "locked"

\* ensure_daily_radar_raw_rows with payloads fetched beforehand looks again at
\* what it asked for: only what is still not current is stored.
\* Mutant: what was missing at the fetch is stored without looking again.
StillMissingTrusted(need) == need
StillMissing(need) == NotCurrent(need)

\* _store_missing_rows: a symbol the fetcher did not answer keeps its row.
\* Mutant: a missing payload is stored as one.
StoredBlank(need, payload) ==
    [s \in Symbols |-> IF s \in need THEN payload[s] ELSE raw[s]]
Stored(need, payload) ==
    [s \in Symbols |-> IF s \in need /\ payload[s] # "nopayload"
                       THEN payload[s] ELSE raw[s]]

\* The rows the handler goes on with: those it leaves in the table, except
\* that for what it did not store the session may still hold the row it loaded.
Seen(need, loaded, rows) ==
    {rows, [s \in Symbols |-> IF s \in need THEN rows[s] ELSE loaded[s]]}

\* The selected symbols refresh-ohlcv reports missing, by the rows it leaves.
\* Mutant: only rows that exist are looked at.
MissingOfStored(rows, sel) == {s \in sel : rows[s] = "unusable"}
Missing(rows, sel) == {s \in sel : rows[s] \notin Usable}

-----------------------------------------------------------------------------
Init == /\ prepared = NoRow
        /\ raw = [s \in Symbols |-> "none"]
        /\ call = [w \in Workers |-> Idle]
        /\ run = NoRun
        /\ calls = 0
        /\ blind = {}

\* prepare-universe past its refusals (incomplete institutional or market
\* archive, provider failure, empty universe): it has chosen a universe and
\* loaded the row that upsert_daily_radar_prepared_run will overwrite.
BeginPrepare(w) ==
    \E sel \in (SUBSET Symbols) \ {{}} :
       Begin(w, [Idle EXCEPT
         !.op  = UniverseStep,
         !.row = Loaded({"sel", "uni", "ctx"}),
         !.uni = [syms |-> sel, tracks |-> sel \ NotCurrent(sel)]])

\* The step statuses a preparation leaves: both of its own, nothing else.
\* Mutant: the statuses of an earlier preparation are kept.
PreparedStepsKept(sel) ==
    [s \in Steps |-> IF s \in {ArchiveStep, UniverseStep}
                     THEN Entry("completed", sel) ELSE prepared.steps[s]]
PreparedSteps(sel) ==
    [s \in Steps |-> IF s \in {ArchiveStep, UniverseStep}
                     THEN Entry("completed", sel) ELSE NoEntry]

\* INSERT, refused by the unique constraint when another call inserted first;
\* or UPDATE of the columns that differ from the loaded row.
FinishPrepare(w) ==
    /\ call[w].op = UniverseStep
    /\ LET c == call[w]  IN
       \/ /\ ~Exists(c.row) /\ Exists(prepared)
          /\ UNCHANGED prepared
       \/ /\ ~Exists(c.row) /\ ~Exists(prepared)
          /\ prepared' = [sel |-> c.uni.syms, uni |-> c.uni, ctx |-> "none",
                          steps |-> PreparedSteps(c.uni.syms)]
       \/ /\ Exists(c.row) /\ LockFree
          /\ \E sel \in Column(prepared.sel, c.row.sel, c.uni.syms),
                uni \in Column(prepared.uni, c.row.uni, c.uni) :
               prepared' =
                 [sel |-> sel, uni |-> uni,
                  ctx |-> IF c.row.ctx = "none" THEN prepared.ctx ELSE "none",
                  steps |-> PreparedSteps(c.uni.syms)]
    /\ Return(w)
    /\ UNCHANGED <<raw, run, calls, blind>>

\* refresh-lending, refresh-full-margin and refresh-avwap: load the row, work
\* through the provider ...
BeginUnlockedStep(w) ==
    /\ Exists(prepared)
    /\ \E step \in UnlockedSteps :
         Begin(w, [Idle EXCEPT !.op = step, !.row = Loaded({"sel", "steps"})])

\* ... and write the status map of the loaded row back, unlocked.
FinishUnlockedStep(w) ==
    /\ call[w].op \in UnlockedSteps
    /\ LockFree
    /\ \E status \in {"completed", "failed"} :
         prepared' = [prepared EXCEPT
                        !.steps = WithStep(call[w].row, call[w].op, status)]
    /\ Return(w)
    /\ UNCHANGED <<raw, run, calls, blind>>

BeginMarketContext(w) ==
    /\ Exists(prepared)
    /\ Begin(w, [Idle EXCEPT !.op  = MarketStep,
                            !.row = Loaded({"sel", "ctx", "steps"})])

\* A context that fails its check is not written over a valid one, as far as
\* the loaded row can tell.
\* Mutant: any context is good enough to keep.
ReusableAny(ctx) == ctx # "none"
Reusable(ctx) == ctx = "fresh"

FinishMarketContext(w) ==
    /\ call[w].op = MarketStep
    /\ LockFree
    /\ LET row == call[w].row  IN
       \/ \E ctx \in Column(prepared.ctx, row.ctx, "fresh") :
            prepared' = [prepared EXCEPT
              !.ctx   = ctx,
              !.steps = WithStep(row, MarketStep, "completed")]
       \/ /\ Reusable(row.ctx)
          /\ prepared' = [prepared EXCEPT
               !.steps = WithStep(row, MarketStep, "completed")]
       \/ /\ ~Reusable(row.ctx)
          /\ \E ctx \in Column(prepared.ctx, row.ctx, "bad") :
               prepared' = [prepared EXCEPT
                 !.ctx   = ctx,
                 !.steps = WithStep(row, MarketStep, "failed")]
    /\ Return(w)
    /\ UNCHANGED <<raw, run, calls, blind>>

\* refresh-ohlcv takes its snapshot of the row ...
BeginOhlcv(w) ==
    /\ Exists(prepared)
    /\ Begin(w, [Idle EXCEPT !.op = OhlcvStep, !.row = Loaded({"sel", "uni"})])

\* ... fetches what is not current, outside any transaction ...
FetchOhlcv(w) ==
    /\ call[w].op = OhlcvStep /\ call[w].phase = "loaded"
    /\ call' = [call EXCEPT ![w].phase = "fetched",
                            ![w].need  = NotCurrent(call[w].row.sel)]
    /\ UNCHANGED <<prepared, raw, run, calls, blind>>

\* ... takes the row lock, reads the row again and gives up if the universe
\* has changed ...
LockOhlcv(w) ==
    /\ call[w].op = OhlcvStep /\ call[w].phase = "fetched"
    /\ LockFree
    /\ IF <<call[w].row.sel, call[w].row.uni>> = <<prepared.sel, prepared.uni>>
       THEN call' = [call EXCEPT ![w].phase = "locked",
                                 ![w].row   = Loaded({"sel", "uni", "steps"}),
                                 ![w].need  = StillMissing(@),
                                 ![w].rows  = raw]
       ELSE Return(w)
    /\ UNCHANGED <<prepared, raw, run, calls, blind>>

\* ... or stores the raw rows, the refreshed universe and its own status.
PersistOhlcv(w) ==
    /\ call[w].op = OhlcvStep /\ call[w].phase = "locked"
    /\ LET row == call[w].row
           need == call[w].need
       IN \E payload \in [need -> Payloads] :
            /\ raw' = Stored(need, payload)
            /\ \E rows \in Seen(need, call[w].rows, raw') :
                 prepared' = [prepared EXCEPT
                   !.uni.tracks = {s \in row.uni.syms \cap row.sel :
                                     rows[s] = "current"},
                   !.steps = WithStep(row, OhlcvStep,
                               IF Missing(rows, row.sel) = {}
                               THEN "completed" ELSE "failed")]
    /\ Return(w)
    /\ UNCHANGED <<run, calls, blind>>

\* refresh-managed-raw-data fetches the managed symbols that are not current.
BeginManaged(w) ==
    Begin(w, [Idle EXCEPT !.op = ManagedStep, !.need = NotCurrent(Managed)])

\* With a prepared row it goes on under the row lock; without one there is
\* nothing to lock.
LockManaged(w) ==
    /\ call[w].op = ManagedStep /\ call[w].phase = "loaded"
    /\ Exists(prepared) => LockFree
    /\ call' = [call EXCEPT
         ![w].phase = IF Exists(prepared) THEN "locked" ELSE "unlocked",
         ![w].row   = Loaded({"sel", "steps"}),
         ![w].need  = StillMissing(@),
         ![w].rows  = raw]
    /\ UNCHANGED <<prepared, raw, run, calls, blind>>

\* It stores the rows and, when there is a prepared row, its status.
PersistManaged(w) ==
    /\ call[w].op = ManagedStep /\ call[w].phase \in {"locked", "unlocked"}
    /\ LET need == call[w].need  IN
       \E payload \in [need -> Payloads] :
         /\ raw' = Stored(need, payload)
         /\ IF call[w].phase = "locked"
            THEN /\ \E rows \in Seen(need, call[w].rows, raw') :
                      prepared' = [prepared EXCEPT
                        !.steps = WithStep(call[w].row, ManagedStep,
                                    IF \A s \in Managed : rows[s] = "current"
                                    THEN "completed" ELSE "failed")]
                 /\ UNCHANGED blind
            ELSE /\ blind' = blind \cup {s \in need : payload[s] # "nopayload"}
                 /\ UNCHANGED prepared
    /\ Return(w)
    /\ UNCHANGED <<run, calls>>

\* An exception: the transaction is rolled back and the row read again,
\* without a lock this time ...
FailManaged(w) ==
    /\ call[w].op = ManagedStep /\ call[w].phase # "failing"
    /\ call' = [call EXCEPT ![w].phase = "failing", ![w].row = Loaded({"sel", "steps"})]
    /\ UNCHANGED <<prepared, raw, run, calls, blind>>

\* ... to record the failure.
RecordManagedFailure(w) ==
    /\ call[w].op = ManagedStep /\ call[w].phase = "failing"
    /\ Exists(call[w].row) => LockFree
    /\ prepared' = IF Exists(call[w].row)
                   THEN [prepared EXCEPT
                           !.steps = WithStep(call[w].row, ManagedStep, "failed")]
                   ELSE prepared
    /\ Return(w)
    /\ UNCHANGED <<raw, run, calls, blind>>

\* _raise_if_required_refresh_steps_missing
\* Mutant: a recorded step counts, completed or not.
StepsRecorded(row) == \A s \in Required : row.steps[s].status # "none"
StepsCompleted(row) == \A s \in Required : row.steps[s].status = "completed"

\* run-scoring loads the row and passes the gate on it ...
BeginScoring(w) ==
    /\ Exists(prepared)
    /\ StepsCompleted(prepared)
    /\ prepared.ctx # "none"
    /\ Begin(w, [Idle EXCEPT !.op  = "run-scoring",
                            !.row = Loaded({"sel", "ctx", "steps"})])

\* _require_complete_daily_radar_raw_rows, before run-scoring and the one-shot
\* run publish.
\* Mutant: a row is enough, whatever it holds.
RowsPresent(rows, sel) == \A s \in sel : rows[s] # "none"
RowsComplete(rows, sel) == sel # {} /\ \A s \in sel : rows[s] \in Usable

\* ... then reads the raw rows and requires a usable one of every selected
\* symbol ...
CheckScoring(w) ==
    /\ call[w].op = "run-scoring" /\ call[w].phase = "loaded"
    /\ RowsComplete(raw, call[w].row.sel)
    /\ call' = [call EXCEPT
         ![w].phase = "checked",
         ![w].rows  = [s \in Symbols |-> IF s \in call[w].row.sel
                                         THEN raw[s] ELSE "none"]]
    /\ UNCHANGED <<prepared, raw, run, calls, blind>>

\* ... and scores them and commits the run with the row's status.  A rerun may
\* find the row scored: it writes nothing to it then, and waits for no lock.
\* Readers do not see a run that failed inside run_daily_radar, nor one whose
\* transaction began before the public run's.
PublishScoring(w) ==
    /\ call[w].op = "run-scoring" /\ call[w].phase = "checked"
    /\ LockFree \/ run.kind = "staged"
    /\ \/ run' = [kind |-> "staged", sel |-> call[w].row.sel,
                  ctx |-> call[w].row.ctx, rows |-> call[w].rows]
       \/ UNCHANGED run
    /\ Return(w)
    /\ UNCHANGED <<prepared, raw, calls, blind>>

\* The one-shot endpoint selects a universe of its own, fetches and ...
BeginOneShot(w) ==
    \E sel \in (SUBSET Symbols) \ {{}} :
       Begin(w, [Idle EXCEPT
         !.op   = "run",
         !.need = NotCurrent(sel),
         !.uni  = [syms |-> sel, tracks |-> sel \ NotCurrent(sel)],
         !.rows = raw])

\* ... stores raw rows and publishes in one transaction, under no lock and
\* past no gate but the raw rows.
FinishOneShot(w) ==
    /\ call[w].op = "run"
    /\ LET need == call[w].need
           sel  == call[w].uni.syms
       IN \E payload \in [need -> Payloads], ctx \in {"bad", "fresh"} :
            /\ raw' = Stored(need, payload)
            /\ blind' = blind \cup {s \in need : payload[s] # "nopayload"}
            /\ \E rows \in Seen(need, call[w].rows, raw') :
                 /\ RowsComplete(rows, sel)
                 /\ \/ run' = [kind |-> "oneshot", sel |-> sel, ctx |-> ctx,
                               rows |-> [s \in Symbols |-> IF s \in sel
                                                 THEN rows[s] ELSE "none"]]
                    \/ UNCHANGED run
    /\ Return(w)
    /\ UNCHANGED <<prepared, calls>>

\* A refusal after loading, an exception, a lost client or a killed process:
\* the transaction is gone and nothing of it remains.
Abort(w) ==
    /\ call[w] # Idle
    /\ Return(w)
    /\ UNCHANGED <<prepared, raw, run, calls, blind>>

\* The bound on calls is used up and every call has been answered.
DayOver == /\ calls = MaxCalls
           /\ \A w \in Workers : call[w] = Idle
           /\ UNCHANGED vars

\* One step of the call a worker is serving, or of a new one.
Handle(w) ==
    \/ BeginPrepare(w)        \/ FinishPrepare(w)
    \/ BeginUnlockedStep(w)   \/ FinishUnlockedStep(w)
    \/ BeginMarketContext(w)  \/ FinishMarketContext(w)
    \/ BeginOhlcv(w)    \/ FetchOhlcv(w)   \/ LockOhlcv(w)  \/ PersistOhlcv(w)
    \/ BeginManaged(w)  \/ LockManaged(w)  \/ PersistManaged(w)
    \/ FailManaged(w)   \/ RecordManagedFailure(w)
    \/ BeginScoring(w)  \/ CheckScoring(w) \/ PublishScoring(w)
    \/ BeginOneShot(w)  \/ FinishOneShot(w)
    \/ Abort(w)

Next == (\E w \in Workers : Handle(w)) \/ DayOver

Spec == Init /\ [][Next]_vars

-----------------------------------------------------------------------------
(* Properties *)

\* Type invariant: every variable stays in the range of its column or field.
TypeOK ==
    /\ prepared \in PreparedRows
    /\ raw \in [Symbols -> RawStates]
    /\ call \in [Workers -> Calls]
    /\ run \in Runs
    /\ calls \in 0 .. MaxCalls
    /\ blind \in SUBSET Symbols

\* However stale the status map a handler writes back, a prepared row keeps
\* both statuses its preparation recorded: update_daily_radar_prepared_step_status
\* rebuilds the map from one that held them.
PreparationStatusesKept ==
    Exists(prepared) =>
        /\ prepared.steps[ArchiveStep].status = "completed"
        /\ prepared.steps[UniverseStep].status = "completed"

\* A row whose status map says refresh-ohlcv completed for some symbols has a
\* raw row for each of them, even when the entry was carried over from an
\* earlier preparation by a handler that loaded it then.
OhlcvCompletionBacked ==
    prepared.steps[OhlcvStep].status = "completed" =>
        \A s \in prepared.steps[OhlcvStep].sel : raw[s] # "none"

\* The raw-row check of run-scoring and run (_require_complete_daily_radar_raw_rows)
\* guards publication whatever the status map the call was gated on is worth,
\* and what the check saw lasts: a public run scored a usable row of every
\* symbol, and a row it scored as current still is, unless a call that held no
\* lock has stored that symbol.
PublishedRowsUsable ==
    run.kind # "none" =>
        \A s \in run.sel :
            /\ run.rows[s] \in Usable
            /\ run.rows[s] = "current" => raw[s] = "current" \/ s \in blind

\* A raw row that is current stays so through every handler that stores under
\* the row lock, although what it stores was fetched, and asked for, before it
\* had the lock: only a symbol stored by a call that held no lock (the one-shot
\* run, or a managed refresh on a date not prepared yet) may get worse.
CurrentRowsKept ==
    [][\A s \in Symbols :
         raw[s] = "current" /\ raw'[s] # "current" => s \in blind']_vars

\* The row lock protects the other handlers from the one that holds it: what
\* refresh-ohlcv or a locked refresh-managed-raw-data commits takes back no
\* status another call has committed, and no selection.
LockedWritersKeepOthers ==
    [][\A w \in Workers :
         call[w].phase = "locked" /\ prepared' # prepared =>
            /\ prepared'.sel = prepared.sel /\ prepared'.ctx = prepared.ctx
            /\ \A s \in Steps \ {call[w].op} :
                 prepared'.steps[s] = prepared.steps[s]]_vars

\* A step's status changes only when that step, or a new preparation, commits.
OwnStatusOnly ==
    [][\A s \in Steps : prepared'.steps[s] # prepared.steps[s]
         => \E w \in Workers : /\ call[w].op \in {s, UniverseStep}
                               /\ call'[w] = Idle]_vars

\* Every required step the row records as completed worked on the symbols the
\* row now selects.
StepsReadSelection ==
    \A s \in Required : prepared.steps[s].status = "completed"
                          => prepared.steps[s].sel = prepared.sel

\* selected_symbols and universe name the same symbols.
SelectionIsUniverse == prepared.sel = prepared.uni.syms

\* The market context the row holds passed its check exactly when the row
\* records refresh-market-context as completed.
ContextStatusAgrees ==
    /\ prepared.steps[MarketStep].status = "completed" => prepared.ctx = "fresh"
    /\ prepared.steps[MarketStep].status = "failed" => prepared.ctx = "bad"

\* One call after another, the columns of the prepared row agree: its steps
\* with its selection, its selection with its universe, and its context with
\* the status recorded for it.
PreparedRowCoherent == StepsReadSelection /\ SelectionIsUniverse /\ ContextStatusAgrees

\* README.md: every stage reads the same batch of selected symbols.  A scoring
\* call past its gate has, for each required step, a completed entry that
\* worked on the symbols the call is about to score.
ScoringStepsReadSelection ==
    \A w \in Workers : call[w].op = "run-scoring" =>
        \A s \in Required : call[w].row.steps[s] =
                              Entry("completed", call[w].row.sel)

\* daily-stock-radar-spec.md: with refresh-market-context not completed,
\* run-scoring answers 409 and publishes nothing.  A staged run was scored
\* with a context that passed its check.
PublishedContextFresh ==
    run.kind = "staged" => run.ctx = "fresh"
=============================================================================
