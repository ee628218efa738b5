# Verification of the stock research backend

TLA+ models of `src/backend/src/ai_stock_sentinel`, checked with TLC on small
instances and, where listed, proved with TLAPS for every value of the
constants. Paths below are relative to that directory unless they start with
`src/`.

The system prepares a daily list of Taiwan stocks worth a look ("Daily Radar"),
answers on-demand analyses of one symbol (`/analyze`), keeps the archives both
feed on, and reviews afterwards what its rules were worth. It is a FastAPI
service over PostgreSQL. Handlers run in threadpool threads, each with a session
of its own (`db/session.py`: READ COMMITTED, `autoflush=False`, a pool of five
connections), and are driven by GitHub workflows, by an operator's retries and
by users. Nothing serialises them but what the handlers do themselves:
`SELECT ... FOR UPDATE` in a few places, an advisory lock in one, unique
constraints, and the workflows' concurrency groups, which cover some of the
callers only.

Contents: [Inventory](#inventory) - [Modules](#modules) -
[Models and code](#models-and-code) - [Runs](#runs) - [Fairness](#fairness) -
[Findings](#findings) - [Proofs](#proofs) - [Only model-checked](#only-model-checked) -
[Not modelled](#not-modelled) - [Plan](#plan)

## Inventory

| Component | State it keeps | Operations | What is hard | Module |
|---|---|---|---|---|
| **Daily Radar staged pipeline** (`daily_radar/refresh_router.py`, `pipeline_support.py`, `run_router.py`, `managed_raw_data_router.py`) | one `daily_radar_prepared_runs` row per (run_date, market): selected symbols, universe, market context, a JSON map of step statuses | prepare-universe, refresh-{lending, full-margin, avwap, market-context, ohlcv, managed-raw-data}, run-scoring, run | handlers load the row, work for minutes and write back; two lock and reread, the others do not; steps come in any order and are retried | `RadarPrepared` |
| **Run publication** (`daily_radar/service.py`, `repository.py`, `cooldown.py`, `read_router.py`) | `daily_radar_runs`, `daily_radar_candidates` | create, score, replace candidates, finish; latest, by date, history | re-runs of a date; a run that failed half way | `RadarPrepared` (publication), `RadarScoring` (places) |
| **Shared background contexts** (`daily_radar/background_context.py` and its providers) | `shared_background_contexts` by (symbol, type, replay key) | refresh with reuse of same-day rows, upsert, point-in-time read | a "missing" row written later shadows a fresh one; overlapping refreshes; a partial provider answer | `ContextCache` |
| **Raw data rows** (`daily_radar/raw_data.py`, `technical_repair.py`, `data_quality.py`) | `stock_raw_data` by (symbol, date) | fetch, ensure, classify | rows written by pipeline, one-shot run, `/analyze`; stale, short or partial history | `RadarPrepared`, `RadarScoring` |
| **Institutional flow archive** (`daily_radar/institutional_flow_*.py`, `institutional_archive_universe.py`, `institutional_universe_replay.py`) | daily flows and one completeness snapshot per market and day | refresh, bounded backfill, completeness check, streak window, replay | half-written days, corrections, gaps that must not be bridged, two transactions locking the same snapshots | `InstitutionalArchive` |
| **Market bars, exploration, market context** (`daily_radar/market_*.py`, `scaled_accumulation.py`) | `taiwan_daily_bars` | archive a market day, explore it, build the index context | missing, preliminary and late files; windows must not slide over a gap | `UniverseDiscovery`; the context's verdict in `RadarPrepared` |
| **Universe, prefilter, scoring** (`daily_radar/universe.py`, `pool.py`, `prefilter.py`, `scoring.py`) | none | merge tracks, allocate seats under a cap, refresh triggers, screen, score, publish | quotas, ties, the cap; evidence that is missing or late must never help | `UniverseDiscovery`, `RadarScoring` |
| **Forward validation** (`daily_radar/forward_validation.py`, `calibration/*`) | one result row per candidate and window | due selection, fetch, evaluate, diagnose, upsert | late index and quotes, holes, trading that stops, overlapping calls without a lock | `ForwardValidation` |
| **Research validation** (`daily_radar/research_validation.py`, `calibration/research_prices.py`, `calibration/official_corporate_actions.py`) | version-2 result rows | fetch, repair, evaluate, recover, classify, save under row locks | two sources that disagree; corporate actions; sources that fail one by one | `ResearchValidation` |
| **Rule review** (`daily_radar/rule_governance.py`, `calibration/governance.py`) | none beyond what it reads | watermarks, cohort, replay pool, ablation, gates | commits between its queries; a training month that is not whole; ranks dealt after the outcomes | `RuleGovernance` |
| **Confidence review** (`analysis/calibration.py`, `analysis/confidence_scorer.py`) | calibration samples and their results | capture, validate, review | as above; a parameter that changes nothing must not be proposed | `ConfidenceReview` |
| **Analysis and cache** (`analysis/router.py`, `analysis/application/*`, `graph/*`) | `stock_analysis_cache`, `stock_raw_data`, calibration samples | read cache, run graph, write cache, capture | two requests for a symbol; an intraday result must not become the day's final one | `AnalysisCache` |
| **Analysis rules and flow query** (`technical/profile.py`, `analysis/strategy_generator.py`, `graph/nodes.py`, `data_sources/institutional_flow/*`) | none | ask providers in order, profile, score, choose a strategy | two weightings of one evidence, written apart; unfinished bars | `AnalysisRules` |
| **Fundamental archive** (`data_sources/fundamental/*`) | records, backfill jobs with a cursor | create, continue, commit | provider calls outside the transaction, crash between fetch and commit, two runners of one job | `FundamentalBackfill` |
| **Active ETF holdings** (`active_etf_holdings/*`) | funds, observations, snapshots | refresh, compare two days, compare a range | a listing that shrinks, pages replaced within their day, one transaction per fund | `ActiveEtf` |
| **Phase 1 AVWAP** (`phase1_avwap/*`) | `phase1_avwap_snapshots` | refresh, read with an age limit | fallback after a refusal, holes in the archive, short listings | `DailyAvwap` |
| **FinMind and price clients**, **authentication**, **frontend** | tokens; none; browser session | request and retry; verify; display | a token rejected while another thread uses it | none, see below |
| **Workflows, scripts, migrations** (`src/.github`, `src/backend/alembic`) | none | call the endpoints | repair and retry logic | their calls are the actions above |

Interactions: prepare-universe reads the institutional and bar archives and
writes the prepared row; the refresh steps read its selected symbols and write
background contexts, raw rows, AVWAP snapshots, and their status into the row;
run-scoring reads all of those and writes run and candidates; `/run` does
everything in one transaction and never looks at the prepared row; `/analyze`
shares raw rows and background contexts with the pipeline; forward and research
validation read the canonical runs, and the two reviews read what validation
stored; the fundamental backfill reads runs and prepared rows.

The hazards, each at its line with the properties that answer it, are listed in
`PROJECT.json`.

## Modules

| Module | What it is |
|---|---|
| `RadarPrepared` | the staged pipeline: prepared row, raw rows, the overlapping calls of all handlers, publication |
| `RadarPreparedProofs` | type correctness; the inductive invariant for overlapping calls and its theorems; the theorems that hold with one call after another |
| `ContextCache`, `ContextView` | the shared background contexts of one type; what a reader of them may rely on (abstract) |
| `ContextCacheProofs` | inductive invariant, safety, and the refinement of `ContextView` |
| `FundamentalBackfill`, `BackfillQueue` | the resumable backfill; what it promises (abstract) |
| `FundamentalBackfillProofs` | inductive invariant, safety, and the refinement of `BackfillQueue` |
| `ForwardValidation` | close-based validation |
| `RuleGovernance`, `ConfidenceReview` | the two tracks of the monthly review |
| `ValidationProofs` | inductive invariants and theorems of `ForwardValidation`, and of `RuleGovernance`, which reviews what it stored |
| `ConfidenceReviewProofs` | the inductive invariant of the confidence track, and what a proposal rests on |
| `AnalysisCache` | one stock on `/analyze` and the rows its calls share |
| `AnalysisRules` | one analysis from the sources to the plan |
| `DailyAvwap` | where an anchored average comes from and who reads it |
| `AnalysisProofs` | inductive invariants and theorems of `AnalysisCache`, `AnalysisRules` and `DailyAvwap` |
| `InstitutionalArchive`, `InstitutionalArchiveProofs` | the archive of institutional reports, its writers, readers and rankings; its inductive invariant and theorems |
| `RadarScoring` | screening and scoring of one batch, and its two "what if" questions |
| `UniverseDiscovery` | discovery, merging and seating of the universe over a growing archive |
| `ActiveEtf` | holdings of the active funds |
| `ResearchValidation` | next-open validation with official evidence |
| `Observations` | what must not be lost of either |
| `ObservationProofs` | inductive invariants and theorems of `ActiveEtf` and `ResearchValidation` |
| `MC...` | instances for TLC. `MCForwardValidation` (with the rule review), `MCDecisions`, `MCUniverseDiscovery` (with the anchored averages) and `MCObservations` each run two models that share no state: a behaviour is about one of them and leaves the other's variables alone |

Every module except the two abstract ones declares what its instance may vary as
CONSTANTS; several take a set `Settings` of records and choose one in `Init`, so
that one run covers instances of different shape (`setting` never changes).
Assumptions on constants are named and evaluated by TLC in the run of the module.
Operators marked `Mutant` are plausible bugs of the definition after them: with
one in that definition's place, TLC finds the named property violated.

## Models and code

`PROJECT.json` maps every definition to its lines. Here is how the state reads,
and what the models leave out.

### RadarPrepared

| Model | Code |
|---|---|
| `prepared` | the `DailyRadarPreparedRun` row of one (run_date, market); `NoRow` (no selected symbol) is "no row", since an empty universe is refused. `symbol_count`, `errors` and the label in `status` are left out: no handler reads them |
| `prepared.steps[s]` | `step_statuses[s]`; `sel` is a ghost of the symbols the handler worked on |
| `raw[s]` | the `StockRawData` row, as its readers classify it: `current`, `short` (insufficient history, proven), `unusable`, `none` |
| `call[w]` | the request a worker thread is serving: the columns its session loaded, what it fetched, how far it is |
| `run` | what `get_daily_radar_run_by_date` would return |
| `blind` | history only: symbols stored by a call that held no lock |
| `Begin*` | from the request to the first provider call |
| `Finish*`, `Persist*`, `PublishScoring` | from the last provider answer to the COMMIT |
| `LockOhlcv`, `LockManaged` | `db.refresh(prepared, with_for_update=True)` and the comparison with the snapshot |
| `FailManaged`, `RecordManagedFailure` | the `except` branch of refresh-managed-raw-data: rollback, read again without a lock, commit |
| `Abort` | an HTTP error after the row was loaded, an exception, a disconnected client, a killed process: the transaction is gone |

Granularity. A handler that does not lock issues its UPDATE and its COMMIT one
after the other, and the row lock that UPDATE takes keeps every other writer of
the row out in between; hence one step. The locking handlers hold the lock from
the SELECT to the COMMIT while they store raw rows, so they get separate lock
and persist steps, and `LockFree` keeps the writers of the row waiting in
between. Raw rows have no lock of their own, and `/run` stores them while the
lock is held elsewhere. The technical tracks a preparation computes and the row
it is about to overwrite are read in one step; the two reads are milliseconds
apart in the handler, with no provider call after the first.

ORM details that matter are modelled by what they do. `WithStep` is
`update_daily_radar_prepared_step_status`: it rebuilds the JSON map from the
loaded one. `Column` is the flush of a column whose new value may equal the
loaded one, which SQLAlchemy then leaves out of the UPDATE. `Seen` is the
identity map: a SELECT does not refresh a row the session already holds, so for
a symbol the call did not store it may still see what it loaded.

Left out: refresh-ohlcv drops selected symbols that are no longer supported
(`daily_radar/refresh_router.py:444-448`), which only rows of older versions hold.

### ContextCache

One context type of the shared cache, as `update_background_chip_context_cache`
fills it and the point-in-time reader of run-scoring and of the cache itself
reads it.

| Model | Code |
|---|---|
| `rows[s][key]` | the rows of a symbol by replay key: `dated` (`...:<as_of_date>`), `inapplicable` and `missing` (`...:<run_date>:...`) |
| `fresh`, `pay`, `stamp` | the columns `freshness` and `payload` (complete, incomplete, "margin does not apply", empty), and `updated_at`. PostgreSQL's `now()` is the start of the transaction, so `stamp` orders calls by when they began |
| `source` | external: what FinMind, TWSE and TPEx have of a symbol and day |
| `call[w]` | the request of a worker thread: what it must fetch, the rows its session holds, the answers, the rows it has flushed and not committed |
| `step[d]` | the status the last committed required call of run date `d` recorded, and for which symbols |
| kind `required` | refresh-lending and refresh-full-margin: reuse and require same-day fresh contexts |
| kind `plain` | chip-context/update and the one-shot run |
| `Fetch` | the default provider: it collects every answer before it yields one, so a provider error means that nothing was upserted |
| `SelectRow`, `UpsertRow` | the SELECT and the flush of `upsert_shared_background_context`. A row that is already in the session's identity map is not refreshed (`held`); the UPDATE writes only the columns that differ from the row selected (`Merged`), none if nothing does; an INSERT of a key another session inserted fails and leaves the session unusable, so the request ends |
| `Unlocked` | the row lock or the unique index makes the second writer of a key wait for the first one's end |

### FundamentalBackfill

`POST /internal/fundamentals/backfill` works off a frozen list of symbols, one
page per request. Provider calls take minutes, so no transaction is open while
they run: a request notes the cursor, commits, fetches, and then locks the
job's row and goes on only if the cursor is still the one it noted.

| Model | Code |
|---|---|
| `jobs[j]` | a `FundamentalBackfillJob` row; symbols are numbered in their sorted order and cursor 0 is `next_after_symbol` None. `Forgotten` lets an id be used again once nobody refers to it, which stands for the fresh UUIDs of the code |
| `archive[s]` | the lanes (EPS, dividends) whose history is sufficient; the values themselves are left out |
| `call[w]` | the request a thread is serving: job and cursor it noted, page, what it fetched |
| `tries` | history only: pages committed by job and symbol |
| `BeginPage`, `BeginResume`, `BeginCreate` | the three kinds of request the handler admits: with job id and cursor; `resume_running_job`; named or managed symbols |
| `Acquire`, `SelectRunning`, `CreateJob` | the advisory lock, the oldest running job under a row lock, the job with the pending symbols; the commit at `router.py:85` ends both locks |
| `Fetch` | `backfill_fundamentals` up to `before_persist` |
| `Guard`, `Store` | `guard()`, the savepoints of each lane, the cursor and the commit. The second `guard()` at `router.py:93` looks at a row this transaction has locked, so it is part of `Store` |
| `Abort` | an exception, or the service restarted, at any point of a request. A client that gives up is not an abort: its request goes on in its thread |
| `RefreshOfficial` | `/internal/fundamentals/refresh`; any archive may result, since a new reporting period makes a sufficient history insufficient |
| `Managed` | symbols that stay in the radar selection or among recent analyses; the others may come and go with every job |

### InstitutionalArchive

| Model | Code |
|---|---|
| `published[d][m]` | external: how many versions of its report market m has published of date d; the later ones are corrections |
| `archive[d][m]` | the `DailyInstitutionalFlowSnapshot` (its hash is the version it was taken from) with its rows |
| `locks[d][m]` | the job whose open transaction wrote that snapshot; `ON CONFLICT DO UPDATE` makes another one wait |
| `jobs[j]` | a refresh of one date, or a backfill that goes date by date: what it asks, the answers, what it has flushed, its errors |
| `Fetch`, `Accepts` | one request of a market, repeated `MaxAttempts` times; an answer of another date or with a broken payload is refused |
| `BeginWrites`, `Write`, `Commit`, `Rollback` | one transaction per date: the snapshots market by market, then the rows, then the commit |
| `CheckDate`, `ResolveSession` | the backfill's completeness check of a date, and what an empty answer of both markets proves about the day |
| `reader` | a universe or replay request between its two queries, snapshots and rows; `served` is its ranking |
| `Damage` | rows that were lost from the archive after they were stored, which the sound-snapshot check exists for |

The reader's window is the last `MarketDays` dates both markets have whole, and
a streak ends at a missing weekday (`Trailing`). A request that finds a snapshot
whose rows are not those its hash was taken of answers "invalid". The backfill's
own check of a date is one step. The
legacy TWSE provider and the fusion of the tracks into one universe are not in
this module; `UniverseDiscovery` takes the leaders as given.

### ForwardValidation

| Model | Code |
|---|---|
| `sessions`, `index`, `quotes[c]` | external: the sessions so far, those the index provider has, those the price provider has of a candidate |
| `raw[c]`, `bench` | the sessions with a price in final `stock_raw_data` rows, and in the stored market context |
| `results[c][w]` | the `DailyRadarForwardValidationResult` of a candidate and window; `target` 0 is None |
| `call[k]` | a request: its mode, its as-of date, the prices and index rows it holds, the windows it will evaluate |
| `Begin` | load, discover the due windows (`Discovered`), leave out the settled ones (`Settled`) |
| `FetchIndex`, `FetchQuotes` | the two provider calls; each may fail, and the call goes on with what is stored |
| `Commit` | evaluate, diagnose (`Diagnosed`), upsert and commit; no row is locked |

Days are calendar days of which some are sessions. Only the days of a price
matter to the outcome's status and target, so a series is a set of days;
returns are left out. Both tracks are here: the radar's, with lifecycle evidence
of a stock that stopped trading, and the general-analysis samples, with the
entry price stored in the sample. The index provider publishes sessions in
their order (`PublishIndex`), late but without a hole; the quotes of a candidate
may have holes.

### AnalysisCache

| Model | Code |
|---|---|
| `now` | half days: 2d is the session of day d, 2d + 1 its evening |
| `cache[d]` | the `StockAnalysisCache` row of the day: final or provisional, and which data it rests on |
| `raw[d]` | the `StockRawData` row, with when it was fetched |
| `sample[d]` | the calibration sample |
| `call[c]` | a request: the finality it decided at its first line, its stage, its data |
| `Begin`, `Hit` | look up the cache, answer from it if it may serve |
| `ReadRaw`, `Crawl`, `BackfillYesterday` | the graph's sources: the raw row if recent, else a crawl, and the late write of yesterday's row |
| `Save`, `Capture`, `StoreRaw` | the three writes after the graph, each committed by itself; a failed capture is made up for by a later hit (`RetryCapture`) |
| `ManagedRefresh` | the pipeline's own refresh of the raw row |

A call is assumed not to outlive its day: the code takes the date again when it
writes (`analysis/router.py:465`), and a call over midnight would store under
the new date. That is outside the model and outside the hazards of
`PROJECT.json`.

### RuleGovernance and ConfidenceReview

Both review by cohorts of months: the last `CohortSize` mature months, of which
the last is the holdout and the others train. A month is mature when every
candidate (or sample) of it has a result in every window.

| Model | Code |
|---|---|
| `runs[d]`, `outcomes[d]` | the public runs of a date, oldest first, and the stored results of each; a rerun replaces the candidates in view |
| `samples`, `results` | the samples and their results of the confidence track |
| `review` | the queries a review has made and what they returned; other sessions commit between them |
| `report` | what the review answers: eligible or not, with the first reason that stands in the way |
| `SaveRun`, `StoreResults`, `Capture`, `Validate*` | what commits meanwhile, as the other services do |
| `ReadWatermarks`, `Preflight`, `ReadSamples`, `WriteReport` | the review's own queries, in their order |
| `Top`, `Gains`, `Gates`, `Reason` | the replay with a variant, its gain over the baseline, the gates in their order |

In `RuleGovernance` averages are exact fractions where the code rounds to four
decimals (coverage, which meets a threshold, is rounded here too: `IsCoverage`),
the secondary threshold is a value of the instance, and the
co-occurrence summary, the table of recommendations per rule and the markdown
are left out. In `ConfidenceReview` coverage is rounded likewise, a correlation counts integer `Unit`s, the
bootstrap's lower bound is a Boolean, a sentiment has one strength, and the
outcome metrics and the markdown are left out.

### RadarScoring

One batch of records against one market context. A record is a function from
field names to values (ratios scaled to integers); a field that is missing is
not in its domain. `Screen` is the prefilter and its shadow, then the scoring
of both. The other actions ask the same functions again of a changed input and
keep both answers, for "what if" questions: `Withhold` removes a field, `Drift`
makes a date older, `Leak` adds a bar of the future, `Exclude` is the
counterfactual replay of `rule_governance.py`. The windows of the code (20, 60,
65 days) are constants. Explanations, the cooldown and the background and AVWAP
contexts of a candidate do not change its score and are left out.

### AnalysisRules

One analysis from the sources to the plan: `ask` the request, `inst` what the
institutional router returned after trying its providers in order (with one
token renewal), `history` and `tech` the profile in its stages, `score` and
`plan` what the two nodes returned. The profile's stages are steps only to keep
TLC's branching small; they share nothing with other threads. The indicator
formulas are inputs, on both sides of every threshold.

### UniverseDiscovery

| Model | Code |
|---|---|
| `archive` | `taiwan_daily_bars`: the file of each market and day (none, preliminary, final), the stocks missing from it, and the days with complete institutional reports, which prove a session |
| `NextDay`, `StoreLate` | what ingestion adds, day by day and late |
| `Prepare`, `Discovered` | prepare-universe for one date: `market_exploration.py` and `scaled_accumulation.py`, then `Merge` and `Allocate` |
| `explored[d]` | history: the last exploration for a date and the archive it read |
| `prepared` | the merged universe, its seats shared out, with each entry's tracks |
| `rawRows[s]` | the raw row of a stock and its day |
| `RefreshOhlcv` | fresh rows, the official turnover, and the triggers taken anew (`RefreshTriggers`) |

Windows are counted in sessions that are known (`KnownDays`) and never slide
over a gap. A session is known by a bar of either market, preliminary or final,
or by a completed institutional report; the report of one market proves no more
than a preliminary bar does. refresh-ohlcv is modelled in its default mode, which
archives no bars. The code's 20, 60 and 5 days are 2, 3 and 1 in the run. The audit
reasons, the tracks' metrics, the one-shot variant of the merge and the legacy
provider are not modelled. A trigger that is gone leaves `primary_track` of an
entry that had no other track, as the code does.

### DailyAvwap

| Model | Code |
|---|---|
| `barArchive`, `pending` | the days with a final official bar, and ingests still to come |
| `rows[s][d]` | `phase1_avwap_snapshots`: fresh or missing, its source, its bars |
| `status[d]` | the refresh-avwap step's status |
| `refresh` | the call under way: what is left to do, what it found, the sessions it read of each market, and whether the exchange refused it |
| `PassOver` | a symbol whose row is fresh, which is reused, or that no source serves, which the router leaves out |
| `FetchHistory` | one symbol: the whole archive, else month by month from the exchange, else FinMind; after a refusal (HTTP 403) FinMind for the rest of the call |
| `RadarReads`, `AnalysisReads` | the two readers; the second takes the latest fresh row that is not too old |

Two refreshes of a date do not overlap here (in `RadarPrepared` they may). The
monthly cache is never hit within a refresh. An exchange answer with
`stat != OK` or without a list of rows is a month without rows and no failure
(`phase1_avwap/provider.py:511-518`), and the other months are the history:
`rows[s][d].blank` notes such months, and `IsExcused` excuses the days of them and
nothing else of a remote history. Bars pass the checks of `IsShortListing` on
their source and validity (`provider.py:356-368`), which are left out.
`remote_only`, `official_only`, distances and traces are not modelled. A day that is missing from the archive of
every stock and of the index is not noticed by the code: what a fresh row and an
excused stock are checked for speaks of the days that the archive or the
calendar shows.

### ActiveEtf

| Model | Code |
|---|---|
| `listing`, `page[f]` | external: the exchange's list, and the page the site shows of a fund |
| `registry[f]`, `observation`, `snapshot` | the three tables |
| `job` | the refresh: the listing it took, the pages of its pool, the funds still to be stored |
| `BeginAll`, `FetchAll`, `Store`, `StoreFails`, `Respond`, `Crash` | the steps of a refresh, one transaction per fund |
| `Changes`, `DailyChanges` | the differences of one day to the fund's preceding snapshot |
| `History`, `Timeline`, `Net` | the movements over a range; a history is the set of its dates, so `Before` is its neighbour in the code's list |
| `Common`, `InOrder`, `Scale` | the median ratio of the securities held on both sides: the i-th of them has fewer than i below it and at least i not above it |

The workflow's concurrency group lets one refresh run at a time; the pool's
fetches are one step. Weights, names and the paging limits of the readers are
left out. A listing that stays below four fifths of the enabled funds refuses
every refresh; the code compares how many funds there are, so a listing of other
funds, if long enough, takes any of them out of view
(`active_etf_holdings/service.py:347`). A change of less than half a percent is never marked as a change
of scale, whatever the others do: `ScalingIsMarked` says so of the rest.

### ResearchValidation

What became of a candidate bought at the open after its signal, by unadjusted
prices. Every candidate's signal is on day 0.

| Model | Code |
|---|---|
| `world` | an instance: the sessions, each source's gaps and mistakes, what happens to the shares, which sources may fail together |
| `verdicts[c][w]` | the version-2 result row; `proof` names the official evidence its payload carries |
| `recency` | the order of `updated_at`, from which old windows are resumed |
| `Start` | the windows a request evaluates (`ToEvaluate`): due, resumed or a range |
| `Research` | fetch, repair from official prices (`Repaired`), mark where two sources disagree, evaluate (`Judged`), then look for an explanation (`Rights`, then `Actions` for what has none yet); `down` is the set of sources that failed, `budget` the number of asks the call can afford |
| `Within` | the call's budget of 64 requests and 60 seconds (`calibration/research_prices.py:69`, `:92-102`), spent in the order of the symbols: repairs first, then proofs of rights, then proofs of other actions. What comes after it gets nothing from an official source, as if all had failed, and is nevertheless saved and counted as tried |
| `Save` | the upsert under row locks, and the router's commit |
| `Drop` | the call ends without a commit, also because two sessions insert one row |

An ask is one repair or one proof; the code counts its HTTP requests, one or
several for each. A report that several asks share is cached by the code and
counted by each ask here, and the index, asked first, is outside the budget. A
TPEx report that failed for one stock is cached as empty, so that the next one
merely finds nothing in it (`"blank"`, `research_prices.py:324-328`). The
as-of date may lag behind, as the workflow starts at 23:50 Taipei time. Reasons
to skip that depend on one row alone (missing open, provenance, basis, OHLC
validity) are folded into "not usable". Conflicts of the index series
(`research_validation.py:140`) are left out: index prices always agree.

## Runs

Each run ends within minutes and visits every action of its model. Constants
are in the MC modules, with a comment on what each value is there for.

| Run | Instance and bounds | What it shows |
|---|---|---|
| `RadarSerial` | 1 worker, 2 symbols, 7 calls | one call after another in any order: the row stays coherent, scoring is gated on steps that read the selection it scores, a step changes its own status only |
| `RadarOverlap` | 2 workers, 2 symbols (symmetric), 4 calls | what survives lost updates: the preparation's statuses, the evidence behind refresh-ohlcv, current raw rows, what a locking handler must not take back |
| `RadarStaleStatus` | 2 workers, 7 calls | a violation, see Findings |
| `ContextCache` | alone: 1 worker, 2 days, 4 calls; overlapping: 2 workers, required and plain, 1 symbol (lending or margin) and 3 calls or 2 symbols and 2 calls | completed means fresh rows, unless a late margin answer took them back; fresh rows are reused, readers never get worse |
| `Backfill` | 2 symbols, page of 1, 2 job ids, 2 workers, 1 abort | one open job, the cursor counts committed pages, `BackfillQueue` is implemented, nobody starves |
| `Forward` | validation: 1 candidate, 1 worker, 5 settings (holiday, stopped, range, stale, scheduled); rule review: 2 months of one date, cohorts of 2 months, 2 stocks, one rerun | outcomes rest on the n-th session, settled stays settled, every window that ends is settled; the report of the rules is sound (`RulesReportIsSound`) |
| `Confidence` | 2 stocks over 5 sessions in 3 months, cohorts of 2 months | evidence is whole, proposals are safe |
| `AnalysisCache` | 2 callers over a close; 1 caller over 2 days; 2 storing callers with retries | final rests on closing data; the day becomes final and is sampled |
| `Archive` | 5 dates with a weekend day, windows of 3, streaks of 2; 4 settings | whole reports, no streak over a gap, backfills that complete are whole, calls end |
| `Decisions` | one record and batches against every market; every tape, history and threshold | scores are backed, selection agrees with risks, "what if" only moves one way, plans are justified |
| `Universe` | 7 days, windows 2/3/1; anchored averages over 7 settings | windows are unbroken and point-in-time, seats are fair (`UniverseIsRight`); fresh averages lack nothing but months the exchange left empty, and stay, status and readers tell what is missing (`AveragesAreRight`) |
| `Observations` | funds: 4 settings; research: 13 settings, two of them with budgets below what a batch asks (`rsQueue`, `rsStarved`) | holdings are evidenced and both readings agree; verdicts are sound; nothing is lost, what is published is stored, and what can be settled within a call's budget is settled |

Why the bounds are enough. The hazards of `RadarPrepared` take two calls that
overlap and at most one more before and after; with seven calls the run still
reaches a re-preparation, both required steps, scoring and a retry. Two symbols
tell "some" from "all". A context needs two days to be stale and two calls to
be shadowed. Windows of one and two sessions, with a day that may be a holiday,
tell the n-th session from the n-th day; two months are a training month and a
holdout. Windows are shortened together, so that
every comparison between them keeps its sense. `Decisions` keeps the code's
thresholds and takes a value on each side of them.

`CHECK_DEADLOCK FALSE` appears where the model really ends: a bounded calendar
runs out, or an analysis has its plan.

## Fairness

Services that nobody schedules owe no progress, and their specifications state
none. Where progress is owed:

- **`FundamentalBackfill`**: `WF(Work)`, as provider calls have timeouts and
  the rest is local; `SF(Wait)`, as PostgreSQL grants locks in the order of the
  queue; `SF(BeginResume)` for scheduled workers only, as the workflow returns
  every weekday. `NoStarvation` has one premise, stated in the formula:
  operators do not for ever create jobs that name other symbols. Aborts are bounded.
- **`ForwardValidation`**: the calendar, the index and the quotes go on (WF).
  The due workflow comes back every weekday, so that scheduled workers begin a
  call for the last day again and again, and not all of their calls are cut off
  or refused an answer (SF); a call that is ready commits (WF).
- **`AnalysisCache`**: time passes; active callers come back with a storing
  request and go on (WF); a crawl or capture that is tried again and again
  succeeds in the end (SF). Nothing is assumed of callers that are not active.
- **`InstitutionalArchive`**: a job goes on (WF), and a lock that is free again
  and again is granted (SF). Requests may fail every time: `EveryCallEnds` does
  not need their success.
- **`ActiveEtf`**: SF of the scheduled start, WF of each step of a refresh;
  faults are bounded.
- **`ResearchValidation`**: days pass (WF); the due workflow starts again and
  again (SF). Sources fail, are slow, and calls are cut off whatever candidates a
  call holds: of the calls that hold a candidate, not all meet with that (SF for
  each candidate, of `Research` and of `Save`). No call has more than the largest
  budget. Nothing is assumed of which windows a batch holds: that a window is
  among the oldest again and again follows from `Touched`.

`EventuallyResearched` states what this is enough for. A window that needs
official evidence is promised its verdict only where a batch cannot ask for more
than a call can afford (`Affordable`): the budget is spent from the first symbol
on in every call, so that in larger batches the later ones may wait for ever. It
must be followed (`Followed`): within the default lookback, or with a row from
an earlier call, because a window that no call ever reached leaves the default
dates for good. And no caller other than the workflow is active, as one may
touch rows and so turn the order of the queue.

## Findings

`RadarStaleStatus` is the one disagreement a run shows. A refresh step that
does not lock the prepared row writes back the status map it loaded
(`daily_radar/repository.py:136`). If the universe is prepared again while it
works, the commit restores the old universe's statuses beside the new selection,
and run-scoring passes its gate on them, although no required step has run for
the symbols it scores. `src/docs/specs/daily-stock-radar-spec.md:548` and
`src/README.md:189` say that all steps read the same selected symbols. With one call after another the gate does hold
(theorem `ScoringReadsSelection`).

Met while modelling, and visible in the models:

- A stale status map can also restore "completed" beside a market context that
  failed its check; run-scoring then publishes with it. `PublishedContextFresh`
  is therefore checked and proved with one call after another only.
- A plain chip-context call that finds nothing writes a "missing" row with a
  later stamp than the fresh one of the same day; readers take the later one. So
  `CompletedIsFresh` speaks of readers only while required calls are alone.
- A late answer takes a completed full_margin row back: a call that fetched
  before the margin data was complete, and stores after another has stored the
  complete row and recorded "completed", overwrites it with its incomplete payload
  (`background_context.py:215`, `:232`; `TakenBack`). The row is not reusable and
  says so to its readers.
- A month the exchange answers without rows (`stat != OK`) is an empty month and
  no failure, so a stock without listing evidence gets a fresh average over a
  history with a month of traded days missing (`phase1_avwap/provider.py:511-518`,
  then `:207-212`). The comment at `provider.py:197` ("never return partial
  history") and `src/docs/specs/daily-stock-radar-spec.md:140` (too little data stays
  missing) do not expect it. With listing evidence `MinBars` bars are still required.
- The budget of a research call starves the same windows each time: it is spent
  in symbol order (`research_validation.py:358`), and windows that got nothing of it
  are touched like the others (`Affordable`).
- An action plan's tag is never "opportunity" (`OpportunityIsDead`): it asks for
  a score above 70, which flow and chart alone cannot reach.

## Proofs

TLAPS checks every theorem for all values of the constants, from the named
assumptions of the modules only. An invariant a run checks is seldom inductive;
each module proved about has one strengthening, `IInv` or `<Name>IInv`, proved to
hold initially and to be kept by each action in a lemma or step of its own.

| Module | Theorems | The inductive invariant |
|---|---|---|
| `RadarPreparedProofs`, types | `TypeCorrect` | the types themselves, one lemma per operator that builds a record |
| `RadarPreparedProofs`, overlapping calls | `Inductive`, `StatusesKept`, `CompletionBacked`, `PublishedUsable`, `LockedKeepOthers`, `CurrentKept` | one session holds the row lock; what it loaded under it is still in the row; every status map a call carries, however stale, has the preparation's statuses and a backed refresh-ohlcv; a stored raw row is never gone; rows a scoring call has checked are at least as good |
| `RadarPreparedProofs`, one call after another | `SerialInductive`, `RowCoherent`, `ScoringReadsSelection`, `ContextFresh`, `OwnStatus` | `SerialInv`: row coherence, and that a call under way has loaded the row as it is. `OneWorker` is assumed: `RadarStaleStatus` refutes the same formulas for two workers |
| `FundamentalBackfillProofs` | `TypeCorrect`, `Inductive`, `OneJob`, `CursorCounts`, `Serves` | one creator, one holder of a job's row, who finds it as its request started from; a page is a first part of what the cursor leaves |
| `ContextCacheProofs` | `Inductive`, `TypeCorrect`, `CompletedKept`, `FreshReused`, `ReadersImprove` | rows say what the source says; fresh rows come on top of what readers choose from; calls under way carry sound writes; a completed step is backed by the table |
| `ValidationProofs`, forward validation | `Inductive`, `OutcomesSound`, `SettledKept` | the index and stored histories are the sessions without a hole, calls hold only quoted prices, every stored result is justified by those sessions |
| `ValidationProofs`, rule review | `RulesSafe`, `RulesReportSound` | stored outcomes belong to the candidates of their run; the cohort is the last few of the months counted as mature, at most `CohortSize` of them; a report's flag and its reason agree |
| `AnalysisProofs`, cache | `Inductive`, `FinalRestsOnClose` | what is called final, in any table or call, dates from after the close; a call's data are no older than its stage claims |
| `AnalysisProofs`, rules | `AnalysisSafe`, `PlansJustified` | each part of the evidence stays within its bounds, and score and plan on hand are those of the evidence on hand |
| `AnalysisProofs`, anchored averages | `AveragesSafe`, `AveragesRight` | stored and found snapshots are sound by the archive as it is, and lack days only of months that came without rows; a call has passed a first part of the selected symbols, found each at most once, and of those it did not fetch each has a fresh row or no source; a refusal it met is remembered |
| `InstitutionalArchiveProofs` | `Inductive`, `WholeReports`, `BackfillWhole`, `NoMutualWait` | what is stored or fetched has been published; a lock belongs to the call that wrote the snapshot, in market order; an errorless backfill has only settled dates behind it; an answer is ranked from whole reports |
| `ConfidenceReviewProofs` | `Inductive`, `EvidenceWhole`, `ProposalsSafe` | a cohort that was over when it was counted stays evaluated and stays as the review has read it: captures are of today, and validation calls take no result away |
| `ObservationProofs`, holdings | `Inductive`, `Evidenced`, `HistoriesKept`, `ReadsAgreed` | a refresh works on registered funds and holds only pages that parsed on a day that has come; whatever page is shown, fetched or kept counts its shares |
| `ObservationProofs`, research | `ResearchSafe`, `VerdictsSound`, `ProvenKept`, `NothingLost` | what a request found, and what is stored of a window, agree with what became of it; a due call that is alone works on windows that are not settled |

Arguments worth knowing:

- **Locks.** In `RadarPreparedProofs` the safety of overlapping calls follows
  from `HolderCurrent`: only a session that waits for the lock or holds it writes
  the row, so what the holder compared is what it overwrites. In `FundamentalBackfillProofs` the
  same role is played by `HolderValid`. In `InstitutionalArchiveProofs` the
  locks are many, and two calls that both wait would hold snapshots of one date
  in opposite orders; the invariant says that a call holds exactly the markets
  before the one it writes next (`NoMutualWait`).
- **Refinements.** `Serves` (every step of the backfill is a step of
  `BackfillQueue` or a stutter, the safety half of `ServesQueue`) and
  `ReadersImprove` (`OnlyImproves`: the context cache implements `ContextView`).
- **Gates.** `ProposalsSafe` needs nothing about sums: a correlation is `None` or
  one of `-Unit..Unit` (`CorrelationIsUnits`), so a difference of two is never
  mistaken for `None`, and a gain above zero means that the two correlations
  differ, hence that some training sample scores differently under the move
  (`SameScores`, `OpenGatesChange`). The code's second test, that the moved
  configuration differs from the baseline, follows.
- **Rule review.** A complete pool keeps every row of its run, so ranks are dealt
  among all candidates; equal scores give equal ranks, hence a configuration
  equal to the baseline gains nothing over it, and all nine gates open imply
  that the proposed configuration was stepped (`RulesReportSound`).
- **Research.** n days of which none misses an earlier session are the first n
  sessions; the repair compares every archived day of a window with the
  official price, so a validated verdict rests on no price the archive
  contradicts; only windows that are not settled are judged by a due call that
  is alone (`VerdictsSound`, `ProvenKept`). All of this holds whatever the budget:
  an ask beyond it is one whose official sources have all failed.
- **Plans.** Bearish means three points down over technical, flow and sentiment;
  institutions that sell take points away, so a bullish signal and accumulation
  exclude one another's opposites, and flow and chart together never reach the
  confidence an "opportunity" needs (`PlansJustified`).
- **Averages.** An average lies between the prices paid because each amount does,
  and the sum of amounts over a set of days is bounded by the sum of volumes:
  the one proof by induction over data here, made by hand (`SumsExist`,
  `SumsBounded`). If the archive passes the check of a symbol, the last `MinBars`
  sessions it knows of the market lie in the symbol's own bars, so that every
  later hole is of a day on which it knows no trade (`ArchiveIsSound`). The
  listing that excuses a short history is checked against calendar, market and
  own bars from that day on; what arrives later does not unsettle it. A history
  of the exchange holds every traded day of the months that came with rows, which is
  why the snapshot has to note the others (`blank`).
- **Sums and medians of holdings.** The total of a timeline is a recursive
  function of the day. That the shares of the last snapshot so far, less those
  of the first, satisfy its equation gives the function a value, and the least
  day on which two solutions differ cannot exist (`TotalIs`). The date before
  one of a history is the day's baseline because no stored day lies between
  (`HistoryFacts`). When all ratios are equal each security has none below it,
  so that the median is one of them whatever the order (`SomeInOrder`).
- **Numbers without induction.** The libraries' induction theorems take an
  operator as a parameter, which the provers cannot use. Extremes of finite sets
  of numbers come from the interval theorems, or from the well-foundedness of
  `<` on the naturals by a smallest counterexample; streaks
  (`InstitutionalArchiveProofs`, `UnbrokenRun` and `TrailingRuns`) and the first
  n sessions (`ValidationProofs`) rest on them. A recursive function of the
  community modules, as the one under `MapThenSumSet`, can be unfolded: that it
  has a value and that its values are bounded is proved by the smallest set for
  which they would not be.

Assumptions. `CompletedKept` has no premise: what an overlapping call with an
older, incomplete margin payload does to a completed row
(`daily_radar/background_context.py:215` and `:232`) is a disjunct of the property
itself (`TakenBack`). `SettledKept` speaks of due calls one at a time: of two that
overlap, the one that read its windows first may store over what the other
settled (`daily_radar/forward_validation.py:624-646`); no property speaks of that and
no hazard has that line (the one at `:563` is about research calls). The index
provider publishes sessions in their order. `InstitutionalArchive` assumes
that no report is published of a weekend, that the markets' stocks are disjoint,
and that `FullHistory <= MarketDays` (both 5 in the code). `ConfidenceReview`
assumes that a validation call always finds something to store (a validated
result or a skip), and counts a correlation in at most 100 `Unit`s, so that
`None` is out of reach of a difference. `ResearchValidation` assumes that the
lookback is at least two windows (ten in the code), and that a session the
provider's index lacks is in the history of a prepared run (`ResearchBounds`): a
session that neither shows is none to the code. `DailyAvwap` assumes that bars
are true (a day's amount lies between its low and its high times its volume),
that a prepared run selects a symbol once, and that only bars of trades are
archived (`AvwapAssumption`). `RuleGovernance` takes a stored result's status
from the three there are (`RulesAssumption`), and `AnalysisRules` a missing
indicator as a negative number (`AnalysisAssumption`). `ActiveEtf` takes a
page's rows as finitely many and its shares as natural numbers, as parsing does
(`TablesAreCounted`). Everything else is typing
of the constants.

## Only model-checked

- All liveness: `NoStarvation` and the liveness half of `ServesQueue`,
  `EventuallySettled`, `EventuallyComplete`, `EveryCallEnds` (hence
  `ArchivingEnds`, whose safety half is `BackfillWhole`), `EverythingIsObserved`.
  TLAPS has no rules for ENABLED and fairness here.
- The safety of `RadarScoring` and `UniverseDiscovery`. It rests on sorting,
  selecting from sequences and folding over them, of which the provers know
  nothing and the libraries state nothing that can be cited.
- What the rankings compute: that `Trailing` is the longest run is proved, that
  the ranking's order is the code's is model-checked.

## Not modelled

Formatting, logging, schemas and HTTP details; the FinMind and price clients
(their results appear as provider answers and failures); authentication, which
keeps no state between requests; the frontend; migrations and deploy scripts;
the operators' backtest and repair scripts. `PROJECT.json` gives the reason for
each component and says which parts of the modelled ones are left out.

## Plan

Done: the pipeline and its publication, the context cache, the fundamental
backfill, the institutional archive, both validations, both reviews, the
analysis and its cache, the decision rules, the universe, anchored averages and
the active funds are modelled and checked; the modules of the table under
[Proofs](#proofs) are proved about.

Next, in this order:

1. `UniverseDiscovery`: unbroken windows and point-in-time reads, which follow
   from the calendar being fixed before coverage is looked at.
2. The token manager of the FinMind client under threads, and the frontend's session.
