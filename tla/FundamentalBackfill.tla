------------------------- MODULE FundamentalBackfill -------------------------
(***************************************************************************)
(* The fundamental backfill: POST /internal/fundamentals/backfill and      *)
(* /internal/fundamentals/refresh over fundamental_backfill_jobs and the   *)
(* archive of EPS periods and dividend events.  A request takes a page of  *)
(* the job outside any transaction, asks the providers, and only then      *)
(* locks the job's row, compares the cursor with the one it started from,  *)
(* and commits what it fetched together with the cursor.  Requests         *)
(* overlap: one that timed out at its caller goes on in its thread.        *)
(***************************************************************************)
EXTENDS Naturals, FiniteSets

CONSTANTS SymbolCount,  \* supported symbols
          Limit,        \* symbols in a page, at most (10 in the code)
          Managed,      \* symbols that stay managed; others come and go
          Lanes,        \* what a symbol's archive consists of: EPS, dividends
          Jobs,         \* job ids; one nobody refers to any more is used again
          Workers,      \* threads serving requests
          Scheduled,    \* workers that also serve the scheduled workflow's requests
          NoJob,        \* "no job id"
          MaxAborts     \* bound: requests that end half way

ASSUME CountsAssumption == SymbolCount \in Nat /\ Limit \in Nat \ {0} /\ MaxAborts \in Nat
ASSUME NoJobAssumption == NoJob \notin Jobs
ASSUME ScheduledAssumption == Scheduled \subseteq Workers

\* Symbols are numbered in their sorted order; cursor 0 is "from the start".
Symbols == 1 .. SymbolCount
Cursors == 0 .. SymbolCount

ASSUME ManagedAssumption == Managed \subseteq Symbols

VARIABLES jobs,      \* fundamental_backfill_jobs
          archive,   \* by symbol, the lanes whose history is sufficient
          call,      \* the request each worker is serving
          tries,     \* history: by job and symbol, pages committed with it (2 is "more")
          aborts     \* requests that ended half way so far (bound)

vars == <<jobs, archive, call, tries, aborts>>

-----------------------------------------------------------------------------
(* Data *)

JobRows == [status : {"none", "running", "completed"}, symbols : SUBSET Symbols,
            cursor : Cursors]
NoRow   == [status |-> "none", symbols |-> {}, cursor |-> 0]

\* A request.  resume is resume_running_job, want the symbols it names (none:
\* the managed ones), job and cursor what it goes on from, page the symbols it
\* has fetched for and gain, by symbol, the lanes that becomes sufficient.
Phases == {"idle", "queued", "selecting", "creating", "fetching", "guarding", "storing"}
Pages  == {page \in SUBSET Symbols : Cardinality(page) <= Limit}
Calls  == [phase : Phases, resume : BOOLEAN, want : SUBSET Symbols,
           job : Jobs \cup {NoJob}, cursor : Cursors, page : Pages,
           gain : [Symbols -> SUBSET Lanes]]
NoGain == [s \in Symbols |-> {}]
Idle   == [phase |-> "idle", resume |-> FALSE, want |-> {}, job |-> NoJob,
           cursor |-> 0, page |-> {}, gain |-> NoGain]

Running == {j \in Jobs : jobs[j].status = "running"}

\* resolve_pending_fundamental_backfill_symbols
Pending(candidates) == {s \in candidates : archive[s] # Lanes}

\* The symbols after a cursor, and the page a request takes of them: the first
\* ones, up to its limit.
After(symbols, cursor) == {s \in symbols : s > cursor}
FirstOf(symbols, n) == {s \in symbols : Cardinality({t \in symbols : t <= s}) <= n}
\* Mutant: one more than the limit.
PageOver(j, cursor, limit) == FirstOf(After(jobs[j].symbols, cursor), limit + 1)
Page(j, cursor, limit) == FirstOf(After(jobs[j].symbols, cursor), limit)

\* validate_job
\* Mutant: any cursor will do.
ValidAnyCursor(j, cursor) == jobs[j].status = "running"
Valid(j, cursor) == jobs[j].status = "running" /\ jobs[j].cursor = cursor

\* Row lock of a job, held from the guard to the commit; and the advisory lock
\* of those that may create one.  Others wait.
RowFree(w, j) == \A v \in Workers \ {w} : ~(call[v].phase = "storing" /\ call[v].job = j)
\* Mutant: no advisory lock.
SchedulerIgnored(w) == TRUE
SchedulerFree(w) == \A v \in Workers \ {w} : call[v].phase \notin {"selecting", "creating"}

-----------------------------------------------------------------------------
Init == /\ jobs = [j \in Jobs |-> NoRow]
        /\ archive \in [Symbols -> SUBSET Lanes]
        /\ call = [w \in Workers |-> Idle]
        /\ tries = [j \in Jobs |-> [s \in Symbols |-> 0]]
        /\ aborts = 0

\* A request with a job id and a cursor.  A wrong or stale one is refused (404,
\* 409), which changes nothing.
BeginPage(w) ==
    /\ call[w] = Idle
    /\ \E j \in Jobs, cursor \in Cursors :
         /\ RowFree(w, j)
         /\ Valid(j, cursor)
         /\ call' = [call EXCEPT ![w].phase = "fetching", ![w].job = j,
                                 ![w].cursor = cursor]
    /\ UNCHANGED <<jobs, archive, tries, aborts>>

\* A request without one: to resume the running job, if any, or to create one.
BeginResume(w) ==
    /\ call[w] = Idle
    /\ call' = [call EXCEPT ![w].phase = "queued", ![w].resume = TRUE]
    /\ UNCHANGED <<jobs, archive, tries, aborts>>

BeginCreate(w) ==
    /\ call[w] = Idle
    /\ \E want \in SUBSET Symbols :
         call' = [call EXCEPT ![w].phase = "queued", ![w].want = want]
    /\ UNCHANGED <<jobs, archive, tries, aborts>>

\* acquire_fundamental_backfill_scheduler_lock
Acquire(w) ==
    /\ call[w].phase = "queued"
    /\ SchedulerFree(w)
    /\ call' = [call EXCEPT ![w].phase = "selecting"]
    /\ UNCHANGED <<jobs, archive, tries, aborts>>

\* get_oldest_running_fundamental_backfill_job: the request goes on from it, is
\* refused (409), or may create one.
SelectRunning(w) ==
    /\ call[w].phase = "selecting"
    /\ \/ /\ Running = {}
          /\ call' = [call EXCEPT ![w].phase = "creating"]
       \/ \E j \in Running :
            /\ RowFree(w, j)
            /\ call' = [call EXCEPT ![w] =
                 IF call[w].resume
                 THEN [Idle EXCEPT !.phase = "fetching", !.job = j,
                                   !.cursor = jobs[j].cursor]
                 ELSE Idle]
    /\ UNCHANGED <<jobs, archive, tries, aborts>>

\* Ids nobody refers to: unused, or of a job that ended.
Forgotten == {j \in Jobs \ Running : \A v \in Workers : call[v].job # j}

\* The pending ones of the symbols named, or of the managed ones, are frozen in
\* a new job.
CreateJob(w) ==
    /\ call[w].phase = "creating"
    /\ \E j \in Forgotten, managed \in SUBSET Symbols :
         /\ Managed \subseteq managed
         /\ jobs' = [jobs EXCEPT ![j] =
              [status |-> "running", cursor |-> 0,
               symbols |-> Pending(IF call[w].want # {} THEN call[w].want ELSE managed)]]
         /\ tries' = [tries EXCEPT ![j] = [s \in Symbols |-> 0]]
         /\ call' = [call EXCEPT ![w] = [Idle EXCEPT !.phase = "fetching", !.job = j]]
    /\ UNCHANGED <<archive, aborts>>

\* backfill_fundamentals up to before_persist: the providers are asked for the
\* lanes of the page that are insufficient; some answers do, some fail.
Fetch(w) ==
    /\ call[w].phase = "fetching"
    /\ \E limit \in 1 .. Limit :
         LET page == Page(call[w].job, call[w].cursor, limit) IN
         \E gain \in [Symbols -> SUBSET Lanes] :
            /\ \A s \in Symbols :
                  gain[s] \subseteq (IF s \in page THEN Lanes \ archive[s] ELSE {})
            /\ call' = [call EXCEPT ![w].phase = "guarding", ![w].page = page,
                                    ![w].gain = gain]
    /\ UNCHANGED <<jobs, archive, tries, aborts>>

\* before_persist: the row is locked and must still be what the request started
\* from; else the request is refused and what it fetched is lost.
Guard(w) ==
    /\ call[w].phase = "guarding"
    /\ RowFree(w, call[w].job)
    /\ call' = [call EXCEPT ![w] = IF Valid(call[w].job, call[w].cursor)
                                   THEN [call[w] EXCEPT !.phase = "storing"]
                                   ELSE Idle]
    /\ UNCHANGED <<jobs, archive, tries, aborts>>

\* The row after a page: the cursor moves past every symbol of the page, even
\* those that stay insufficient; without more symbols the job has ended.
\* Mutant: the cursor waits for those.
RowRetrying(c, stored) ==
    LET left == After(jobs[c.job].symbols, c.cursor) \ c.page
        done == \A s \in c.page : stored[s] = Lanes
    IN IF ~done THEN jobs[c.job]
       ELSE IF left = {} THEN [jobs[c.job] EXCEPT !.status = "completed", !.cursor = 0]
       ELSE [jobs[c.job] EXCEPT !.cursor = CHOOSE s \in c.page : \A t \in c.page : t <= s]
RowAfter(c, stored) ==
    LET left == After(jobs[c.job].symbols, c.cursor) \ c.page
    IN IF left = {} THEN [jobs[c.job] EXCEPT !.status = "completed", !.cursor = 0]
       ELSE [jobs[c.job] EXCEPT !.cursor = CHOOSE s \in c.page : \A t \in c.page : t <= s]

Bump(n) == IF n = 0 THEN 1 ELSE 2

\* What was fetched is stored, a lane that fails to is rolled back to its
\* savepoint, and the cursor is committed with it.  The second guard looks at
\* the row this transaction has locked.
Store(w) ==
    /\ call[w].phase = "storing"
    /\ LET c == call[w] IN
       \E kept \in [Symbols -> SUBSET Lanes] :
         /\ \A s \in Symbols : kept[s] \subseteq c.gain[s]
         /\ archive' = [s \in Symbols |-> archive[s] \cup kept[s]]
         /\ jobs' = [jobs EXCEPT ![c.job] = RowAfter(c, archive')]
         /\ tries' = [tries EXCEPT ![c.job] =
                        [s \in Symbols |-> IF s \in c.page THEN Bump(@[s]) ELSE @[s]]]
    /\ call' = [call EXCEPT ![w] = Idle]
    /\ UNCHANGED aborts

\* An exception, a restart of the service: the transaction and its locks are gone.
Abort(w) ==
    /\ call[w].phase # "idle"
    /\ aborts < MaxAborts
    /\ call' = [call EXCEPT ![w] = Idle]
    /\ aborts' = aborts + 1
    /\ UNCHANGED <<jobs, archive, tries>>

\* refresh_official_fundamentals commits what the official sources publish,
\* which completes a history or, with a new period, makes it insufficient.
RefreshOfficial ==
    /\ archive' \in [Symbols -> SUBSET Lanes]
    /\ UNCHANGED <<jobs, call, tries, aborts>>

-----------------------------------------------------------------------------
Begin(w) == BeginPage(w) \/ BeginResume(w) \/ BeginCreate(w)
Wait(w)  == Acquire(w) \/ SelectRunning(w) \/ Guard(w)
Work(w)  == CreateJob(w) \/ Fetch(w) \/ Store(w)

Next == \/ \E w \in Workers : Begin(w) \/ Wait(w) \/ Work(w) \/ Abort(w)
        \/ RefreshOfficial

Spec == Init /\ [][Next]_vars

\* A thread goes on; a lock, and a thread, is given to those who wait in turn;
\* and the workflow comes back every weekday.
Fairness == /\ \A w \in Workers : WF_vars(Work(w)) /\ SF_vars(Wait(w))
            /\ \A w \in Scheduled : SF_vars(BeginResume(w))

FairSpec == Spec /\ Fairness

-----------------------------------------------------------------------------
(* Properties *)

\* Type invariant.
TypeOK == /\ jobs \in [Jobs -> JobRows]
          /\ archive \in [Symbols -> SUBSET Lanes]
          /\ call \in [Workers -> Calls]
          /\ tries \in [Jobs -> [Symbols -> 0 .. 2]]
          /\ aborts \in 0 .. MaxAborts

\* The advisory lock around select-or-create: however the requests race, two jobs
\* are never open at once.
OneRunningJob == Cardinality(Running) <= 1

\* The guard before the write: whatever overlaps, repeats or is cut off, the
\* cursor of a job says exactly which of its symbols have been committed, each
\* in one page.
CursorCountsPages ==
    \A j \in Jobs, s \in Symbols :
        tries[j][s] = IF /\ s \in jobs[j].symbols
                         /\ jobs[j].status = "completed" \/ s <= jobs[j].cursor
                      THEN 1 ELSE 0

\* The symbols the running job has still to serve.
Left == {After(jobs[j].symbols, jobs[j].cursor) : j \in Running}

Queue == INSTANCE BackfillQueue WITH open <- Left

\* Refinement: overlapping, repeated and aborted requests together serve one job
\* at a time, in order, page by page, and an open job ends.
ServesQueue == Queue!FairSpec

\* A managed symbol that keeps lacking data is tried again and again: it does not
\* starve, nor do those behind one that stays incomplete.  This takes that operators do not
\* for ever create jobs of other symbols.
Tried(s) == \E j \in Jobs : tries'[j][s] > tries[j][s]
NoStarvation ==
    <>[](\A w \in Workers : call[w].want = {})
    => \A s \in Managed : []<>(archive[s] = Lanes) \/ []<><<Tried(s)>>_vars
=============================================================================
