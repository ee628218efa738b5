------------------------- MODULE RadarPreparedProofs -------------------------
(***************************************************************************)
(* What holds of the staged pipeline for every universe, every number of   *)
(* workers and every bound: type correctness, the safety of overlapping    *)
(* calls, and what holds besides when one call follows another, as the     *)
(* scheduled workflows drive it.                                           *)
(***************************************************************************)
EXTENDS RadarPrepared, TLAPS

\* A row that was never prepared and a universe never computed have their types.
LEMMA NoRowType == NoRow \in PreparedRows /\ NoUniverse \in Universes
BY DEF NoRow, PreparedRows, NoUniverse, Universes, Contexts, NoEntry, Entries

\* A worker that serves no call is in a state of its type.
LEMMA IdleType == Idle \in Calls
BY NoRowType DEF Idle, Calls, Ops, Phases, NoRows, RawStates

\* What a handler loads of the prepared row is a prepared row.
LEMMA LoadedType ==
    ASSUME TypeOK, NEW columns
    PROVE  Loaded(columns) \in PreparedRows
BY NoRowType DEF TypeOK, Loaded, PreparedRows

\* update_daily_radar_prepared_step_status leaves a status map.
LEMMA WithStepType ==
    ASSUME NEW row \in PreparedRows, NEW step \in Steps,
           NEW status \in {"completed", "failed"}
    PROVE  WithStep(row, step, status) \in [Steps -> Entries]
BY DEF WithStep, PreparedRows, Entry, Entries

\* So does a preparation.
LEMMA PreparedStepsType ==
    ASSUME NEW sel \in SUBSET Symbols
    PROVE  PreparedSteps(sel) \in [Steps -> Entries]
BY DEF PreparedSteps, Entry, Entries, NoEntry

\* Storing what a fetcher answered leaves raw rows.
LEMMA StoredType ==
    ASSUME TypeOK, NEW need, NEW payload \in [need -> Payloads]
    PROVE  Stored(need, payload) \in [Symbols -> RawStates]
BY DEF TypeOK, Stored, Payloads, RawStates

\* A call that begins leaves everything but its worker and the counter alone.
LEMMA BeginType ==
    ASSUME TypeOK, NEW w \in Workers, NEW c \in Calls, Begin(w, c)
    PROVE  TypeOK'
<1>1. call' \in [Workers -> Calls]
  BY DEF TypeOK, Begin
<1>2. calls' \in 0 .. MaxCalls
  BY MaxCallsAssumption DEF TypeOK, Begin
<1> QED
  BY <1>1, <1>2 DEF TypeOK, Begin

\* A call that returns leaves the calls well typed.
LEMMA ReturnType ==
    ASSUME TypeOK, NEW w \in Workers, Return(w)
    PROVE  call' \in [Workers -> Calls]
BY IdleType DEF TypeOK, Return

\* The handlers' names are steps of the status map and operations of a call.
LEMMA StepNames ==
    /\ {ArchiveStep, UniverseStep, OhlcvStep, MarketStep, ManagedStep}
         \subseteq Steps
    /\ UnlockedSteps \subseteq Steps
    /\ UnlockedSteps \subseteq Ops
    /\ {UniverseStep, OhlcvStep, MarketStep, ManagedStep,
        "idle", "run-scoring", "run"} \subseteq Ops
BY DEF Steps, OwnSteps, Ops

\* Preparing the universe keeps the types.
LEMMA PrepareType ==
    ASSUME TypeOK, NEW w \in Workers, BeginPrepare(w) \/ FinishPrepare(w)
    PROVE  TypeOK'
<1>1. CASE BeginPrepare(w)
  <2>1. PICK sel \in (SUBSET Symbols) \ {{}} :
          Begin(w, [Idle EXCEPT
            !.op  = UniverseStep,
            !.row = Loaded({"sel", "uni", "ctx"}),
            !.uni = [syms |-> sel, tracks |-> sel \ NotCurrent(sel)]])
    BY <1>1 DEF BeginPrepare
  <2>2. [syms |-> sel, tracks |-> sel \ NotCurrent(sel)] \in Universes
    BY DEF Universes
  <2>3. [Idle EXCEPT
            !.op  = UniverseStep,
            !.row = Loaded({"sel", "uni", "ctx"}),
            !.uni = [syms |-> sel, tracks |-> sel \ NotCurrent(sel)]] \in Calls
    BY <2>2, IdleType, LoadedType, StepNames DEF Calls
  <2> QED BY <2>1, <2>3, BeginType
<1>2. CASE FinishPrepare(w)
  <2> DEFINE c == call[w]
  <2>1. c \in Calls /\ c.row \in PreparedRows /\ c.uni \in Universes
    BY DEF TypeOK, Calls
  <2>2. c.uni.syms \in SUBSET Symbols
    BY <2>1 DEF Universes
  <2>3. PreparedSteps(c.uni.syms) \in [Steps -> Entries]
    BY <2>2, PreparedStepsType
  <2>4. CASE UNCHANGED prepared
    BY <1>2, <2>4, ReturnType DEF FinishPrepare, TypeOK
  <2>5. CASE prepared' = [sel |-> c.uni.syms, uni |-> c.uni, ctx |-> "none",
                          steps |-> PreparedSteps(c.uni.syms)]
    <3>1. prepared' \in PreparedRows
      BY <2>1, <2>2, <2>3, <2>5 DEF PreparedRows, Contexts
    <3> QED BY <1>2, <3>1, ReturnType DEF FinishPrepare, TypeOK
  <2>6. CASE \E sel \in Column(prepared.sel, c.row.sel, c.uni.syms),
                uni \in Column(prepared.uni, c.row.uni, c.uni) :
               prepared' =
                 [sel |-> sel, uni |-> uni,
                  ctx |-> IF c.row.ctx = "none" THEN prepared.ctx ELSE "none",
                  steps |-> PreparedSteps(c.uni.syms)]
    <3>1. prepared.sel \in SUBSET Symbols /\ prepared.uni \in Universes
          /\ prepared.ctx \in Contexts
      BY DEF TypeOK, PreparedRows
    <3>2. PICK sel \in Column(prepared.sel, c.row.sel, c.uni.syms),
               uni \in Column(prepared.uni, c.row.uni, c.uni) :
               prepared' =
                 [sel |-> sel, uni |-> uni,
                  ctx |-> IF c.row.ctx = "none" THEN prepared.ctx ELSE "none",
                  steps |-> PreparedSteps(c.uni.syms)]
      BY <2>6
    <3>3. sel \in SUBSET Symbols /\ uni \in Universes
      BY <2>1, <2>2, <3>1 DEF Column
    <3>4. prepared' \in PreparedRows
      BY <2>3, <3>1, <3>2, <3>3 DEF PreparedRows, Contexts
    <3> QED BY <1>2, <3>4, ReturnType DEF FinishPrepare, TypeOK
  <2> QED BY <1>2, <2>4, <2>5, <2>6 DEF FinishPrepare
<1> QED BY <1>1, <1>2

\* So do the steps that write the status map of the loaded row back.
LEMMA UnlockedType ==
    ASSUME TypeOK, NEW w \in Workers,
           \/ BeginUnlockedStep(w) \/ FinishUnlockedStep(w)
           \/ BeginMarketContext(w) \/ FinishMarketContext(w)
           \/ FailManaged(w) \/ RecordManagedFailure(w)
    PROVE  TypeOK'
<1> USE StepNames
<1>1. CASE BeginUnlockedStep(w)
  <2>1. PICK step \in UnlockedSteps :
          Begin(w, [Idle EXCEPT !.op = step, !.row = Loaded({"sel", "steps"})])
    BY <1>1 DEF BeginUnlockedStep
  <2>2. [Idle EXCEPT !.op = step, !.row = Loaded({"sel", "steps"})] \in Calls
    BY IdleType, LoadedType DEF Calls
  <2> QED BY <2>1, <2>2, BeginType
<1>2. CASE BeginMarketContext(w)
  <2>1. [Idle EXCEPT !.op = MarketStep, !.row = Loaded({"sel", "ctx", "steps"})]
          \in Calls
    BY IdleType, LoadedType DEF Calls
  <2> QED BY <1>2, <2>1, BeginType DEF BeginMarketContext
<1>3. call[w] \in Calls /\ call[w].row \in PreparedRows
      /\ prepared \in PreparedRows
  BY DEF TypeOK, Calls
<1>4. CASE FinishUnlockedStep(w)
  <2>1. PICK status \in {"completed", "failed"} :
          prepared' = [prepared EXCEPT
                         !.steps = WithStep(call[w].row, call[w].op, status)]
    BY <1>4 DEF FinishUnlockedStep
  <2>2. WithStep(call[w].row, call[w].op, status) \in [Steps -> Entries]
    BY <1>3, <1>4, WithStepType DEF FinishUnlockedStep
  <2>3. prepared' \in PreparedRows
    BY <1>3, <2>1, <2>2 DEF PreparedRows
  <2> QED BY <1>4, <2>3, ReturnType DEF FinishUnlockedStep, TypeOK
<1>5. CASE FinishMarketContext(w)
  <2>1. \A status \in {"completed", "failed"} :
          WithStep(call[w].row, MarketStep, status) \in [Steps -> Entries]
    BY <1>3, WithStepType
  <2>2. \A ctx \in {"fresh", "bad"} :
          Column(prepared.ctx, call[w].row.ctx, ctx) \subseteq Contexts
    BY <1>3 DEF Column, PreparedRows, Contexts
  <2>3. prepared' \in PreparedRows
    BY <1>3, <1>5, <2>1, <2>2 DEF FinishMarketContext, PreparedRows
  <2> QED BY <1>5, <2>3, ReturnType DEF FinishMarketContext, TypeOK
<1>6. CASE FailManaged(w)
  <2>1. [call[w] EXCEPT !.phase = "failing", !.row = Loaded({"sel", "steps"})]
          \in Calls
    BY <1>3, LoadedType DEF Calls, Phases
  <2>2. call' \in [Workers -> Calls]
    BY <1>6, <2>1 DEF FailManaged, TypeOK
  <2> QED BY <1>6, <2>2 DEF FailManaged, TypeOK
<1>7. CASE RecordManagedFailure(w)
  <2>1. WithStep(call[w].row, ManagedStep, "failed") \in [Steps -> Entries]
    BY <1>3, WithStepType
  <2>2. prepared' \in PreparedRows
    BY <1>3, <1>7, <2>1 DEF RecordManagedFailure, PreparedRows
  <2> QED BY <1>7, <2>2, ReturnType DEF RecordManagedFailure, TypeOK
<1> QED BY <1>1, <1>2, <1>4, <1>5, <1>6, <1>7

\* So do the handlers that store raw rows.
LEMMA RawRowsType ==
    ASSUME TypeOK, NEW w \in Workers,
           \/ BeginOhlcv(w) \/ FetchOhlcv(w) \/ LockOhlcv(w)
           \/ PersistOhlcv(w)
           \/ BeginManaged(w) \/ LockManaged(w) \/ PersistManaged(w)
    PROVE  TypeOK'
<1> USE StepNames
<1>1. call[w] \in Calls /\ call[w].row \in PreparedRows
      /\ prepared \in PreparedRows
  BY DEF TypeOK, Calls
<1>2. CASE BeginOhlcv(w)
  <2>1. [Idle EXCEPT !.op = OhlcvStep, !.row = Loaded({"sel", "uni"})] \in Calls
    BY IdleType, LoadedType DEF Calls
  <2> QED BY <1>2, <2>1, BeginType DEF BeginOhlcv
<1>3. CASE FetchOhlcv(w)
  <2>1. [call[w] EXCEPT !.phase = "fetched", !.need = NotCurrent(call[w].row.sel)]
          \in Calls
    BY <1>1 DEF Calls, Phases, NotCurrent, PreparedRows
  <2>2. call' \in [Workers -> Calls]
    BY <1>3, <2>1 DEF FetchOhlcv, TypeOK
  <2> QED BY <1>3, <2>2 DEF FetchOhlcv, TypeOK
<1>4. CASE LockOhlcv(w)
  <2>1. [call[w] EXCEPT !.phase = "locked",
                        !.row   = Loaded({"sel", "uni", "steps"}),
                        !.need  = StillMissing(call[w].need),
                        !.rows  = raw] \in Calls
    BY <1>1, LoadedType DEF Calls, Phases, StillMissing, NotCurrent, TypeOK
  <2>2. call' \in [Workers -> Calls]
    BY <1>4, <2>1, ReturnType DEF LockOhlcv, TypeOK
  <2> QED BY <1>4, <2>2 DEF LockOhlcv, TypeOK
<1>5. CASE PersistOhlcv(w)
  <2> DEFINE row == call[w].row
  <2>1. PICK payload \in [call[w].need -> Payloads] :
          /\ raw' = Stored(call[w].need, payload)
          /\ \E rows \in Seen(call[w].need, call[w].rows, raw') :
               prepared' = [prepared EXCEPT
                 !.uni.tracks = {s \in row.uni.syms \cap row.sel :
                                   rows[s] = "current"},
                 !.steps = WithStep(row, OhlcvStep,
                             IF Missing(rows, row.sel) = {}
                             THEN "completed" ELSE "failed")]
    BY <1>5 DEF PersistOhlcv
  <2>2. raw' \in [Symbols -> RawStates]
    BY <2>1, StoredType
  <2>3. \A status \in {"completed", "failed"} :
          WithStep(row, OhlcvStep, status) \in [Steps -> Entries]
    BY <1>1, WithStepType
  <2>4. \A tracks \in SUBSET Symbols, steps \in [Steps -> Entries] :
          [prepared EXCEPT !.uni.tracks = tracks, !.steps = steps]
            \in PreparedRows
    BY <1>1 DEF PreparedRows, Universes
  <2>5. \A rows : {s \in row.uni.syms \cap row.sel : rows[s] = "current"}
                    \in SUBSET Symbols
    BY <1>1 DEF PreparedRows
  <2>6. prepared' \in PreparedRows
    <3>1. PICK rows \in Seen(call[w].need, call[w].rows, raw') :
            prepared' = [prepared EXCEPT
                 !.uni.tracks = {s \in row.uni.syms \cap row.sel :
                                   rows[s] = "current"},
                 !.steps = WithStep(row, OhlcvStep,
                             IF Missing(rows, row.sel) = {}
                             THEN "completed" ELSE "failed")]
      BY <2>1
    <3>2. (IF Missing(rows, row.sel) = {} THEN "completed" ELSE "failed")
            \in {"completed", "failed"}
      OBVIOUS
    <3> QED BY <2>3, <2>4, <2>5, <3>1, <3>2
  <2> QED BY <1>5, <2>2, <2>6, ReturnType DEF PersistOhlcv, TypeOK
<1>6. CASE BeginManaged(w)
  <2>1. NotCurrent(Managed) \in SUBSET Symbols
    BY ManagedAssumption DEF NotCurrent
  <2>2. [Idle EXCEPT !.op = ManagedStep, !.need = NotCurrent(Managed)] \in Calls
    BY <2>1, IdleType DEF Calls
  <2> QED BY <1>6, <2>2, BeginType DEF BeginManaged
<1>7. CASE LockManaged(w)
  <2>1. \A phase \in {"locked", "unlocked"} :
          [call[w] EXCEPT !.phase = phase,
                          !.row   = Loaded({"sel", "steps"}),
                          !.need  = StillMissing(call[w].need),
                          !.rows  = raw] \in Calls
    BY <1>1, LoadedType DEF Calls, Phases, StillMissing, NotCurrent, TypeOK
  <2>2. call' \in [Workers -> Calls]
    BY <1>7, <2>1 DEF LockManaged, TypeOK
  <2> QED BY <1>7, <2>2 DEF LockManaged, TypeOK
<1>8. CASE PersistManaged(w)
  <2>1. PICK payload \in [call[w].need -> Payloads] :
          /\ raw' = Stored(call[w].need, payload)
          /\ \/ /\ \E status \in {"completed", "failed"} :
                     prepared' = [prepared EXCEPT
                       !.steps = WithStep(call[w].row, ManagedStep, status)]
                /\ UNCHANGED blind
             \/ /\ blind' = blind \cup {s \in call[w].need :
                                           payload[s] # "nopayload"}
                /\ UNCHANGED prepared
    BY <1>8 DEF PersistManaged
  <2>2. raw' \in [Symbols -> RawStates]
    BY <2>1, StoredType
  <2>3. \A status \in {"completed", "failed"} :
          WithStep(call[w].row, ManagedStep, status) \in [Steps -> Entries]
    BY <1>1, WithStepType
  <2>4. prepared' \in PreparedRows
    BY <1>1, <2>1, <2>3 DEF PreparedRows
  <2>5. blind' \in SUBSET Symbols
    <3>1. call[w].need \in SUBSET Symbols /\ blind \in SUBSET Symbols
      BY <1>1 DEF TypeOK, Calls
    <3> QED BY <2>1, <3>1
  <2>6. call' \in [Workers -> Calls] /\ UNCHANGED <<run, calls>>
    BY <1>8, ReturnType DEF PersistManaged
  <2> QED BY <2>2, <2>4, <2>5, <2>6 DEF TypeOK
<1> QED BY <1>2, <1>3, <1>4, <1>5, <1>6, <1>7, <1>8

\* So do the handlers that publish, and a call that ends without a commit.
LEMMA PublishType ==
    ASSUME TypeOK, NEW w \in Workers,
           \/ BeginScoring(w) \/ CheckScoring(w) \/ PublishScoring(w)
           \/ BeginOneShot(w) \/ FinishOneShot(w) \/ Abort(w)
    PROVE  TypeOK'
<1> USE StepNames
<1>1. call[w] \in Calls /\ call[w].row \in PreparedRows
      /\ call[w].uni \in Universes
  BY DEF TypeOK, Calls
<1>2. CASE BeginScoring(w)
  <2>1. [Idle EXCEPT !.op  = "run-scoring",
                     !.row = Loaded({"sel", "ctx", "steps"})] \in Calls
    BY IdleType, LoadedType DEF Calls
  <2> QED BY <1>2, <2>1, BeginType DEF BeginScoring
<1>3. CASE CheckScoring(w)
  <2>1. [call[w] EXCEPT
           !.phase = "checked",
           !.rows  = [s \in Symbols |-> IF s \in call[w].row.sel
                                        THEN raw[s] ELSE "none"]] \in Calls
    BY <1>1 DEF Calls, Phases, TypeOK, RawStates
  <2>2. call' \in [Workers -> Calls]
    BY <1>3, <2>1 DEF CheckScoring, TypeOK
  <2> QED BY <1>3, <2>2 DEF CheckScoring, TypeOK
<1>4. CASE PublishScoring(w)
  <2>1. run' \in Runs
    BY <1>1, <1>4 DEF PublishScoring, TypeOK, Runs, PreparedRows, Calls
  <2> QED BY <1>4, <2>1, ReturnType DEF PublishScoring, TypeOK
<1>5. CASE BeginOneShot(w)
  <2>1. PICK sel \in (SUBSET Symbols) \ {{}} :
          Begin(w, [Idle EXCEPT
            !.op   = "run",
            !.need = NotCurrent(sel),
            !.uni  = [syms |-> sel, tracks |-> sel \ NotCurrent(sel)],
            !.rows = raw])
    BY <1>5 DEF BeginOneShot
  <2>2. [syms |-> sel, tracks |-> sel \ NotCurrent(sel)] \in Universes
        /\ NotCurrent(sel) \in SUBSET Symbols
    BY DEF Universes, NotCurrent
  <2>3. [Idle EXCEPT
            !.op   = "run",
            !.need = NotCurrent(sel),
            !.uni  = [syms |-> sel, tracks |-> sel \ NotCurrent(sel)],
            !.rows = raw] \in Calls
    BY <2>2, IdleType DEF Calls, TypeOK
  <2> QED BY <2>1, <2>3, BeginType
<1>6. CASE FinishOneShot(w)
  <2>1. PICK payload \in [call[w].need -> Payloads] :
          /\ raw' = Stored(call[w].need, payload)
          /\ blind' = blind \cup {s \in call[w].need : payload[s] # "nopayload"}
    BY <1>6 DEF FinishOneShot
  <2>2. raw' \in [Symbols -> RawStates]
    BY <2>1, StoredType
  <2>3. blind' \in SUBSET Symbols
    BY <1>1, <2>1 DEF TypeOK, Calls
  <2>4. \A rows \in Seen(call[w].need, call[w].rows, raw') :
          rows \in [Symbols -> RawStates]
    BY <1>1, <2>2 DEF Seen, Calls
  <2>5. run' \in Runs
    BY <1>1, <1>6, <2>4
       DEF FinishOneShot, TypeOK, Runs, Contexts, Universes, RawStates
  <2> QED BY <1>6, <2>2, <2>3, <2>5, ReturnType DEF FinishOneShot, TypeOK
<1>7. CASE Abort(w)
  BY <1>7, ReturnType DEF Abort, TypeOK
<1> QED BY <1>2, <1>3, <1>4, <1>5, <1>6, <1>7

\* Every variable keeps its type, for every universe, thread pool and bound.
THEOREM TypeCorrect == Spec => []TypeOK
<1>1. Init => TypeOK
  BY NoRowType, IdleType, MaxCallsAssumption
     DEF Init, TypeOK, RawStates, Runs, NoRun, NoRows, Contexts
<1>2. TypeOK /\ [Next]_vars => TypeOK'
  <2> SUFFICES ASSUME TypeOK, [Next]_vars PROVE TypeOK'
    OBVIOUS
  <2>1. CASE Next
    BY <2>1, PrepareType, UnlockedType, RawRowsType, PublishType
       DEF Next, Handle, DayOver, vars, TypeOK
  <2>2. CASE UNCHANGED vars
    BY <2>2 DEF vars, TypeOK
  <2> QED BY <2>1, <2>2
<1> QED BY <1>1, <1>2, PTL DEF Spec

-----------------------------------------------------------------------------
(* Overlapping calls: the inductive invariant is what a call may rely on     *)
(* between two of its transactions: what it loaded from the prepared row and *)
(* the raw rows is still worth something when it writes.                     *)

\* SELECT ... FOR UPDATE lets one session in.
OneHolder ==
    \A v, w \in Workers :
        call[v].phase = "locked" /\ call[w].phase = "locked" => v = w

\* Whoever holds the lock has read the row as it still is, and is going to
\* store nothing that is current.
HolderCurrent(c) ==
    c.phase = "locked" =>
        /\ c.op \in {OhlcvStep, ManagedStep}
        /\ Exists(prepared)
        /\ c.row.sel = prepared.sel
        /\ c.row.steps = prepared.steps
        /\ \A s \in c.need : raw[s] = "current" => s \in blind

PreparedBoth(steps) == /\ steps[ArchiveStep].status = "completed"
                       /\ steps[UniverseStep].status = "completed"

\* A status map about to be written back was loaded from a prepared row.
LoadedStatuses(c) ==
    /\ c.op \in UnlockedSteps \cup {MarketStep, OhlcvStep} => Exists(c.row)
    /\ c.op \in UnlockedSteps \cup {MarketStep, ManagedStep} /\ Exists(c.row)
         => PreparedBoth(c.row.steps)

\* What a status map says of refresh-ohlcv is backed by raw rows.
Backed(steps) ==
    steps[OhlcvStep].status = "completed" =>
        \A s \in steps[OhlcvStep].sel : raw[s] # "none"

\* A raw row a call or a run holds exists, and is current if it was.
RowsLast(rows) ==
    \A s \in Symbols :
        /\ rows[s] # "none" => raw[s] # "none"
        /\ rows[s] = "current" => raw[s] = "current" \/ s \in blind

\* A scoring call past its raw-row check holds a usable row of every symbol.
CheckedUsable(c) ==
    c.phase = "checked" => \A s \in c.row.sel : c.rows[s] \in Usable

CallInv(c) == /\ HolderCurrent(c)  /\ LoadedStatuses(c) /\ Backed(c.row.steps)
              /\ RowsLast(c.rows)  /\ CheckedUsable(c)

IInv == /\ TypeOK
        /\ OneHolder
        /\ PreparationStatusesKept
        /\ OhlcvCompletionBacked
        /\ PublishedRowsUsable
        /\ \A w \in Workers : CallInv(call[w])

-----------------------------------------------------------------------------
(* Steps that only read: a call goes on with what it has just loaded *)

Reads(w) ==
    \/ BeginPrepare(w) \/ BeginUnlockedStep(w) \/ BeginMarketContext(w)
    \/ BeginOhlcv(w)   \/ FetchOhlcv(w)        \/ LockOhlcv(w)
    \/ BeginManaged(w) \/ LockManaged(w)       \/ FailManaged(w)
    \/ BeginScoring(w) \/ CheckScoring(w)      \/ BeginOneShot(w)
    \/ Abort(w)

\* No call, no stale read: an idle worker holds nothing.
LEMMA IdleInv == CallInv(Idle)
BY StepNamesAssumption
   DEF CallInv, Idle, HolderCurrent, LoadedStatuses, Backed, RowsLast,
       CheckedUsable, NoRow, NoRows, NoEntry, Exists, UnlockedSteps, Steps,
       OwnSteps, ArchiveStep, UniverseStep, OhlcvStep, MarketStep, ManagedStep

\* What a handler loads of the prepared row is worth what the row is.
LEMMA LoadedInv ==
    ASSUME IInv, NEW columns
    PROVE  /\ Backed(Loaded(columns).steps)
           /\ "sel" \in columns => Loaded(columns).sel = prepared.sel
           /\ {"sel", "steps"} \subseteq columns /\ Exists(prepared)
                => PreparedBoth(Loaded(columns).steps)
<1>1. Backed(NoRow.steps)
  BY DEF Backed, NoRow, NoEntry, Steps, OwnSteps
<1>2. Backed(prepared.steps)
  BY DEF IInv, OhlcvCompletionBacked, Backed
<1>3. Exists(prepared) => PreparedBoth(prepared.steps)
  BY DEF IInv, PreparationStatusesKept, PreparedBoth
<1> QED BY <1>1, <1>2, <1>3 DEF Loaded

\* A call may go on with anything that satisfies CallInv, and with the lock
\* when it is free.
LEMMA GoOn ==
    ASSUME IInv, NEW w \in Workers, NEW c \in Calls, CallInv(c),
           call' = [call EXCEPT ![w] = c], c.phase = "locked" => LockFree,
           UNCHANGED <<prepared, raw, run, blind>>, TypeOK'
    PROVE  IInv'
<1>1. \A v \in Workers : call'[v] = IF v = w THEN c ELSE call[v]
  BY DEF IInv, TypeOK
<1>2. OneHolder'
  BY <1>1 DEF IInv, OneHolder, LockFree
<1>3. \A v \in Workers : CallInv(call'[v])
  BY <1>1 DEF IInv
<1>4. \A v \in Workers : CallInv(call[v])'
  BY <1>3 DEF CallInv, HolderCurrent, LoadedStatuses, Backed, RowsLast,
              CheckedUsable
<1>5. PreparationStatusesKept' /\ OhlcvCompletionBacked' /\ PublishedRowsUsable'
  BY DEF IInv, PreparationStatusesKept, OhlcvCompletionBacked,
         PublishedRowsUsable
<1> QED BY <1>2, <1>4, <1>5 DEF IInv

\* Every reading step leaves its worker with such a call.
LEMMA ReadStep ==
    ASSUME IInv, NEW w \in Workers, Reads(w)
    PROVE  IInv'
<1>1. TypeOK'
  BY PrepareType, UnlockedType, RawRowsType, PublishType DEF IInv, Reads
<1>2. /\ call[w] \in Calls /\ CallInv(call[w]) /\ TypeOK
      /\ Idle \in Calls /\ Idle.rows = NoRows /\ Idle.row = NoRow
      /\ Idle.phase = "loaded"
  BY IdleType DEF IInv, TypeOK, Idle
<1>3. \A columns : /\ Loaded(columns) \in PreparedRows
                   /\ Backed(Loaded(columns).steps)
  BY <1>2, LoadedType, LoadedInv
<1>4. RowsLast(raw) /\ RowsLast(NoRows)
  BY DEF RowsLast, NoRows
<1>5. CASE BeginPrepare(w)
  <2>1. PICK sel \in (SUBSET Symbols) \ {{}} :
          Begin(w, [Idle EXCEPT
            !.op  = UniverseStep,
            !.row = Loaded({"sel", "uni", "ctx"}),
            !.uni = [syms |-> sel, tracks |-> sel \ NotCurrent(sel)]])
    BY <1>5 DEF BeginPrepare
  <2> DEFINE c == [Idle EXCEPT
            !.op  = UniverseStep,
            !.row = Loaded({"sel", "uni", "ctx"}),
            !.uni = [syms |-> sel, tracks |-> sel \ NotCurrent(sel)]]
  <2>2. c \in Calls
    BY <1>2, <1>3, StepNames DEF Calls, Universes
  <2>3. CallInv(c)
    BY <1>2, <1>3, <1>4, StepNamesAssumption
       DEF CallInv, Calls, HolderCurrent, LoadedStatuses, CheckedUsable,
           UnlockedSteps, OwnSteps, ArchiveStep, UniverseStep, OhlcvStep,
           MarketStep, ManagedStep
  <2> QED BY <1>1, <2>1, <2>2, <2>3, <1>2, GoOn DEF Begin, Calls
<1>6. CASE BeginUnlockedStep(w)
  <2>1. PICK step \in UnlockedSteps :
          Begin(w, [Idle EXCEPT !.op = step, !.row = Loaded({"sel", "steps"})])
    BY <1>6 DEF BeginUnlockedStep
  <2> DEFINE c == [Idle EXCEPT !.op = step, !.row = Loaded({"sel", "steps"})]
  <2>2. c \in Calls
    BY <1>2, <1>3, StepNames DEF Calls
  <2>3. Exists(c.row) /\ PreparedBoth(c.row.steps)
    BY <1>2, <1>6, LoadedInv DEF BeginUnlockedStep, Exists, Calls
  <2>4. CallInv(c)
    BY <1>2, <1>3, <1>4, <2>3
       DEF CallInv, Calls, HolderCurrent, LoadedStatuses, CheckedUsable
  <2> QED BY <1>1, <2>1, <2>2, <2>4, <1>2, GoOn DEF Begin, Calls
<1>7. CASE BeginMarketContext(w)
  <2> DEFINE c == [Idle EXCEPT !.op  = MarketStep,
                               !.row = Loaded({"sel", "ctx", "steps"})]
  <2>1. c \in Calls
    BY <1>2, <1>3, StepNames DEF Calls
  <2>2. Exists(c.row) /\ PreparedBoth(c.row.steps)
    BY <1>2, <1>7, LoadedInv DEF BeginMarketContext, Exists, Calls
  <2>3. CallInv(c)
    BY <1>2, <1>3, <1>4, <2>2
       DEF CallInv, Calls, HolderCurrent, LoadedStatuses, CheckedUsable
  <2> QED BY <1>1, <2>1, <2>3, <1>2, <1>7, GoOn DEF BeginMarketContext, Begin, Calls
<1>8. CASE BeginOhlcv(w)
  <2> DEFINE c == [Idle EXCEPT !.op = OhlcvStep, !.row = Loaded({"sel", "uni"})]
  <2>1. c \in Calls
    BY <1>2, <1>3, StepNames DEF Calls
  <2>2. Exists(c.row)
    BY <1>2, <1>8, LoadedInv DEF BeginOhlcv, Exists, Calls
  <2>3. CallInv(c)
    BY <1>2, <1>3, <1>4, <2>2, StepNamesAssumption
       DEF CallInv, Calls, HolderCurrent, LoadedStatuses, CheckedUsable,
           UnlockedSteps, OwnSteps, ArchiveStep, UniverseStep, OhlcvStep,
           MarketStep, ManagedStep
  <2> QED BY <1>1, <2>1, <2>3, <1>2, <1>8, GoOn DEF BeginOhlcv, Begin, Calls
<1>9. CASE BeginManaged(w)
  <2> DEFINE c == [Idle EXCEPT !.op = ManagedStep, !.need = NotCurrent(Managed)]
  <2>1. c \in Calls
    BY <1>2, StepNames, ManagedAssumption DEF Calls, NotCurrent
  <2>2. Backed(c.row.steps) /\ ~Exists(c.row)
    BY <1>2, IdleInv DEF CallInv, Calls, NoRow, Exists
  <2>3. CallInv(c)
    BY <1>2, <1>4, <2>2, StepNamesAssumption
       DEF CallInv, Calls, HolderCurrent, LoadedStatuses, CheckedUsable,
           UnlockedSteps, OwnSteps, ArchiveStep, UniverseStep, OhlcvStep,
           MarketStep, ManagedStep
  <2> QED BY <1>1, <2>1, <2>3, <1>2, <1>9, GoOn DEF BeginManaged, Begin, Calls
<1>10. CASE BeginScoring(w)
  <2> DEFINE c == [Idle EXCEPT !.op  = "run-scoring",
                               !.row = Loaded({"sel", "ctx", "steps"})]
  <2>1. c \in Calls
    BY <1>2, <1>3, StepNames DEF Calls
  <2>2. CallInv(c)
    BY <1>2, <1>3, <1>4, StepNamesAssumption
       DEF CallInv, Calls, HolderCurrent, LoadedStatuses, CheckedUsable,
           UnlockedSteps, OwnSteps, ArchiveStep, UniverseStep, OhlcvStep,
           MarketStep, ManagedStep
  <2> QED BY <1>1, <2>1, <2>2, <1>2, <1>10, GoOn DEF BeginScoring, Begin, Calls
<1>11. CASE BeginOneShot(w)
  <2>1. PICK sel \in (SUBSET Symbols) \ {{}} :
          Begin(w, [Idle EXCEPT
            !.op   = "run",
            !.need = NotCurrent(sel),
            !.uni  = [syms |-> sel, tracks |-> sel \ NotCurrent(sel)],
            !.rows = raw])
    BY <1>11 DEF BeginOneShot
  <2> DEFINE c == [Idle EXCEPT
            !.op   = "run",
            !.need = NotCurrent(sel),
            !.uni  = [syms |-> sel, tracks |-> sel \ NotCurrent(sel)],
            !.rows = raw]
  <2>2. c \in Calls
    BY <1>2, StepNames DEF Calls, Universes, NotCurrent, TypeOK
  <2>3. Backed(c.row.steps) /\ c.rows = raw
    BY <1>2, IdleInv DEF CallInv, Calls
  <2>4. CallInv(c)
    BY <1>2, <1>4, <2>3, StepNamesAssumption
       DEF CallInv, Calls, HolderCurrent, LoadedStatuses, CheckedUsable,
           UnlockedSteps, OwnSteps, ArchiveStep, UniverseStep, OhlcvStep,
           MarketStep, ManagedStep
  <2> QED BY <1>1, <2>1, <2>2, <2>4, <1>2, GoOn DEF Begin, Calls
<1>12. CASE FetchOhlcv(w)
  <2> DEFINE c == [call[w] EXCEPT !.phase = "fetched",
                                  !.need  = NotCurrent(call[w].row.sel)]
  <2>1. c \in Calls
    BY <1>2 DEF Calls, Phases, NotCurrent, PreparedRows
  <2>2. CallInv(c)
    BY <1>2 DEF CallInv, Calls, HolderCurrent, LoadedStatuses, CheckedUsable
  <2>3. call' = [call EXCEPT ![w] = c]
    BY <1>12 DEF FetchOhlcv, TypeOK, IInv, Calls
  <2> QED BY <1>1, <2>1, <2>2, <2>3, <1>2, <1>12, GoOn DEF FetchOhlcv, Calls
<1>13. CASE LockOhlcv(w)
  <2>1. CASE Return(w)
    BY <1>1, <2>1, <1>2, <1>13, IdleInv, GoOn DEF LockOhlcv, Return
  <2>2. CASE ~Return(w)
    <3> DEFINE c == [call[w] EXCEPT !.phase = "locked",
                                    !.row   = Loaded({"sel", "uni", "steps"}),
                                    !.need  = StillMissing(call[w].need),
                                    !.rows  = raw]
    <3>1. c \in Calls
      BY <1>2, <1>3 DEF Calls, Phases, StillMissing, NotCurrent, TypeOK
    <3>2. Exists(prepared)
      BY <1>2, <1>13, <2>2 DEF LockOhlcv, CallInv, LoadedStatuses, Exists
    <3>3. c.row.sel = prepared.sel /\ c.row.steps = prepared.steps
      BY <1>2 DEF Loaded, Calls
    <3>4. \A s \in c.need : raw[s] # "current"
      BY <1>2 DEF StillMissing, NotCurrent, Calls
    <3>5. CallInv(c)
      BY <1>2, <1>3, <1>4, <1>13, <3>2, <3>3, <3>4, StepNamesAssumption
         DEF CallInv, Calls, HolderCurrent, LoadedStatuses, CheckedUsable,
             Exists, LockOhlcv, UnlockedSteps, OwnSteps, ArchiveStep,
             UniverseStep, OhlcvStep, MarketStep, ManagedStep
    <3>6. call' = [call EXCEPT ![w] = c]
      BY <1>2, <1>13, <2>2 DEF LockOhlcv, TypeOK, Calls
    <3> QED BY <1>1, <3>1, <3>5, <3>6, <1>13, GoOn DEF LockOhlcv
  <2> QED BY <2>1, <2>2
<1>14. CASE LockManaged(w)
  <2> DEFINE c == [call[w] EXCEPT
         !.phase = IF Exists(prepared) THEN "locked" ELSE "unlocked",
         !.row   = Loaded({"sel", "steps"}),
         !.need  = StillMissing(call[w].need),
         !.rows  = raw]
  <2>1. c \in Calls
    BY <1>2, <1>3 DEF Calls, Phases, StillMissing, NotCurrent, TypeOK
  <2>2. c.row.sel = prepared.sel /\ c.row.steps = prepared.steps
    BY <1>2 DEF Loaded, Calls
  <2>3. Exists(prepared) => PreparedBoth(c.row.steps)
    BY <2>2 DEF IInv, PreparationStatusesKept, PreparedBoth
  <2>4. \A s \in c.need : raw[s] # "current"
    BY <1>2 DEF StillMissing, NotCurrent, Calls
  <2>5. CallInv(c)
    BY <1>2, <1>3, <1>4, <1>14, <2>2, <2>3, <2>4, StepNamesAssumption
       DEF CallInv, Calls, HolderCurrent, LoadedStatuses, CheckedUsable,
           Exists, LockManaged, UnlockedSteps, OwnSteps, ArchiveStep,
           UniverseStep, OhlcvStep, MarketStep, ManagedStep
  <2>6. call' = [call EXCEPT ![w] = c]
    BY <1>2, <1>14 DEF LockManaged, TypeOK, Calls
  <2>7. c.phase = "locked" => LockFree
    BY <1>2, <1>14 DEF LockManaged, Calls
  <2> QED BY <1>1, <2>1, <2>5, <2>6, <2>7, <1>14, GoOn DEF LockManaged
<1>15. CASE FailManaged(w)
  <2> DEFINE c == [call[w] EXCEPT !.phase = "failing",
                                  !.row   = Loaded({"sel", "steps"})]
  <2>1. c \in Calls
    BY <1>2, <1>3 DEF Calls, Phases
  <2>2. c.row.sel = prepared.sel /\ c.row.steps = prepared.steps
    BY <1>2 DEF Loaded, Calls
  <2>3. Exists(prepared) => PreparedBoth(c.row.steps)
    BY <2>2 DEF IInv, PreparationStatusesKept, PreparedBoth
  <2>4. CallInv(c)
    BY <1>2, <1>3, <1>15, <2>2, <2>3, StepNamesAssumption
       DEF CallInv, Calls, HolderCurrent, LoadedStatuses, CheckedUsable,
           Exists, FailManaged, UnlockedSteps, OwnSteps, ArchiveStep,
           UniverseStep, OhlcvStep, MarketStep, ManagedStep
  <2>5. call' = [call EXCEPT ![w] = c]
    BY <1>2, <1>15 DEF FailManaged, TypeOK, Calls
  <2> QED BY <1>1, <2>1, <2>4, <2>5, <1>2, <1>15, GoOn DEF FailManaged, Calls
<1>16. CASE CheckScoring(w)
  <2> DEFINE sel == call[w].row.sel
             c   == [call[w] EXCEPT
                       !.phase = "checked",
                       !.rows  = [s \in Symbols |-> IF s \in sel
                                                    THEN raw[s] ELSE "none"]]
  <2>1. c \in Calls
    BY <1>2 DEF Calls, Phases, TypeOK, RawStates
  <2>2. RowsLast(c.rows)
    BY <1>2 DEF RowsLast, Calls
  <2>3. \A s \in sel : c.rows[s] \in Usable
    BY <1>2, <1>16 DEF CheckScoring, RowsComplete, Calls, PreparedRows
  <2>4. CallInv(c)
    BY <1>2, <2>2, <2>3 DEF CallInv, Calls, HolderCurrent, LoadedStatuses,
                            CheckedUsable
  <2>5. call' = [call EXCEPT ![w] = c]
    BY <1>2, <1>16 DEF CheckScoring, TypeOK, Calls
  <2> QED BY <1>1, <2>1, <2>4, <2>5, <1>2, <1>16, GoOn DEF CheckScoring, Calls
<1>17. CASE Abort(w)
  BY <1>1, <1>2, <1>17, IdleInv, GoOn DEF Abort, Return
<1> QED BY <1>5, <1>6, <1>7, <1>8, <1>9, <1>10, <1>11, <1>12, <1>13, <1>14,
           <1>15, <1>16, <1>17 DEF Reads

-----------------------------------------------------------------------------
(* Steps that commit: the call returns, the others keep what they hold *)

Commits(w) ==
    \/ FinishPrepare(w)  \/ FinishUnlockedStep(w)   \/ FinishMarketContext(w)
    \/ PersistOhlcv(w)   \/ PersistManaged(w)       \/ RecordManagedFailure(w)
    \/ PublishScoring(w) \/ FinishOneShot(w)

\* Raw rows get no worse, but for what was stored under no lock.
RawLasts ==
    /\ blind \subseteq blind'
    /\ \A s \in Symbols :
         /\ raw[s] # "none" => raw'[s] # "none"
         /\ raw[s] = "current" => raw'[s] = "current" \/ s \in blind'

\* Nobody else's lock is overridden: the row it covers stays, and only a call
\* that held no lock makes a row current behind the holder's back.
LocksLast(w) ==
    \A v \in Workers \ {w} : call[v].phase = "locked" =>
        /\ prepared' = prepared
        /\ \A s \in Symbols : raw'[s] = "current" =>
                                raw[s] = "current" \/ s \in blind'

\* A commit that lets raw rows and locks last, and whose own writes satisfy the
\* state parts of the invariant, preserves it.
LEMMA LetGo ==
    ASSUME IInv, NEW w \in Workers, Return(w), TypeOK', RawLasts, LocksLast(w),
           PreparationStatusesKept', OhlcvCompletionBacked', PublishedRowsUsable'
    PROVE  IInv'
<1>1. \A v \in Workers : call'[v] = IF v = w THEN Idle ELSE call[v]
  BY DEF IInv, TypeOK, Return
<1>2. Idle.phase = "loaded"
  BY DEF Idle
<1>3. OneHolder'
  BY <1>1, <1>2 DEF IInv, OneHolder
<1>4. CallInv(Idle)'
  BY StepNamesAssumption
     DEF CallInv, Idle, HolderCurrent, LoadedStatuses, Backed, RowsLast,
         CheckedUsable, NoRow, NoRows, NoEntry, Exists, UnlockedSteps, Steps,
         OwnSteps, ArchiveStep, UniverseStep, OhlcvStep, MarketStep, ManagedStep
<1>5. ASSUME NEW v \in Workers PROVE CallInv(call[v])'
  <2>1. CASE v = w
    BY <1>1, <1>4, <2>1
       DEF CallInv, HolderCurrent, LoadedStatuses, Backed, RowsLast,
           CheckedUsable
  <2>2. CASE v # w
    <3> DEFINE c == call[v]
    <3>1. call'[v] = c /\ CallInv(c) /\ c \in Calls
      BY <1>1, <2>2 DEF IInv, TypeOK
    <3>2. HolderCurrent(call[v])'
      <4>1. SUFFICES ASSUME c.phase = "locked"
                     PROVE  /\ c.op \in {OhlcvStep, ManagedStep}
                            /\ Exists(prepared')
                            /\ c.row.sel = prepared'.sel
                            /\ c.row.steps = prepared'.steps
                            /\ \A s \in c.need : raw'[s] = "current" => s \in blind'
        BY <3>1 DEF HolderCurrent, Exists
      <4>2. prepared' = prepared
        BY <2>2, <4>1 DEF LocksLast
      <4>3. c.need \subseteq Symbols
        BY <3>1 DEF Calls
      <4>4. \A s \in c.need : raw'[s] = "current" => s \in blind'
        BY <2>2, <3>1, <4>1, <4>3 DEF LocksLast, RawLasts, CallInv, HolderCurrent
      <4> QED BY <3>1, <4>1, <4>2, <4>4 DEF CallInv, HolderCurrent
    <3>3. LoadedStatuses(call[v])'
      BY <3>1 DEF CallInv, LoadedStatuses
    <3>4. Backed(call[v].row.steps)'
      <4>1. \A s \in c.row.steps[OhlcvStep].sel : s \in Symbols
        BY <3>1, StepNames DEF Calls, PreparedRows, Entries
      <4> QED BY <3>1, <4>1 DEF CallInv, Backed, RawLasts
    <3>5. RowsLast(call[v].rows)'
      BY <3>1 DEF CallInv, RowsLast, RawLasts
    <3>6. CheckedUsable(call[v])'
      BY <3>1 DEF CallInv, CheckedUsable
    <3> QED BY <3>2, <3>3, <3>4, <3>5, <3>6 DEF CallInv
  <2> QED BY <2>1, <2>2
<1> QED BY <1>3, <1>5 DEF IInv

\* A public run that stays is worth what it was.
LEMMA RunLasts ==
    ASSUME IInv, RawLasts, run' = run
    PROVE  PublishedRowsUsable'
BY DEF IInv, TypeOK, Runs, PublishedRowsUsable, RawLasts

\* So is what the prepared row says of refresh-ohlcv.
LEMMA OhlcvLasts ==
    ASSUME IInv, RawLasts, TypeOK',
           prepared'.steps[OhlcvStep].status = "completed" =>
             \/ prepared'.steps[OhlcvStep] = prepared.steps[OhlcvStep]
             \/ \E w \in Workers : prepared'.steps[OhlcvStep]
                                     = call[w].row.steps[OhlcvStep]
    PROVE  OhlcvCompletionBacked'
<1>1. prepared'.steps[OhlcvStep].sel \subseteq Symbols
  BY StepNames DEF TypeOK, PreparedRows, Entries
<1> QED BY <1>1 DEF IInv, OhlcvCompletionBacked, CallInv, Backed, RawLasts

\* Storing raw rows touches only the symbols to store and deletes no row.
LEMMA StoredLasts ==
    ASSUME NEW need, NEW payload \in [need -> Payloads]
    PROVE  \A s \in Symbols :
             /\ raw[s] # "none" => Stored(need, payload)[s] # "none"
             /\ s \notin need => Stored(need, payload)[s] = raw[s]
             /\ Stored(need, payload)[s] # raw[s] => payload[s] # "nopayload"
BY DEF Stored, Payloads

\* A step's entry is new, the others are the loaded ones.
LEMMA WithStepKeeps ==
    ASSUME NEW row \in PreparedRows, NEW step \in Steps, NEW status
    PROVE  /\ \A s \in Steps \ {step} :
                WithStep(row, step, status)[s] = row.steps[s]
           /\ WithStep(row, step, status)[step] = Entry(status, row.sel)
BY DEF WithStep, PreparedRows

\* A handler that commits over the row it loaded: it waits for the row lock and
\* leaves the raw rows alone, and a status map that held both statuses of the
\* preparation still does.
LEMMA UnlockedCommit ==
    ASSUME IInv, NEW w \in Workers, TypeOK', Return(w), LockFree,
           UNCHANGED <<raw, run, blind>>,
           NEW step \in Steps \ {ArchiveStep, UniverseStep, OhlcvStep},
           NEW status,
           prepared'.steps = WithStep(call[w].row, step, status),
           PreparedBoth(call[w].row.steps)
    PROVE  IInv'
<1>1. call[w].row \in PreparedRows
  BY DEF IInv, TypeOK, Calls
<1>2. RawLasts /\ LocksLast(w)
  BY DEF RawLasts, LocksLast, LockFree
<1>3. PreparationStatusesKept'
  BY <1>1, WithStepKeeps, StepNames
     DEF PreparationStatusesKept, PreparedBoth
<1>4. OhlcvCompletionBacked'
  BY <1>1, <1>2, WithStepKeeps, OhlcvLasts, StepNames
<1> QED BY <1>2, <1>3, <1>4, RunLasts, LetGo

\* Every commit preserves the invariant.
LEMMA CommitStep ==
    ASSUME IInv, NEW w \in Workers, Commits(w)
    PROVE  IInv'
<1>1. TypeOK'
  BY PrepareType, UnlockedType, RawRowsType, PublishType DEF IInv, Commits
<1>2. /\ call[w] \in Calls /\ call[w].row \in PreparedRows /\ CallInv(call[w])
      /\ TypeOK
  BY DEF IInv, TypeOK, Calls
<1>3. /\ \A step \in UnlockedSteps \cup {MarketStep, ManagedStep} :
           step \in Steps \ {ArchiveStep, UniverseStep, OhlcvStep}
      /\ ManagedStep \notin {ArchiveStep, UniverseStep, OhlcvStep}
      /\ OhlcvStep \notin {ArchiveStep, UniverseStep}
  BY StepNames, StepNamesAssumption
     DEF UnlockedSteps, OwnSteps, ArchiveStep, UniverseStep, OhlcvStep,
         MarketStep, ManagedStep
<1>4. CASE FinishPrepare(w)
  <2>1. RawLasts /\ Return(w) /\ run' = run
    BY <1>4 DEF RawLasts, FinishPrepare
  <2>2. PreparedBoth(PreparedSteps(call[w].uni.syms))
        /\ PreparedSteps(call[w].uni.syms)[OhlcvStep] = NoEntry
    BY <1>3, StepNames DEF PreparedBoth, PreparedSteps, Entry
  <2>3. prepared' = prepared
        \/ prepared'.steps = PreparedSteps(call[w].uni.syms)
    BY <1>4 DEF FinishPrepare
  <2>4. LocksLast(w)
    BY <1>4 DEF FinishPrepare, LocksLast, LockFree, IInv, CallInv, HolderCurrent,
                Exists
  <2>5. PreparationStatusesKept'
    BY <2>2, <2>3 DEF IInv, PreparationStatusesKept, PreparedBoth, Exists
  <2>6. OhlcvCompletionBacked'
    BY <1>1, <2>1, <2>2, <2>3, OhlcvLasts DEF NoEntry
  <2> QED BY <1>1, <2>1, <2>4, <2>5, <2>6, RunLasts, LetGo
<1>5. CASE FinishUnlockedStep(w)
  <2>1. PICK status \in {"completed", "failed"} :
          prepared' = [prepared EXCEPT
                         !.steps = WithStep(call[w].row, call[w].op, status)]
    BY <1>5 DEF FinishUnlockedStep
  <2>2. prepared'.steps = WithStep(call[w].row, call[w].op, status)
    BY <1>2, <2>1 DEF TypeOK, PreparedRows
  <2>3. PreparedBoth(call[w].row.steps)
    BY <1>2, <1>5 DEF FinishUnlockedStep, CallInv, LoadedStatuses
  <2> QED BY <1>1, <1>3, <1>5, <2>2, <2>3, UnlockedCommit DEF FinishUnlockedStep
<1>6. CASE FinishMarketContext(w)
  <2>1. \E status : prepared'.steps = WithStep(call[w].row, MarketStep, status)
    BY <1>2, <1>6 DEF FinishMarketContext, TypeOK, PreparedRows
  <2>2. PreparedBoth(call[w].row.steps)
    BY <1>2, <1>6 DEF FinishMarketContext, CallInv, LoadedStatuses
  <2> QED BY <1>1, <1>3, <1>6, <2>1, <2>2, UnlockedCommit DEF FinishMarketContext
<1>7. CASE RecordManagedFailure(w)
  <2>1. CASE Exists(call[w].row)
    <3>1. prepared'.steps = WithStep(call[w].row, ManagedStep, "failed")
      BY <1>2, <1>7, <2>1 DEF RecordManagedFailure, TypeOK, PreparedRows
    <3>2. PreparedBoth(call[w].row.steps)
      BY <1>2, <1>7, <2>1 DEF RecordManagedFailure, CallInv, LoadedStatuses
    <3> QED BY <1>1, <1>3, <1>7, <2>1, <3>1, <3>2, UnlockedCommit
            DEF RecordManagedFailure
  <2>2. CASE ~Exists(call[w].row)
    <3>1. RawLasts /\ LocksLast(w) /\ Return(w) /\ run' = run
          /\ prepared' = prepared
      BY <1>7, <2>2 DEF RecordManagedFailure, RawLasts, LocksLast
    <3>2. PreparationStatusesKept' /\ OhlcvCompletionBacked'
      BY <1>1, <3>1, OhlcvLasts DEF IInv, PreparationStatusesKept, Exists
    <3> QED BY <1>1, <3>1, <3>2, RunLasts, LetGo
  <2> QED BY <2>1, <2>2
<1>8. CASE PublishScoring(w)
  <2>1. RawLasts /\ LocksLast(w) /\ Return(w) /\ prepared' = prepared
    BY <1>8 DEF PublishScoring, RawLasts, LocksLast
  <2>2. PreparationStatusesKept' /\ OhlcvCompletionBacked'
    BY <1>1, <2>1, OhlcvLasts DEF IInv, PreparationStatusesKept, Exists
  <2>3. PublishedRowsUsable'
    <3>1. CASE run' = run
      BY <2>1, <3>1, RunLasts
    <3>2. CASE run' = [kind |-> "staged", sel |-> call[w].row.sel,
                       ctx |-> call[w].row.ctx, rows |-> call[w].rows]
      <4>1. call[w].row.sel \subseteq Symbols
        BY <1>2 DEF PreparedRows
      <4> QED BY <1>2, <1>8, <2>1, <3>2, <4>1
              DEF PublishScoring, PublishedRowsUsable, CallInv, CheckedUsable,
                  RowsLast, RawLasts
    <3> QED BY <1>8, <3>1, <3>2 DEF PublishScoring
  <2> QED BY <1>1, <2>1, <2>2, <2>3, LetGo
<1>9. CASE PersistOhlcv(w)
  <2> DEFINE row  == call[w].row
             need == call[w].need
  <2>1. PICK payload \in [need -> Payloads],
             rows \in Seen(need, call[w].rows, raw') :
          /\ raw' = Stored(need, payload)
          /\ prepared' = [prepared EXCEPT
               !.uni.tracks = {s \in row.uni.syms \cap row.sel :
                                 rows[s] = "current"},
               !.steps = WithStep(row, OhlcvStep,
                           IF Missing(rows, row.sel) = {}
                           THEN "completed" ELSE "failed")]
    BY <1>9 DEF PersistOhlcv
  <2>2. HolderCurrent(call[w]) /\ call[w].phase = "locked" /\ Return(w)
        /\ UNCHANGED <<run, blind>>
    BY <1>2, <1>9 DEF PersistOhlcv, CallInv
  <2>3. RawLasts
    <3>1. \A s \in Symbols : raw[s] = "current" =>
                               raw'[s] = "current" \/ s \in blind'
      BY <2>1, <2>2, StoredLasts DEF HolderCurrent
    <3> QED BY <2>1, <2>2, <3>1, StoredLasts DEF RawLasts
  <2>4. LocksLast(w)
    BY <2>2 DEF LocksLast, IInv, OneHolder
  <2>5. prepared'.steps = WithStep(row, OhlcvStep,
                            IF Missing(rows, row.sel) = {}
                            THEN "completed" ELSE "failed")
    BY <1>2, <2>1 DEF TypeOK, PreparedRows
  <2>6. PreparationStatusesKept'
    <3>1. PreparedBoth(row.steps)
      BY <2>2 DEF IInv, HolderCurrent, PreparationStatusesKept, PreparedBoth
    <3> QED BY <1>2, <1>3, <2>5, <3>1, WithStepKeeps, StepNames
            DEF PreparationStatusesKept, PreparedBoth
  <2>7. OhlcvCompletionBacked'
    <3>1. SUFFICES ASSUME prepared'.steps[OhlcvStep].status = "completed",
                          NEW s \in prepared'.steps[OhlcvStep].sel
                   PROVE  raw'[s] # "none"
      BY DEF OhlcvCompletionBacked
    <3>2. /\ prepared'.steps[OhlcvStep].sel = row.sel
          /\ prepared'.steps[OhlcvStep].status
               = IF Missing(rows, row.sel) = {} THEN "completed" ELSE "failed"
      <4>1. prepared'.steps[OhlcvStep]
              = Entry(IF Missing(rows, row.sel) = {} THEN "completed" ELSE "failed",
                      row.sel)
        <5> HIDE DEF row
        <5>1. OhlcvStep \in Steps
          BY StepNames
        <5>2. row \in PreparedRows
          BY <1>2 DEF row
        <5> QED BY <2>5, <5>1, <5>2 DEF WithStep, PreparedRows
      <4> QED BY <4>1 DEF Entry
    <3>3. s \in row.sel /\ s \in Symbols /\ rows[s] \in Usable
      BY <1>2, <3>1, <3>2 DEF Missing, PreparedRows
    <3>4. call[w].rows[s] # "none" => raw'[s] # "none"
      BY <1>2, <2>3, <3>3 DEF CallInv, RowsLast, RawLasts
    <3> QED BY <2>1, <3>3, <3>4 DEF Seen, Usable
  <2> QED BY <1>1, <2>2, <2>3, <2>4, <2>6, <2>7, RunLasts, LetGo
<1>10. CASE PersistManaged(w)
  <2> DEFINE need == call[w].need
  <2>1. PICK payload \in [need -> Payloads] : raw' = Stored(need, payload)
    BY <1>10 DEF PersistManaged
  <2>2. Return(w) /\ run' = run
    BY <1>10 DEF PersistManaged
  <2>3. CASE call[w].phase = "locked"
    <3>1. UNCHANGED blind /\ HolderCurrent(call[w])
          /\ \E status : prepared' = [prepared EXCEPT
                           !.steps = WithStep(call[w].row, ManagedStep, status)]
      BY <1>2, <1>10, <2>3 DEF PersistManaged, CallInv
    <3>2. \E status :
            prepared'.steps = WithStep(call[w].row, ManagedStep, status)
      BY <1>2, <3>1 DEF TypeOK, PreparedRows
    <3>3. RawLasts
      BY <2>1, <2>3, <3>1, StoredLasts DEF RawLasts, HolderCurrent
    <3>4. LocksLast(w)
      BY <2>3 DEF LocksLast, IInv, OneHolder
    <3>5. PreparedBoth(call[w].row.steps)
      BY <2>3, <3>1 DEF IInv, HolderCurrent, PreparationStatusesKept, PreparedBoth
    <3>6. PreparationStatusesKept'
      BY <1>2, <1>3, <3>2, <3>5, WithStepKeeps, StepNames
         DEF PreparationStatusesKept, PreparedBoth
    <3>7. OhlcvCompletionBacked'
      BY <1>1, <1>2, <1>3, <3>2, <3>3, WithStepKeeps, OhlcvLasts, StepNames
    <3> QED BY <1>1, <2>2, <3>3, <3>4, <3>6, <3>7, RunLasts, LetGo
  <2>4. CASE call[w].phase = "unlocked"
    <3>1. PICK stored \in [need -> Payloads] :
            /\ raw' = Stored(need, stored)
            /\ blind' = blind \cup {s \in need : stored[s] # "nopayload"}
            /\ UNCHANGED prepared
      BY <1>10, <2>4 DEF PersistManaged
    <3>2. \A s \in Symbols : raw'[s] # raw[s] => s \in blind'
      BY <3>1, StoredLasts
    <3>3. RawLasts /\ LocksLast(w)
      BY <3>1, <3>2, StoredLasts DEF RawLasts, LocksLast
    <3>4. PreparationStatusesKept' /\ OhlcvCompletionBacked'
      BY <1>1, <3>1, <3>3, OhlcvLasts DEF IInv, PreparationStatusesKept, Exists
    <3> QED BY <1>1, <2>2, <3>3, <3>4, RunLasts, LetGo
  <2> QED BY <1>10, <2>3, <2>4 DEF PersistManaged
<1>11. CASE FinishOneShot(w)
  <2> DEFINE need == call[w].need
             sel  == call[w].uni.syms
  <2>1. PICK payload \in [need -> Payloads],
             rows \in Seen(need, call[w].rows, raw') :
          /\ raw' = Stored(need, payload)
          /\ blind' = blind \cup {s \in need : payload[s] # "nopayload"}
          /\ RowsComplete(rows, sel)
          /\ \/ /\ run'.sel = sel
                /\ run'.rows = [s \in Symbols |-> IF s \in sel
                                                  THEN rows[s] ELSE "none"]
             \/ run' = run
    <3>1. PICK payload \in [need -> Payloads], ctx \in {"bad", "fresh"} :
            /\ raw' = Stored(need, payload)
            /\ blind' = blind \cup {s \in need : payload[s] # "nopayload"}
            /\ \E rows \in Seen(need, call[w].rows, raw') :
                 /\ RowsComplete(rows, sel)
                 /\ \/ run' = [kind |-> "oneshot", sel |-> sel, ctx |-> ctx,
                               rows |-> [s \in Symbols |-> IF s \in sel
                                                 THEN rows[s] ELSE "none"]]
                    \/ UNCHANGED run
      BY <1>11 DEF FinishOneShot
    <3>2. PICK rows \in Seen(need, call[w].rows, raw') :
                 /\ RowsComplete(rows, sel)
                 /\ \/ run' = [kind |-> "oneshot", sel |-> sel, ctx |-> ctx,
                               rows |-> [s \in Symbols |-> IF s \in sel
                                                 THEN rows[s] ELSE "none"]]
                    \/ UNCHANGED run
      BY <3>1
    <3>3. \/ /\ run'.sel = sel
             /\ run'.rows = [s \in Symbols |-> IF s \in sel
                                               THEN rows[s] ELSE "none"]
          \/ run' = run
      BY <3>2
    <3> QED BY <3>1, <3>2, <3>3
  <2>2. Return(w) /\ prepared' = prepared
    BY <1>11 DEF FinishOneShot
  <2>3. \A s \in Symbols : raw'[s] # raw[s] => s \in blind'
    BY <2>1, StoredLasts
  <2>4. RawLasts /\ LocksLast(w)
    BY <2>1, <2>2, <2>3, StoredLasts DEF RawLasts, LocksLast
  <2>5. PreparationStatusesKept' /\ OhlcvCompletionBacked'
    BY <1>1, <2>2, <2>4, OhlcvLasts DEF IInv, PreparationStatusesKept, Exists
  <2>6. PublishedRowsUsable'
    <3>1. CASE run' = run
      BY <2>4, <3>1, RunLasts
    <3>2. CASE run' # run
      <4>1. sel \subseteq Symbols
        BY <1>2 DEF Calls, Universes
      <4>2. \A s \in Symbols : rows[s] = "current" =>
                                 raw'[s] = "current" \/ s \in blind'
        BY <1>2, <2>1, <2>4 DEF Seen, CallInv, RowsLast, RawLasts
      <4> QED BY <2>1, <3>2, <4>1, <4>2 DEF PublishedRowsUsable, RowsComplete
    <3> QED BY <3>1, <3>2
  <2> QED BY <1>1, <2>2, <2>4, <2>5, <2>6, LetGo
<1> QED BY <1>4, <1>5, <1>6, <1>7, <1>8, <1>9, <1>10, <1>11 DEF Commits

-----------------------------------------------------------------------------
(* The theorems *)

\* The invariant is inductive.
THEOREM Inductive == Spec => []IInv
<1>1. Init => IInv
  <2> SUFFICES ASSUME Init PROVE IInv
    OBVIOUS
  <2>1. \A w \in Workers : call[w] = Idle
    BY DEF Init
  <2>2. TypeOK
    BY NoRowType, IdleType, MaxCallsAssumption
       DEF Init, TypeOK, RawStates, Runs, NoRun, NoRows, Contexts
  <2>3. OneHolder /\ \A w \in Workers : CallInv(call[w])
    BY <2>1, IdleInv DEF OneHolder, Idle
  <2>4. /\ PreparationStatusesKept /\ OhlcvCompletionBacked
        /\ PublishedRowsUsable
    BY StepNames DEF Init, NoRow, NoEntry, NoRun, PreparationStatusesKept,
                     OhlcvCompletionBacked, PublishedRowsUsable, Exists
  <2> QED BY <2>2, <2>3, <2>4 DEF IInv
<1>2. IInv /\ [Next]_vars => IInv'
  <2> SUFFICES ASSUME IInv, [Next]_vars PROVE IInv'
    OBVIOUS
  <2>1. ASSUME NEW w \in Workers, Handle(w) PROVE IInv'
    BY <2>1, ReadStep, CommitStep DEF Handle, Reads, Commits
  <2>2. CASE UNCHANGED vars
    <3>1. TypeOK' /\ OneHolder'
      BY <2>2 DEF IInv, vars, TypeOK, OneHolder
    <3>2. PreparationStatusesKept' /\ OhlcvCompletionBacked' /\ PublishedRowsUsable'
      BY <2>2 DEF IInv, vars, PreparationStatusesKept, OhlcvCompletionBacked,
                  PublishedRowsUsable
    <3>3. \A w \in Workers : CallInv(call[w])'
      BY <2>2 DEF IInv, vars, CallInv, HolderCurrent, LoadedStatuses, Backed,
                  RowsLast, CheckedUsable
    <3> QED BY <3>1, <3>2, <3>3 DEF IInv
  <2> QED BY <2>1, <2>2 DEF Next, DayOver
<1> QED BY <1>1, <1>2, PTL DEF Spec

\* No stale status map loses the statuses of the preparation.
THEOREM StatusesKept == Spec => []PreparationStatusesKept
<1>1. IInv => PreparationStatusesKept
  BY DEF IInv
<1> QED BY <1>1, Inductive, PTL

\* No stale status map claims raw rows that are not there.
THEOREM CompletionBacked == Spec => []OhlcvCompletionBacked
<1>1. IInv => OhlcvCompletionBacked
  BY DEF IInv
<1> QED BY <1>1, Inductive, PTL

\* A public run scored usable rows, and they stay as good as they were.
THEOREM PublishedUsable == Spec => []PublishedRowsUsable
<1>1. IInv => PublishedRowsUsable
  BY DEF IInv
<1> QED BY <1>1, Inductive, PTL

\* Whoever commits while holding the lock changes only its own status (and
\* refresh-ohlcv the tracks of the universe).
LEMMA HolderKeeps ==
    ASSUME IInv, NEW w \in Workers, call[w].phase = "locked",
           NEW v \in Workers, Handle(v), prepared' # prepared
    PROVE  /\ prepared'.sel = prepared.sel /\ prepared'.ctx = prepared.ctx
           /\ \A s \in Steps \ {call[w].op} :
                prepared'.steps[s] = prepared.steps[s]
<1>1. ~LockFree /\ Exists(prepared)
  BY DEF LockFree, IInv, CallInv, HolderCurrent
<1>2. ~Reads(v)
  BY DEF Reads, BeginPrepare, BeginUnlockedStep, BeginMarketContext, BeginOhlcv,
         FetchOhlcv, LockOhlcv, BeginManaged, LockManaged, FailManaged,
         BeginScoring, CheckScoring, BeginOneShot, Abort, Begin
<1>3. PersistOhlcv(v) \/ PersistManaged(v) \/ RecordManagedFailure(v)
      \/ FinishPrepare(v)
  BY <1>1, <1>2
     DEF Handle, Reads, FinishUnlockedStep, FinishMarketContext, PublishScoring,
         FinishOneShot
<1>4. PersistOhlcv(v) \/ PersistManaged(v)
  BY <1>1, <1>3 DEF RecordManagedFailure, FinishPrepare
<1>5. call[v].phase = "locked"
  BY <1>4 DEF PersistOhlcv, PersistManaged
<1>6. v = w
  BY <1>5 DEF IInv, OneHolder
<1>7. /\ call[w].row \in PreparedRows /\ prepared \in PreparedRows
      /\ call[w].row.steps = prepared.steps
      /\ call[w].op \in Steps
  BY StepNames DEF IInv, TypeOK, Calls, CallInv, HolderCurrent
<1>8. \/ \E tracks, status :
           prepared' = [prepared EXCEPT
             !.uni.tracks = tracks,
             !.steps = WithStep(call[w].row, call[w].op, status)]
      \/ \E status :
           prepared' = [prepared EXCEPT
             !.steps = WithStep(call[w].row, call[w].op, status)]
  <2>1. CASE PersistOhlcv(w)
    BY <2>1 DEF PersistOhlcv
  <2>2. CASE PersistManaged(w)
    BY <1>5, <1>6, <2>2 DEF PersistManaged
  <2> QED BY <1>4, <1>6, <2>1, <2>2
<1>9. /\ prepared'.sel = prepared.sel /\ prepared'.ctx = prepared.ctx
      /\ \E status : prepared'.steps = WithStep(call[w].row, call[w].op, status)
  BY <1>7, <1>8 DEF PreparedRows
<1> QED BY <1>7, <1>9, WithStepKeeps

\* The row lock protects the other handlers from the one that holds it.
THEOREM LockedKeepOthers == Spec => LockedWritersKeepOthers
<1>1. IInv /\ [Next]_vars =>
        [\A w \in Workers :
           call[w].phase = "locked" /\ prepared' # prepared =>
             /\ prepared'.sel = prepared.sel /\ prepared'.ctx = prepared.ctx
             /\ \A s \in Steps \ {call[w].op} :
                  prepared'.steps[s] = prepared.steps[s]]_vars
  BY HolderKeeps DEF Next, DayOver, vars
<1> QED BY <1>1, Inductive, PTL DEF Spec, LockedWritersKeepOthers

\* A row is current, and stays so, unless a call without the lock stored it.
THEOREM CurrentKept == Spec => CurrentRowsKept
<1>1. IInv /\ [Next]_vars =>
        [\A s \in Symbols :
           raw[s] = "current" /\ raw'[s] # "current" => s \in blind']_vars
  <2>1. ASSUME IInv, NEW w \in Workers, Handle(w), NEW s \in Symbols,
               raw[s] = "current", raw'[s] # "current"
        PROVE  s \in blind'
    <3>1. ~Reads(w)
      BY <2>1
         DEF Reads, BeginPrepare, BeginUnlockedStep, BeginMarketContext,
             BeginOhlcv, FetchOhlcv, LockOhlcv, BeginManaged, LockManaged,
             FailManaged, BeginScoring, CheckScoring, BeginOneShot, Abort, Begin
    <3>2. PersistOhlcv(w) \/ PersistManaged(w) \/ FinishOneShot(w)
      BY <2>1, <3>1
         DEF Handle, Reads, FinishPrepare, FinishUnlockedStep, PublishScoring,
             FinishMarketContext, RecordManagedFailure
    <3>3. CASE call[w].phase = "locked" /\ ~FinishOneShot(w)
      <4>1. UNCHANGED blind
            /\ \E payload \in [call[w].need -> Payloads] :
                 raw' = Stored(call[w].need, payload)
        BY <3>2, <3>3 DEF PersistOhlcv, PersistManaged
      <4>2. s \in call[w].need
        BY <2>1, <4>1, StoredLasts
      <4> QED BY <2>1, <3>3, <4>1, <4>2 DEF IInv, CallInv, HolderCurrent
    <3>4. CASE call[w].phase # "locked" \/ FinishOneShot(w)
      <4>1. \E payload \in [call[w].need -> Payloads] :
              /\ raw' = Stored(call[w].need, payload)
              /\ blind' = blind \cup {x \in call[w].need :
                                        payload[x] # "nopayload"}
        BY <3>2, <3>4 DEF PersistOhlcv, PersistManaged, FinishOneShot
      <4> QED BY <2>1, <4>1, StoredLasts
    <3> QED BY <3>3, <3>4
  <2> QED BY <2>1 DEF Next, DayOver, vars
<1> QED BY <1>1, Inductive, PTL DEF Spec, CurrentRowsKept

-----------------------------------------------------------------------------
(* One request after another.  With a single worker no row a handler loaded  *)
(* can be stale, so what it writes back agrees with what the row holds and   *)
(* the gate of run-scoring is worth what it says.  (With overlapping calls   *)
(* it is not: that is what run RadarStaleStatus shows.)                      *)

OneWorker == \A v, w \in Workers : v = w

\* The columns of the prepared row a handler loaded are those the row still
\* has, and a scoring call has passed the gate on them.
LoadedIsCurrent(c) ==
    /\ c.op = UniverseStep => c.row = Loaded({"sel", "uni", "ctx"})
    /\ c.op \in UnlockedSteps => c.row = Loaded({"sel", "steps"})
    /\ c.op = MarketStep => c.row = Loaded({"sel", "ctx", "steps"})
    /\ c.op = OhlcvStep /\ c.phase = "locked"
         => c.row = Loaded({"sel", "uni", "steps"})
    /\ c.op = ManagedStep /\ c.phase \in {"locked", "failing"}
         => c.row = Loaded({"sel", "steps"})
    /\ c.op = "run-scoring" =>
         /\ c.row = Loaded({"sel", "ctx", "steps"})
         /\ StepsCompleted(c.row)

CallsAreCurrent == \A w \in Workers : LoadedIsCurrent(call[w])

SerialInv == TypeOK /\ PreparedRowCoherent /\ PublishedContextFresh /\ CallsAreCurrent

-----------------------------------------------------------------------------
(* Lemmas *)

\* The operations of a call are told apart by their names.
LEMMA OpsDiffer ==
    /\ UnlockedSteps \cap {ArchiveStep, UniverseStep, OhlcvStep, MarketStep,
                           ManagedStep, "idle", "run-scoring", "run"} = {}
    /\ {ArchiveStep, OhlcvStep, MarketStep} \subseteq Required
    /\ Required \subseteq Steps /\ UniverseStep \notin Required
BY StepNamesAssumption
   DEF UnlockedSteps, OwnSteps, Required, Steps, ArchiveStep, UniverseStep,
       OhlcvStep, MarketStep, ManagedStep

\* A worker that serves nothing has loaded nothing.
LEMMA IdleIsCurrent == LoadedIsCurrent(Idle)
BY OpsDiffer
   DEF LoadedIsCurrent, Idle, UniverseStep, OhlcvStep, MarketStep, ManagedStep

\* Once the only call has returned no loaded row is left to be stale.
LEMMA Returned ==
    ASSUME TypeOK, OneWorker, NEW w \in Workers, Return(w)
    PROVE  CallsAreCurrent'
<1>1. \A v \in Workers : call'[v] = Idle
  BY DEF TypeOK, OneWorker, Return
<1>2. LoadedIsCurrent(Idle)'
  BY OpsDiffer
     DEF LoadedIsCurrent, Idle, UniverseStep, OhlcvStep, MarketStep, ManagedStep
<1> QED BY <1>1, <1>2 DEF CallsAreCurrent

\* A handler that only loads leaves the columns of the row in agreement.
LEMMA RowStays ==
    ASSUME SerialInv, UNCHANGED <<prepared, run>>
    PROVE  PreparedRowCoherent' /\ PublishedContextFresh'
BY DEF SerialInv, PreparedRowCoherent, StepsReadSelection, SelectionIsUniverse,
       ContextStatusAgrees, PublishedContextFresh

\* A call that loaded the row as it is has loaded it as it stays.
LEMMA Loads ==
    ASSUME TypeOK, OneWorker, UNCHANGED prepared, NEW w \in Workers, NEW c,
           LoadedIsCurrent(c), call' = [call EXCEPT ![w] = c]
    PROVE  CallsAreCurrent'
<1>1. \A v \in Workers : call'[v] = c
  BY DEF TypeOK, OneWorker
<1>2. \A columns : Loaded(columns)' = Loaded(columns)
  BY DEF Loaded
<1>3. LoadedIsCurrent(c)'
  BY <1>2 DEF LoadedIsCurrent
<1> QED BY <1>1, <1>3 DEF CallsAreCurrent

\* A handler that writes the status map of the row it loaded changes its own
\* entry, which then names the symbols the row selects.
LEMMA Writes ==
    ASSUME prepared \in PreparedRows, StepsReadSelection, NEW row \in PreparedRows,
           row.sel = prepared.sel, row.steps = prepared.steps,
           NEW step \in Steps, NEW status,
           prepared'.sel = prepared.sel,
           prepared'.steps = WithStep(row, step, status)
    PROVE  /\ \A s \in Steps \ {step} : prepared'.steps[s] = prepared.steps[s]
           /\ prepared'.steps[step] = Entry(status, prepared.sel)
           /\ StepsReadSelection'
<1>1. /\ \A s \in Steps \ {step} : prepared'.steps[s] = prepared.steps[s]
      /\ prepared'.steps[step] = Entry(status, prepared.sel)
  BY DEF WithStep, PreparedRows
<1>2. StepsReadSelection'
  BY <1>1, OpsDiffer DEF StepsReadSelection, Entry
<1> QED BY <1>1, <1>2

\* A new call has loaded the row as it is.
LEMMA BeginStep ==
    ASSUME SerialInv, OneWorker, NEW w \in Workers,
           \/ BeginPrepare(w) \/ BeginUnlockedStep(w) \/ BeginMarketContext(w)
           \/ BeginOhlcv(w) \/ BeginManaged(w) \/ BeginScoring(w)
           \/ BeginOneShot(w)
    PROVE  PreparedRowCoherent' /\ PublishedContextFresh' /\ CallsAreCurrent'
<1> USE OpsDiffer
<1>1. ASSUME NEW c, Begin(w, c), LoadedIsCurrent(c)
      PROVE  PreparedRowCoherent' /\ PublishedContextFresh' /\ CallsAreCurrent'
  BY <1>1, RowStays, Loads DEF Begin, SerialInv
<1>2. CASE BeginPrepare(w)
  <2>1. PICK sel : Begin(w, [Idle EXCEPT
            !.op  = UniverseStep,
            !.row = Loaded({"sel", "uni", "ctx"}),
            !.uni = [syms |-> sel, tracks |-> sel \ NotCurrent(sel)]])
    BY <1>2 DEF BeginPrepare
  <2>2. LoadedIsCurrent([Idle EXCEPT
            !.op  = UniverseStep,
            !.row = Loaded({"sel", "uni", "ctx"}),
            !.uni = [syms |-> sel, tracks |-> sel \ NotCurrent(sel)]])
    BY DEF LoadedIsCurrent, Idle, UniverseStep, OhlcvStep, MarketStep, ManagedStep
  <2> QED BY <1>1, <2>1, <2>2
<1>3. CASE BeginUnlockedStep(w)
  <2>1. PICK step \in UnlockedSteps :
          Begin(w, [Idle EXCEPT !.op = step, !.row = Loaded({"sel", "steps"})])
    BY <1>3 DEF BeginUnlockedStep
  <2>2. LoadedIsCurrent([Idle EXCEPT !.op = step, !.row = Loaded({"sel", "steps"})])
    BY DEF LoadedIsCurrent, Idle
  <2> QED BY <1>1, <2>1, <2>2
<1>4. CASE BeginMarketContext(w)
  <2>1. LoadedIsCurrent([Idle EXCEPT !.op  = MarketStep,
                            !.row = Loaded({"sel", "ctx", "steps"})])
    BY DEF LoadedIsCurrent, Idle, UniverseStep, OhlcvStep, MarketStep, ManagedStep
  <2> QED BY <1>1, <1>4, <2>1 DEF BeginMarketContext
<1>5. CASE BeginOhlcv(w)
  <2>1. LoadedIsCurrent([Idle EXCEPT !.op = OhlcvStep, !.row = Loaded({"sel", "uni"})])
    BY DEF LoadedIsCurrent, Idle, UniverseStep, OhlcvStep, MarketStep, ManagedStep
  <2> QED BY <1>1, <1>5, <2>1 DEF BeginOhlcv
<1>6. CASE BeginManaged(w)
  <2>1. LoadedIsCurrent([Idle EXCEPT !.op = ManagedStep, !.need = NotCurrent(Managed)])
    BY DEF LoadedIsCurrent, Idle, UniverseStep, OhlcvStep, MarketStep, ManagedStep
  <2> QED BY <1>1, <1>6, <2>1 DEF BeginManaged
<1>7. CASE BeginScoring(w)
  <2>1. StepsCompleted(Loaded({"sel", "ctx", "steps"}))
    BY <1>7 DEF BeginScoring, StepsCompleted, Loaded
  <2>2. LoadedIsCurrent([Idle EXCEPT !.op  = "run-scoring",
                            !.row = Loaded({"sel", "ctx", "steps"})])
    BY <2>1 DEF LoadedIsCurrent, Idle, UniverseStep, OhlcvStep, MarketStep, ManagedStep
  <2> QED BY <1>1, <1>7, <2>2 DEF BeginScoring
<1>8. CASE BeginOneShot(w)
  <2>1. PICK sel : Begin(w, [Idle EXCEPT
         !.op   = "run",
         !.need = NotCurrent(sel),
         !.uni  = [syms |-> sel, tracks |-> sel \ NotCurrent(sel)],
         !.rows = raw])
    BY <1>8 DEF BeginOneShot
  <2>2. LoadedIsCurrent([Idle EXCEPT
         !.op   = "run",
         !.need = NotCurrent(sel),
         !.uni  = [syms |-> sel, tracks |-> sel \ NotCurrent(sel)],
         !.rows = raw])
    BY DEF LoadedIsCurrent, Idle, UniverseStep, OhlcvStep, MarketStep, ManagedStep
  <2> QED BY <1>1, <2>1, <2>2
<1> QED BY <1>2, <1>3, <1>4, <1>5, <1>6, <1>7, <1>8

\* A call that goes on loads the row again, or keeps what it has.
LEMMA GoOnStep ==
    ASSUME SerialInv, OneWorker, NEW w \in Workers,
           \/ FetchOhlcv(w) \/ LockOhlcv(w) \/ LockManaged(w)
           \/ FailManaged(w) \/ CheckScoring(w) \/ Abort(w)
    PROVE  PreparedRowCoherent' /\ PublishedContextFresh' /\ CallsAreCurrent'
<1> USE OpsDiffer
<1>1. UNCHANGED <<prepared, run>>
  BY DEF FetchOhlcv, LockOhlcv, LockManaged, FailManaged, CheckScoring, Abort
<1>2. TypeOK /\ call[w] \in Calls /\ LoadedIsCurrent(call[w])
  BY DEF SerialInv, TypeOK, CallsAreCurrent
<1>3. CASE Return(w)
  BY <1>1, <1>2, <1>3, RowStays, Returned
<1>4. ASSUME NEW c, call' = [call EXCEPT ![w] = c], LoadedIsCurrent(c)
      PROVE  CallsAreCurrent'
  BY <1>1, <1>2, <1>4, Loads
<1>5. CASE FetchOhlcv(w)
  <2>1. LoadedIsCurrent([call[w] EXCEPT !.phase = "fetched",
                                        !.need = NotCurrent(call[w].row.sel)])
    BY <1>2, <1>5
       DEF FetchOhlcv, LoadedIsCurrent, Calls, UniverseStep, OhlcvStep,
           MarketStep, ManagedStep
  <2> QED BY <1>1, <1>2, <1>5, <2>1, <1>4, RowStays DEF FetchOhlcv, TypeOK
<1>6. CASE LockOhlcv(w) /\ ~Return(w)
  <2>1. LoadedIsCurrent([call[w] EXCEPT !.phase = "locked",
                            !.row   = Loaded({"sel", "uni", "steps"}),
                            !.need  = StillMissing(call[w].need),
                            !.rows  = raw])
    BY <1>2, <1>6
       DEF LockOhlcv, LoadedIsCurrent, Calls, UniverseStep, OhlcvStep,
           MarketStep, ManagedStep
  <2> QED BY <1>1, <1>2, <1>6, <2>1, <1>4, RowStays DEF LockOhlcv, TypeOK
<1>7. CASE LockManaged(w)
  <2>1. PICK phase \in {"locked", "unlocked"} :
          call' = [call EXCEPT ![w] = [call[w] EXCEPT
                            !.phase = phase,
                            !.row   = Loaded({"sel", "steps"}),
                            !.need  = StillMissing(call[w].need),
                            !.rows  = raw]]
    BY <1>2, <1>7 DEF LockManaged, TypeOK
  <2>2. LoadedIsCurrent([call[w] EXCEPT
                            !.phase = phase,
                            !.row   = Loaded({"sel", "steps"}),
                            !.need  = StillMissing(call[w].need),
                            !.rows  = raw])
    BY <1>2, <1>7
       DEF LockManaged, LoadedIsCurrent, Calls, UniverseStep, OhlcvStep,
           MarketStep, ManagedStep
  <2> QED BY <1>1, <2>1, <2>2, <1>4, RowStays
<1>8. CASE FailManaged(w)
  <2>1. LoadedIsCurrent([call[w] EXCEPT !.phase = "failing",
                                        !.row = Loaded({"sel", "steps"})])
    BY <1>2, <1>8
       DEF FailManaged, LoadedIsCurrent, Calls, UniverseStep, OhlcvStep,
           MarketStep, ManagedStep
  <2> QED BY <1>1, <1>2, <1>8, <2>1, <1>4, RowStays DEF FailManaged, TypeOK
<1>9. CASE CheckScoring(w)
  <2>1. PICK rows : call' = [call EXCEPT ![w] = [call[w] EXCEPT
                                        !.phase = "checked", !.rows = rows]]
    BY <1>2, <1>9 DEF CheckScoring, TypeOK
  <2>2. LoadedIsCurrent([call[w] EXCEPT !.phase = "checked", !.rows = rows])
    BY <1>2, <1>9
       DEF CheckScoring, LoadedIsCurrent, Calls, UniverseStep, OhlcvStep,
           MarketStep, ManagedStep
  <2> QED BY <1>1, <2>1, <2>2, <1>4, RowStays
<1> QED BY <1>3, <1>5, <1>6, <1>7, <1>8, <1>9 DEF Abort

\* A status changes only in the step of its own handler, or in a preparation.
OwnEntry(w) ==
    \A s \in Steps : prepared'.steps[s] # prepared.steps[s]
        => call[w].op \in {s, UniverseStep} /\ call'[w] = Idle

\* A preparation starts the row anew.
LEMMA PrepareStep ==
    ASSUME SerialInv, OneWorker, NEW w \in Workers, FinishPrepare(w)
    PROVE  PreparedRowCoherent' /\ PublishedContextFresh' /\ CallsAreCurrent'
           /\ OwnEntry(w)
<1> DEFINE c == call[w]
<1>1. TypeOK /\ c \in Calls /\ prepared \in PreparedRows /\ c.uni \in Universes
  BY DEF SerialInv, TypeOK, Calls
<1>2. c.op = UniverseStep /\ c.row = Loaded({"sel", "uni", "ctx"}) /\ Return(w)
      /\ UNCHANGED run
  BY DEF SerialInv, CallsAreCurrent, LoadedIsCurrent, FinishPrepare
<1>3. CallsAreCurrent' /\ PublishedContextFresh' /\ call'[w] = Idle
  BY <1>1, <1>2, Returned DEF SerialInv, PublishedContextFresh, Return, TypeOK
<1>4. CASE UNCHANGED prepared
  BY <1>2, <1>3, <1>4, RowStays DEF OwnEntry
<1>5. CASE prepared' = [sel |-> c.uni.syms, uni |-> c.uni, ctx |-> "none",
                        steps |-> PreparedSteps(c.uni.syms)]
  <2> HIDE DEF c
  <2>1. StepsReadSelection'
    BY <1>5, OpsDiffer
       DEF StepsReadSelection, PreparedSteps, Entry, NoEntry, ArchiveStep, UniverseStep
  <2>2. ContextStatusAgrees'
    BY <1>5, OpsDiffer
       DEF ContextStatusAgrees, PreparedSteps, NoEntry, ArchiveStep, UniverseStep,
           MarketStep
  <2> QED BY <1>2, <1>3, <1>5, <2>1, <2>2
          DEF PreparedRowCoherent, SelectionIsUniverse, OwnEntry, c
<1>6. CASE \E sel \in Column(prepared.sel, c.row.sel, c.uni.syms),
                uni \in Column(prepared.uni, c.row.uni, c.uni) :
               prepared' =
                 [sel |-> sel, uni |-> uni,
                  ctx |-> IF c.row.ctx = "none" THEN prepared.ctx ELSE "none",
                  steps |-> PreparedSteps(c.uni.syms)]
  <2>1. /\ c.row.sel = prepared.sel /\ c.row.uni = prepared.uni
        /\ c.row.ctx = prepared.ctx
    BY <1>2 DEF Loaded
  <2> QED BY <1>5, <1>6, <2>1 DEF Column
<1> QED BY <1>4, <1>5, <1>6 DEF FinishPrepare

\* A handler that writes over the row it loaded writes over the row as it is.
LEMMA SerialCommit ==
    ASSUME SerialInv, OneWorker, NEW w \in Workers,
           \/ FinishUnlockedStep(w) \/ FinishMarketContext(w)
           \/ PersistOhlcv(w) \/ PersistManaged(w) \/ RecordManagedFailure(w)
    PROVE  PreparedRowCoherent' /\ PublishedContextFresh' /\ CallsAreCurrent'
           /\ OwnEntry(w)
<1> USE OpsDiffer, StepNames
<1> DEFINE c == call[w]
<1>1. /\ TypeOK /\ c \in Calls /\ prepared \in PreparedRows
      /\ c.row \in PreparedRows /\ LoadedIsCurrent(c)
      /\ PreparedRowCoherent /\ PublishedContextFresh
  BY DEF SerialInv, TypeOK, Calls, CallsAreCurrent
<1>2. Return(w) /\ UNCHANGED run
  BY DEF FinishUnlockedStep, FinishMarketContext, PersistOhlcv, PersistManaged,
         RecordManagedFailure
<1>3. CallsAreCurrent' /\ PublishedContextFresh' /\ call'[w] = Idle
  BY <1>1, <1>2, Returned DEF PublishedContextFresh, Return, TypeOK
<1> HIDE DEF c
<1>4. ASSUME NEW step \in Steps, NEW status, step = c.op,
             c.row.sel = prepared.sel, c.row.steps = prepared.steps,
             prepared'.sel = prepared.sel,
             prepared'.steps = WithStep(c.row, step, status)
      PROVE  /\ StepsReadSelection' /\ OwnEntry(w)
             /\ \A s \in Steps \ {step} : prepared'.steps[s] = prepared.steps[s]
             /\ prepared'.steps[step] = Entry(status, prepared.sel)
  BY <1>1, <1>3, <1>4, Writes DEF OwnEntry, PreparedRowCoherent, c
<1>5. ASSUME UNCHANGED prepared
      PROVE  PreparedRowCoherent' /\ OwnEntry(w)
  BY <1>2, <1>5, RowStays DEF OwnEntry
<1>6. ASSUME NEW step \in Steps \ {MarketStep}, NEW status, step = c.op,
             c.row.sel = prepared.sel, c.row.steps = prepared.steps,
             prepared'.sel = prepared.sel,
             prepared'.uni.syms = prepared.uni.syms, prepared'.ctx = prepared.ctx,
             prepared'.steps = WithStep(c.row, step, status)
      PROVE  PreparedRowCoherent' /\ OwnEntry(w)
  <2>1. /\ StepsReadSelection' /\ OwnEntry(w)
        /\ prepared'.steps[MarketStep] = prepared.steps[MarketStep]
    BY <1>4, <1>6
  <2> QED BY <1>1, <1>6, <2>1
          DEF PreparedRowCoherent, SelectionIsUniverse, ContextStatusAgrees
<1>7. CASE FinishUnlockedStep(w)
  <2>1. PICK status : prepared' = [prepared EXCEPT !.steps = WithStep(c.row, c.op, status)]
    BY <1>7 DEF FinishUnlockedStep, c
  <2>2. c.op \in UnlockedSteps /\ c.row.sel = prepared.sel
        /\ c.row.steps = prepared.steps
    BY <1>1, <1>7 DEF FinishUnlockedStep, LoadedIsCurrent, Loaded, c
  <2>3. /\ prepared'.sel = prepared.sel /\ prepared'.uni = prepared.uni
        /\ prepared'.ctx = prepared.ctx
        /\ prepared'.steps = WithStep(c.row, c.op, status)
    BY <1>1, <2>1 DEF PreparedRows
  <2> QED BY <1>3, <1>6, <2>2, <2>3
<1>8. CASE PersistOhlcv(w)
  <2>1. c.op = OhlcvStep /\ c.row.sel = prepared.sel /\ c.row.steps = prepared.steps
        /\ OhlcvStep # MarketStep
    <3>1. c.op = OhlcvStep /\ c.phase = "locked"
      BY <1>8 DEF PersistOhlcv, c
    <3>2. c.row = Loaded({"sel", "uni", "steps"})
      BY <1>1, <3>1 DEF LoadedIsCurrent
    <3> QED BY <3>1, <3>2 DEF Loaded, OhlcvStep, MarketStep
  <2>2. PICK tracks, status :
          prepared' = [prepared EXCEPT
                   !.uni.tracks = tracks,
                   !.steps = WithStep(c.row, OhlcvStep, status)]
    BY <1>8 DEF PersistOhlcv, c
  <2>3. /\ prepared'.sel = prepared.sel /\ prepared'.uni.syms = prepared.uni.syms
        /\ prepared'.ctx = prepared.ctx
        /\ prepared'.steps = WithStep(c.row, OhlcvStep, status)
    BY <1>1, <2>2 DEF PreparedRows, Universes
  <2> QED BY <1>3, <1>6, <2>1, <2>3
<1>9. CASE PersistManaged(w) /\ c.phase = "locked"
  <2>1. c.op = ManagedStep /\ c.row.sel = prepared.sel /\ c.row.steps = prepared.steps
        /\ ManagedStep # MarketStep
    BY <1>1, <1>9
       DEF PersistManaged, LoadedIsCurrent, Loaded, c, ManagedStep, MarketStep
  <2>2. PICK status :
          prepared' = [prepared EXCEPT
                   !.steps = WithStep(c.row, ManagedStep, status)]
    BY <1>9 DEF PersistManaged, c
  <2>3. /\ prepared'.sel = prepared.sel /\ prepared'.uni = prepared.uni
        /\ prepared'.ctx = prepared.ctx
        /\ prepared'.steps = WithStep(c.row, ManagedStep, status)
    BY <1>1, <2>2 DEF PreparedRows
  <2> QED BY <1>3, <1>6, <2>1, <2>3
<1>10. CASE PersistManaged(w) /\ c.phase # "locked"
  BY <1>3, <1>5, <1>10 DEF PersistManaged, c
<1>11. CASE RecordManagedFailure(w)
  <2>1. c.op = ManagedStep /\ c.row.sel = prepared.sel /\ c.row.steps = prepared.steps
        /\ ManagedStep # MarketStep
    BY <1>1, <1>11
       DEF RecordManagedFailure, LoadedIsCurrent, Loaded, c, ManagedStep, MarketStep
  <2>2. CASE UNCHANGED prepared
    BY <1>3, <1>5, <2>2
  <2>3. CASE prepared' = [prepared EXCEPT
                            !.steps = WithStep(c.row, ManagedStep, "failed")]
    <3>1. /\ prepared'.sel = prepared.sel /\ prepared'.uni = prepared.uni
          /\ prepared'.ctx = prepared.ctx
          /\ prepared'.steps = WithStep(c.row, ManagedStep, "failed")
      BY <1>1, <2>3 DEF PreparedRows
    <3> QED BY <1>3, <1>6, <2>1, <3>1
  <2> QED BY <1>11, <2>2, <2>3 DEF RecordManagedFailure, c
<1>12. CASE FinishMarketContext(w)
  <2>1. /\ c.op = MarketStep /\ c.row.sel = prepared.sel
        /\ c.row.steps = prepared.steps /\ c.row.ctx = prepared.ctx
    <3>1. c.op = MarketStep
      BY <1>12 DEF FinishMarketContext, c
    <3>2. c.row = Loaded({"sel", "ctx", "steps"})
      BY <1>1, <3>1 DEF LoadedIsCurrent
    <3> QED BY <3>1, <3>2 DEF Loaded
  <2>2. PICK ctx, status :
          /\ prepared' = [prepared EXCEPT
               !.ctx   = ctx,
               !.steps = WithStep(c.row, MarketStep, status)]
          /\ \/ ctx = "fresh" /\ status = "completed"
             \/ ctx = "bad" /\ status = "failed"
    <3>1. \/ \E ctx \in Column(prepared.ctx, c.row.ctx, "fresh") :
               prepared' = [prepared EXCEPT
                 !.ctx   = ctx,
                 !.steps = WithStep(c.row, MarketStep, "completed")]
          \/ /\ c.row.ctx = "fresh"
             /\ prepared' = [prepared EXCEPT
                  !.steps = WithStep(c.row, MarketStep, "completed")]
          \/ \E ctx \in Column(prepared.ctx, c.row.ctx, "bad") :
                  prepared' = [prepared EXCEPT
                    !.ctx   = ctx,
                    !.steps = WithStep(c.row, MarketStep, "failed")]
      BY <1>12 DEF FinishMarketContext, Reusable, c
    <3>2. CASE /\ c.row.ctx = "fresh"
               /\ prepared' = [prepared EXCEPT
                    !.steps = WithStep(c.row, MarketStep, "completed")]
      <4>1. prepared' = [prepared EXCEPT
               !.ctx   = "fresh",
               !.steps = WithStep(c.row, MarketStep, "completed")]
        BY <1>1, <2>1, <3>2 DEF PreparedRows
      <4> WITNESS "fresh", "completed"
      <4> QED BY <4>1
    <3>3. CASE \E ctx \in Column(prepared.ctx, c.row.ctx, "fresh") :
                 prepared' = [prepared EXCEPT
                   !.ctx   = ctx,
                   !.steps = WithStep(c.row, MarketStep, "completed")]
      <4>1. PICK ctx \in Column(prepared.ctx, c.row.ctx, "fresh") :
                 prepared' = [prepared EXCEPT
                   !.ctx   = ctx,
                   !.steps = WithStep(c.row, MarketStep, "completed")]
        BY <3>3
      <4>2. ctx = "fresh"
        BY <2>1, <4>1 DEF Column
      <4> WITNESS "fresh", "completed"
      <4> QED BY <4>1, <4>2
    <3>4. CASE \E ctx \in Column(prepared.ctx, c.row.ctx, "bad") :
                 prepared' = [prepared EXCEPT
                   !.ctx   = ctx,
                   !.steps = WithStep(c.row, MarketStep, "failed")]
      <4>1. PICK ctx \in Column(prepared.ctx, c.row.ctx, "bad") :
                 prepared' = [prepared EXCEPT
                   !.ctx   = ctx,
                   !.steps = WithStep(c.row, MarketStep, "failed")]
        BY <3>4
      <4>2. ctx = "bad"
        BY <2>1, <4>1 DEF Column
      <4> WITNESS "bad", "failed"
      <4> QED BY <4>1, <4>2
    <3> QED BY <3>1, <3>2, <3>3, <3>4
  <2>3. /\ prepared'.sel = prepared.sel /\ prepared'.uni = prepared.uni
        /\ prepared'.ctx = ctx
        /\ prepared'.steps = WithStep(c.row, MarketStep, status)
    BY <1>1, <2>2 DEF PreparedRows
  <2>4. /\ StepsReadSelection' /\ OwnEntry(w)
        /\ prepared'.steps[MarketStep] = Entry(status, prepared.sel)
    BY <1>4, <2>1, <2>3
  <2>5. ContextStatusAgrees'
    BY <2>2, <2>3, <2>4 DEF ContextStatusAgrees, Entry
  <2> QED BY <1>1, <1>3, <2>3, <2>4, <2>5
          DEF PreparedRowCoherent, SelectionIsUniverse
<1> QED BY <1>7, <1>8, <1>9, <1>10, <1>11, <1>12

\* A staged run is published with the context its gate was passed on.
LEMMA PublishStep ==
    ASSUME SerialInv, OneWorker, NEW w \in Workers,
           PublishScoring(w) \/ FinishOneShot(w)
    PROVE  PreparedRowCoherent' /\ PublishedContextFresh' /\ CallsAreCurrent'
           /\ UNCHANGED prepared
<1>1. UNCHANGED prepared /\ Return(w)
  BY DEF PublishScoring, FinishOneShot
<1>2. PreparedRowCoherent' /\ CallsAreCurrent'
  BY <1>1, Returned
     DEF SerialInv, PreparedRowCoherent, StepsReadSelection, SelectionIsUniverse,
         ContextStatusAgrees
<1>3. PublishedContextFresh'
  <2>1. CASE FinishOneShot(w)
    <3>1. run'.kind = "oneshot" \/ UNCHANGED run
      BY <2>1 DEF FinishOneShot
    <3> QED BY <3>1 DEF SerialInv, PublishedContextFresh
  <2>2. CASE PublishScoring(w)
    <3>1. /\ call[w].row = Loaded({"sel", "ctx", "steps"})
          /\ StepsCompleted(call[w].row)
      BY <2>2 DEF PublishScoring, SerialInv, CallsAreCurrent, LoadedIsCurrent
    <3>2. call[w].row.ctx = prepared.ctx /\ call[w].row.steps = prepared.steps
      BY <3>1 DEF Loaded
    <3>3. call[w].row.ctx = "fresh"
      BY <3>1, <3>2, OpsDiffer
         DEF StepsCompleted, SerialInv, PreparedRowCoherent, ContextStatusAgrees
    <3>4. run'.ctx = call[w].row.ctx \/ UNCHANGED run
      BY <2>2 DEF PublishScoring
    <3> QED BY <3>3, <3>4 DEF SerialInv, PublishedContextFresh
  <2> QED BY <2>1, <2>2
<1> QED BY <1>1, <1>2, <1>3

\* Every step of the only worker keeps the columns in agreement, and writes no
\* status but that of its own handler.
LEMMA HandleStep ==
    ASSUME SerialInv, OneWorker, NEW w \in Workers, Handle(w)
    PROVE  PreparedRowCoherent' /\ PublishedContextFresh' /\ CallsAreCurrent'
           /\ OwnEntry(w)
<1>1. CASE \/ BeginPrepare(w) \/ BeginUnlockedStep(w) \/ BeginMarketContext(w)
           \/ BeginOhlcv(w) \/ BeginManaged(w) \/ BeginScoring(w)
           \/ BeginOneShot(w)
  <2>1. UNCHANGED prepared
    BY <1>1 DEF BeginPrepare, BeginUnlockedStep, BeginMarketContext, BeginOhlcv,
                BeginManaged, BeginScoring, BeginOneShot, Begin
  <2> QED BY <1>1, <2>1, BeginStep DEF OwnEntry
<1>2. CASE \/ FetchOhlcv(w) \/ LockOhlcv(w) \/ LockManaged(w)
           \/ FailManaged(w) \/ CheckScoring(w) \/ Abort(w)
  <2>1. UNCHANGED prepared
    BY <1>2 DEF FetchOhlcv, LockOhlcv, LockManaged, FailManaged, CheckScoring, Abort
  <2> QED BY <1>2, <2>1, GoOnStep DEF OwnEntry
<1>3. CASE PublishScoring(w) \/ FinishOneShot(w)
  BY <1>3, PublishStep DEF OwnEntry
<1> QED BY <1>1, <1>2, <1>3, PrepareStep, SerialCommit DEF Handle

-----------------------------------------------------------------------------
(* The theorems *)

\* With one call after another the invariant is inductive.
THEOREM SerialInductive ==
    ASSUME OneWorker PROVE Spec => []SerialInv
<1>1. Init => PreparedRowCoherent /\ PublishedContextFresh /\ CallsAreCurrent
  BY OpsDiffer, IdleIsCurrent
     DEF Init, NoRow, NoRun, NoEntry, NoUniverse, PreparedRowCoherent,
         StepsReadSelection, SelectionIsUniverse, ContextStatusAgrees,
         PublishedContextFresh, CallsAreCurrent
<1>2. SerialInv /\ TypeOK' /\ [Next]_vars => SerialInv'
  <2> SUFFICES ASSUME SerialInv, TypeOK', [Next]_vars PROVE SerialInv'
    OBVIOUS
  <2>1. ASSUME NEW w \in Workers, Handle(w) PROVE SerialInv'
    BY <2>1, HandleStep DEF SerialInv
  <2>2. CASE UNCHANGED vars
    <3>1. PreparedRowCoherent' /\ PublishedContextFresh'
      BY <2>2, RowStays DEF vars
    <3>2. \A columns : Loaded(columns)' = Loaded(columns)
      BY <2>2 DEF Loaded, vars
    <3>3. CallsAreCurrent'
      BY <2>2, <3>2 DEF SerialInv, CallsAreCurrent, LoadedIsCurrent, vars
    <3> QED BY <3>1, <3>3 DEF SerialInv
  <2> QED BY <2>1, <2>2 DEF Next, DayOver
<1> QED BY <1>1, <1>2, TypeCorrect, PTL DEF Spec, SerialInv

\* One call after another, the columns of the prepared row agree: its steps
\* with its selection, its selection with its universe, and its context with
\* the status recorded for it.
THEOREM RowCoherent ==
    ASSUME OneWorker PROVE Spec => []PreparedRowCoherent
<1>1. SerialInv => PreparedRowCoherent
  BY DEF SerialInv
<1> QED BY <1>1, SerialInductive, PTL

\* One call after another, a scoring call past its gate scores the symbols
\* every required step worked on.
THEOREM ScoringReadsSelection ==
    ASSUME OneWorker PROVE Spec => []ScoringStepsReadSelection
<1>1. SerialInv => ScoringStepsReadSelection
  <2> SUFFICES ASSUME SerialInv, NEW w \in Workers, call[w].op = "run-scoring",
                      NEW s \in Required
               PROVE  call[w].row.steps[s] = Entry("completed", call[w].row.sel)
    BY DEF ScoringStepsReadSelection
  <2>1. /\ call[w].row = Loaded({"sel", "ctx", "steps"})
        /\ StepsCompleted(call[w].row)
    BY DEF SerialInv, CallsAreCurrent, LoadedIsCurrent
  <2>2. call[w].row.sel = prepared.sel /\ call[w].row.steps = prepared.steps
    BY <2>1 DEF Loaded
  <2>3. prepared.steps[s].status = "completed" /\ prepared.steps[s].sel = prepared.sel
    BY <2>1, <2>2 DEF StepsCompleted, SerialInv, PreparedRowCoherent, StepsReadSelection
  <2>4. prepared.steps[s] \in Entries
    BY OpsDiffer DEF SerialInv, TypeOK, PreparedRows
  <2> QED BY <2>2, <2>3, <2>4 DEF Entries, Entry
<1> QED BY <1>1, SerialInductive, PTL

\* One call after another, a staged run was scored with a market context that
\* passed its check.
THEOREM ContextFresh ==
    ASSUME OneWorker PROVE Spec => []PublishedContextFresh
<1>1. SerialInv => PublishedContextFresh
  BY DEF SerialInv
<1> QED BY <1>1, SerialInductive, PTL

\* One call after another, a step's status changes only when that step, or a
\* new preparation, commits.
THEOREM OwnStatus ==
    ASSUME OneWorker PROVE Spec => OwnStatusOnly
<1>1. SerialInv /\ [Next]_vars =>
        [\A s \in Steps : prepared'.steps[s] # prepared.steps[s]
           => \E w \in Workers : /\ call[w].op \in {s, UniverseStep}
                                 /\ call'[w] = Idle]_vars
  BY HandleStep DEF Next, DayOver, vars, OwnEntry
<1> QED BY <1>1, SerialInductive, PTL DEF Spec, OwnStatusOnly

=============================================================================
