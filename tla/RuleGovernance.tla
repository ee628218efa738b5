--------------------------- MODULE RuleGovernance ---------------------------
(***************************************************************************)
(* The monthly rule review of the Daily Radar (daily_radar/                *)
(* rule_governance.py and calibration/governance.py): which months of      *)
(* forward-validation results are complete enough to learn from, how the   *)
(* rankings of those months are replayed with a rule group removed or a    *)
(* parameter moved, and what the report then recommends.                   *)
(*                                                                         *)
(* A review runs four queries in one session, and nothing stops a rerun of *)
(* the radar or a forward-validation call from committing in between.      *)
(***************************************************************************)
EXTENDS Integers, Sequences, FiniteSets, FiniteSetsExt

CONSTANTS
    Symbols,      \* the stocks a run may select
    Horizons,     \* the forward windows (5, 10, 20 sessions)
    Dates,        \* the run dates, natural numbers
    MonthOf,      \* the month of each date
    CohortSize,   \* months a cohort needs: the last one is the holdout
    Cutoff,       \* ranks that count as selected (the top 20)
    MinSamples,   \* independent samples a window needs
    MinBlocks,    \* dates with a selected sample, <<training, holdout>>
    MinCoverage,  \* percent of candidates validated, and replayable
    MaxCandidates,\* candidates the replay workload admits
    MaxGroup,     \* candidates of one date the replay admits
    ExcessSlack, DownsideSlack,  \* what a holdout horizon may lose
    Bucket,       \* the primary bucket of each symbol
    Score,        \* the score each variant of the configuration gives a symbol
    Pools,        \* the candidate sets a run may store
    Verdicts,     \* the results a validation call may store for a run
    MaxRuns       \* public runs of each date (bound)

Statuses == {"none", "validated", "skipped"}
Variants == DOMAIN Score \ {"baseline", "ablated"}
Months == {MonthOf[d] : d \in Dates}

\* Checked by the module that gives these constants their values.
DatesAssumption == Dates \subseteq Nat /\ MonthOf \in [Dates -> Nat]
ScoreAssumption == {"baseline", "ablated"} \subseteq DOMAIN Score
LimitsAssumption ==
    /\ IsFiniteSet(Symbols) /\ CohortSize \in Nat \ {0} /\ Cutoff \in Nat
    /\ MinSamples \in Nat \ {0}
StoredAssumption ==
    \A verdicts \in Verdicts, p \in Symbols \X Horizons : verdicts[p].status \in Statuses
RulesAssumption == DatesAssumption /\ ScoreAssumption /\ LimitsAssumption /\ StoredAssumption

VARIABLES
    runs,     \* per date: the candidates of its public runs, oldest first
    outcomes, \* per date and run: the stored result of a symbol and window
    review,   \* the review under way: its phase and what it has read
    report    \* the report of the call that just ended, if one did
rulesVars == <<runs, outcomes, review, report>>

-----------------------------------------------------------------------------
(* Data *)
Absent == [absent |-> TRUE]
NoOutcome == [status |-> "none"]
NoReport == [pool |-> "none"]
Latest(d) == Len(runs[d])
CandidatesOf(d) ==
    IF runs[d] = <<>> THEN {}
    ELSE {s \in Symbols : runs[d][Latest(d)][s] # Absent}
Stored(d, s, w) == outcomes[d][Latest(d)][<<s, w>>]

\* A result of another signal day or benchmark is as good as none.
RowStatus(d, s, w) ==
    LET r == Stored(d, s, w) IN
    IF r = NoOutcome \/ r.identity # "valid" THEN "missing" ELSE r.status

\* Rows of the latest public run of each date, whatever their results.
Rows(dates) == {row \in dates \X Symbols \X Horizons : row[2] \in CandidatesOf(row[1])}
DatesOf(months) == {d \in Dates : MonthOf[d] \in months}

-----------------------------------------------------------------------------
(* Completeness of a month *)
Selected(m) == {x \in DatesOf({m}) \X Symbols : x[2] \in CandidatesOf(x[1])}
IsValidated(d, s, w) == RowStatus(d, s, w) = "validated"

\* Mutant: a month is mature as soon as one window of it is.
MatureInAnyWindow(m) ==
    /\ Selected(m) # {}
    /\ \E w \in Horizons : \A x \in Selected(m) : RowStatus(x[1], x[2], w) # "missing"
Mature(m) ==
    /\ Selected(m) # {}
    /\ \A w \in Horizons, x \in Selected(m) : RowStatus(x[1], x[2], w) # "missing"
\* validated_coverage: n of so many are enough; their share is rounded to four
\* decimals first.
IsCoverage(n, of) == of > 0 /\ 20000 * n >= (200 * MinCoverage - 1) * of
Covered(m) ==
    \A w \in Horizons :
        IsCoverage(Cardinality({x \in Selected(m) : IsValidated(x[1], x[2], w)}), Cardinality(Selected(m)))

\* The last CohortSize mature months up to the reviewed one.
Cohort(m) ==
    LET mature == {n \in {k \in Months : k <= m} : Mature(n)}
    IN  {n \in mature : Cardinality({k \in mature : k > n}) < CohortSize}
Training(cohort) == IF Cardinality(cohort) = CohortSize
                    THEN cohort \ {Max(cohort)} ELSE {}
Holdout(cohort) == IF Cardinality(cohort) = CohortSize
                   THEN {Max(cohort)} ELSE {}

-----------------------------------------------------------------------------
(* The replay *)
\* The frozen input is whole, and names the benchmark of the stored result.
Replayable(d, s, w) ==
    /\ runs[d][Latest(d)][s].complete
    /\ Stored(d, s, w) # NoOutcome
    /\ Stored(d, s, w).identity # "benchmark"

\* The baseline replay gives the score, buckets and labels the run stored.
Reproduces(d, s) == runs[d][Latest(d)][s].reproduces

Eligible(dates) ==
    {row \in Rows(dates) : /\ Replayable(row[1], row[2], row[3])
                           /\ Reproduces(row[1], row[2])}
Samples(rows) == {<<row[1], row[2]>> : row \in rows}

PoolStatus(exceeded, dates) ==
    CASE exceeded -> "capacity_exceeded"
      [] ~exceeded /\ Rows(dates) = {} -> "not_applicable"
      [] OTHER -> IF \E d \in dates : Cardinality(CandidatesOf(d)) > MaxGroup
                  THEN "capacity_exceeded"
                  ELSE IF Eligible(dates) = Rows(dates) THEN "complete" ELSE "incomplete"

ReplayCovered(dates, months) ==
    LET Enough(ds) == IsCoverage(Cardinality(Samples(Eligible(ds))), Cardinality(Samples(Rows(ds))))
    IN  months # {} /\ Enough(dates) /\ \A m \in months : Enough(DatesOf({m}))

\* Ties go to the smaller symbol, as in the code's sort key.
Before(variant, s, t) ==
    \/ Score[variant][s] > Score[variant][t]
    \/ Score[variant][s] = Score[variant][t] /\ s < t

\* Mutant: the ranks are dealt among the rows that have an outcome.
TopOfValidated(variant, rows) ==
    LET seen == {row \in rows : IsValidated(row[1], row[2], row[3])} IN
    {row \in seen :
        Cardinality({other \in seen : /\ <<other[1], other[3]>> = <<row[1], row[3]>>
                                      /\ Before(variant, other[2], row[2])}) < Cutoff}
\* The top of each date and window, dealt before the outcomes are looked at.
Top(variant, rows) ==
    {row \in rows :
        /\ IsValidated(row[1], row[2], row[3])
        /\ Cardinality({other \in rows : /\ <<other[1], other[3]>> = <<row[1], row[3]>>
                                         /\ Before(variant, other[2], row[2])}) < Cutoff}

InWindow(rows, w) == {row \in rows : row[3] = w}
Total(rows, field) ==
    MapThenSumSet(LAMBDA row : Stored(row[1], row[2], row[3])[field], rows)
\* The average of `after` exceeds that of `before` by at least `least`.
GainsAtLeast(before, after, field, least) ==
    LET nb == Cardinality(before)
        na == Cardinality(after)
    IN  /\ nb > 0 /\ na > 0
        /\ Total(after, field) * nb - Total(before, field) * na >= least * na * nb
Gains(before, after, field) ==
    GainsAtLeast(before, after, field, 0) /\ ~GainsAtLeast(after, before, field, 0)

\* What the replay without a rule group says of one window.
Compare(before, after) ==
    IF Cardinality(before) < MinSamples \/ Cardinality(after) < MinSamples
    THEN "insufficient_sample"
    ELSE IF Gains(before, after, "excess") THEN "review_group_removal" ELSE "keep_group"

\* Mutant: an incomplete pool is compared all the same.
AblationOfAnyPool(pool, before, after) ==
    CASE pool = "not_applicable" -> "not_applicable_no_cohort"
      [] pool = "capacity_exceeded" -> "replay_workload_limit_exceeded"
      [] OTHER -> Compare(before, after)
Ablation(pool, before, after) ==
    CASE pool = "not_applicable" -> "not_applicable_no_cohort"
      [] pool = "capacity_exceeded" -> "replay_workload_limit_exceeded"
      [] pool = "incomplete" -> "replay_ranking_pool_incomplete"
      [] OTHER -> Compare(before, after)

\* The same within the cohort of one baseline bucket.
BucketAblation(pool, before, after, bucket) ==
    LET Anchored(top) == {row \in top : Bucket[row[2]] = bucket} IN
    IF pool = "complete" THEN Compare(Anchored(before), Anchored(after)) ELSE "none"

-----------------------------------------------------------------------------
(* The gates of a candidate configuration *)
Blocks(rows) == {row[1] : row \in rows}
InMonths(rows, months) == {row \in rows : MonthOf[row[1]] \in months}

EnoughSamples(before, after, cohort) ==
    \A rows \in {before, after}, months \in {Training(cohort), Holdout(cohort)},
       w \in Horizons :
        Cardinality(InWindow(InMonths(rows, months), w)) >= MinSamples
EnoughBlocks(before, after, cohort) ==
    \A rows \in {before, after} :
        /\ Cardinality(Blocks(InMonths(rows, Training(cohort)))) >= MinBlocks[1]
        /\ Cardinality(Blocks(InMonths(rows, Holdout(cohort)))) >= MinBlocks[2]

\* The lower end of the bootstrap interval is a choice: it is positive or not
\* whatever the sign of the average, and there is none without a sample.
TrainingGains(before, after, cohort, lower) ==
    /\ lower
    /\ Gains(InMonths(before, Training(cohort)), InMonths(after, Training(cohort)), "excess")

\* Mutant: the holdout is compared over all windows together.
HorizonsPooled(before, after, cohort) ==
    LET B == InMonths(before, Holdout(cohort))
        A == InMonths(after, Holdout(cohort))
    IN  /\ GainsAtLeast(B, A, "excess", -ExcessSlack)
        /\ GainsAtLeast(B, A, "downside", -DownsideSlack)
HorizonsKept(before, after, cohort) ==
    \A w \in Horizons :
        LET B == InWindow(InMonths(before, Holdout(cohort)), w)
            A == InWindow(InMonths(after, Holdout(cohort)), w)
        IN  /\ GainsAtLeast(B, A, "excess", -ExcessSlack)
            /\ GainsAtLeast(B, A, "downside", -DownsideSlack)

\* The gates in the order the reason names them.
Gates(read, pool, before, after, lower) ==
    <<Cardinality(read.cohort) = CohortSize,
      pool # "capacity_exceeded",
      read.covered,
      ReplayCovered(DatesOf(read.cohort), read.cohort),
      pool = "complete",
      EnoughSamples(before, after, read.cohort),
      EnoughBlocks(before, after, read.cohort),
      TrainingGains(before, after, read.cohort, lower),
      HorizonsKept(before, after, read.cohort)>>
GateReasons == <<"insufficient_mature_months", "replay_workload_limit_exceeded",
                 "validated_coverage_below_threshold", "replay_coverage_below_threshold",
                 "replay_ranking_pool_incomplete", "insufficient_independent_samples",
                 "insufficient_date_blocks", "training_bootstrap_not_positive",
                 "holdout_horizon_degraded", "eligible">>
\* Mutant: the cascade forgets the sample gate.
ReasonWithoutSamples(gates) ==
    GateReasons[Min({i \in 1..Len(gates) : i # 6 /\ ~gates[i]} \cup {Len(GateReasons)})]
Reason(gates) ==
    GateReasons[Min({i \in 1..Len(gates) : ~gates[i]} \cup {Len(GateReasons)})]

\* A parameter at its bound cannot be stepped: the configuration is the same.
Stepped(variant) == Score[variant] # Score["baseline"]

-----------------------------------------------------------------------------
(* Actions *)
RulesInit ==
    /\ runs = [d \in Dates |-> <<>>]
    /\ outcomes = [d \in Dates |-> <<>>]
    /\ review = [phase |-> "idle"]
    /\ report = NoReport

\* A public run of the date is committed; its candidates have no results yet.
SaveRun(d) ==
    \E pool \in Pools :
        /\ Latest(d) < MaxRuns[d]
        /\ runs' = [runs EXCEPT ![d] = Append(@, pool)]
        /\ outcomes' = [outcomes EXCEPT ![d] = Append(@, [p \in Symbols \X Horizons |-> NoOutcome])]
        /\ report' = NoReport
        /\ UNCHANGED review

\* Mutant: a result is stored for a symbol the run did not select.
StoreForAll(d) ==
    \E verdicts \in Verdicts :
        LET i == Latest(d)
            stored == [p \in Symbols \X Horizons |->
                IF verdicts[p] = NoOutcome
                THEN outcomes[d][i][p] ELSE verdicts[p]]
        IN  /\ i > 0
            /\ outcomes[d][i] # stored
            /\ \A p \in Symbols \X Horizons :
                  outcomes[d][i][p].status \in {"none", "skipped"} \/ outcomes[d][i][p] = stored[p]
            /\ outcomes' = [outcomes EXCEPT ![d][i] = stored]
            /\ report' = NoReport
            /\ UNCHANGED <<runs, review>>
\* A forward-validation call commits results of the latest run (older runs of
\* the date are validated too, but no review reads them): a validated result
\* is for good, a skip until it is validated.
StoreResults(d) ==
    \E verdicts \in Verdicts :
        LET i == Latest(d)
            stored == [p \in Symbols \X Horizons |->
                IF runs[d][i][p[1]] = Absent \/ verdicts[p] = NoOutcome
                THEN outcomes[d][i][p] ELSE verdicts[p]]
        IN  /\ i > 0
            /\ outcomes[d][i] # stored
            /\ \A p \in Symbols \X Horizons :
                  outcomes[d][i][p].status \in {"none", "skipped"} \/ outcomes[d][i][p] = stored[p]
            /\ outcomes' = [outcomes EXCEPT ![d][i] = stored]
            /\ report' = NoReport
            /\ UNCHANGED <<runs, review>>

\* The endpoint is called for a month: its watermarks are read.
ReadWatermarks(m) ==
    /\ review.phase = "idle"
    /\ \E cohort \in {Cohort(m)} :
         review' = [phase |-> "preflight", cohort |-> cohort,
                    covered |-> cohort # {} /\ \A n \in cohort : Covered(n)]
    /\ report' = NoReport
    /\ UNCHANGED <<runs, outcomes>>

\* The candidates of the cohort are counted before any row is loaded.
Preflight ==
    /\ review.phase = "preflight"
    /\ LET n == Cardinality(Samples(Rows(DatesOf(review.cohort))))
       IN  review' = [phase |-> "load", cohort |-> review.cohort, covered |-> review.covered,
                      exceeded |-> n > MaxCandidates]
    /\ UNCHANGED <<runs, outcomes, report>>

\* The rows are loaded and replayed, and the report is written.
WriteReport(variant) ==
    /\ review.phase = "load"
    /\ LET dates == DatesOf(review.cohort)
           pool == PoolStatus(review.exceeded, dates)
           rows == IF pool = "capacity_exceeded" THEN {} ELSE Eligible(dates)
       IN  \E before \in {Top("baseline", rows)}, without \in {Top("ablated", rows)},
               after \in {Top(variant, rows)}, lower \in BOOLEAN :
            LET gates == Gates(review, pool, before, after, lower) IN
            report' = [pool |-> pool, variant |-> variant,
                       ablation |-> [w \in Horizons |-> Ablation(pool, InWindow(before, w), InWindow(without, w))],
                       buckets |-> [p \in Horizons \X {Bucket[s] : s \in Symbols} |->
                           BucketAblation(pool, InWindow(before, p[1]), InWindow(without, p[1]), p[2])],
                       counted |-> [v \in {"baseline", variant} |->
                                        IF v = "baseline" THEN before ELSE after],
                       eligible |-> (\A i \in 1..Len(gates) : gates[i]) /\ Stepped(variant),
                       reason |-> Reason(gates)]
    /\ review' = [phase |-> "idle"]
    /\ UNCHANGED <<runs, outcomes>>

RulesNext ==
    \/ \E d \in Dates : SaveRun(d) \/ StoreResults(d)
    \/ \E m \in Months : ReadWatermarks(m)
    \/ Preflight
    \/ \E variant \in Variants : WriteReport(variant)
RulesSpec == RulesInit /\ [][RulesNext]_rulesVars

-----------------------------------------------------------------------------
(* Properties *)
\* Every run has its results, and a review has read what its phase needs.
RulesTypeOK ==
    /\ \A d \in Dates : Len(outcomes[d]) = Len(runs[d])
    /\ \A d \in Dates : \A i \in 1..Len(runs[d]), p \in Symbols \X Horizons :
            /\ outcomes[d][i][p].status \in Statuses
            /\ runs[d][i][p[1]] = Absent => outcomes[d][i][p] = NoOutcome
    /\ review.phase # "idle" =>
         review.cohort \subseteq Months /\ Cardinality(review.cohort) <= CohortSize

\* The reason cascade of _scoring_candidate_report is a second evaluation of
\* the gates: a report is eligible exactly when its reason says so.
ReasonTellsEligible ==
    report # NoReport => (report.eligible <=> report.reason = "eligible")

Written == report' # NoReport /\ report' # report

\* Removing a rule group is judged only on a full pool: whatever committed
\* since the watermarks were read, every candidate of the latest run of each
\* date of the cohort is replayed, with its result, and gives its own score.
JudgedOnFullPool ==
    [][Written /\ (\E w \in Horizons : report'.ablation[w] \in {"review_group_removal", "keep_group"})
        => \A d \in DatesOf(review.cohort), s \in Symbols :
              s \in CandidatesOf(d) =>
                /\ runs[d][Latest(d)][s].complete /\ runs[d][Latest(d)][s].reproduces
                /\ \A w \in Horizons : Stored(d, s, w) # NoOutcome]_rulesVars

\* No backfill: on a full pool a candidate's outcome counts only when the
\* candidate is in the top of its date before any outcome is joined.
CountedByRankAlone ==
    [][Written /\ report'.pool = "complete" =>
        \A variant \in {"baseline", report'.variant} : \A row \in report'.counted[variant] :
            Cardinality({t \in CandidatesOf(row[1]) : Before(variant, t, row[2])}) < Cutoff]_rulesVars

\* A configuration is proposed only when no horizon of the holdout month
\* gets worse, and both months have validated outcomes on either side.
NoHorizonGivenUp ==
    [][Written /\ report'.eligible =>
        LET rows == Eligible(DatesOf(review.cohort)) IN
        \A w \in Horizons : \E m \in review.cohort :
            /\ \A n \in review.cohort : n <= m
            /\ \A v \in {"baseline", report'.variant} : \E row \in Top(v, rows) :
                  row[3] = w /\ MonthOf[row[1]] = m
            /\ \A v \in {"baseline", report'.variant} : \E row \in Top(v, rows) :
                  row[3] = w /\ MonthOf[row[1]] < m
            /\ GainsAtLeast(InWindow(InMonths(Top("baseline", rows), {m}), w),
                            InWindow(InMonths(Top(report'.variant, rows), {m}), w),
                            "excess", -ExcessSlack)]_rulesVars

\* A month enters the cohort only when every selected candidate of the latest
\* run of each of its dates has a result of its own day and benchmark in every
\* window: a rerun takes the month out until it is validated again.
CohortFullyEvaluated ==
    [][review.phase = "idle" /\ review'.phase = "preflight" =>
        \A d \in DatesOf(review'.cohort), s \in Symbols, w \in Horizons :
            Latest(d) > 0 /\ runs[d][Latest(d)][s] # Absent =>
                outcomes[d][Latest(d)][<<s, w>>] # NoOutcome
                /\ outcomes[d][Latest(d)][<<s, w>>].identity = "valid"]_rulesVars

\* The months, the pools and the ranks a report rests on are whole.
EvidenceIsWhole == []RulesTypeOK /\ CohortFullyEvaluated /\ JudgedOnFullPool /\ CountedByRankAlone

\* What the report proposes passed every gate, and no horizon pays for it.
ProposalsAreSafe == []ReasonTellsEligible /\ NoHorizonGivenUp

RulesReportIsSound == EvidenceIsWhole /\ ProposalsAreSafe
=============================================================================
