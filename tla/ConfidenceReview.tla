-------------------------- MODULE ConfidenceReview --------------------------
(***************************************************************************)
(* The confidence track of the monthly review (analysis/calibration.py and *)
(* analysis/confidence_scorer.py): final analyses leave one sample per day *)
(* and stock, forward-validation calls score the samples, and a review     *)
(* replays the samples of whole months under a moved parameter and says    *)
(* whether the move may be proposed.                                       *)
(*                                                                         *)
(* A review reads its watermarks, its samples and its results in separate  *)
(* queries; captures and validation calls commit in between.               *)
(***************************************************************************)
EXTENDS Integers, Sequences, FiniteSets, FiniteSetsExt

CONSTANTS
    Symbols,     \* the stocks analysed
    Windows,     \* the forward windows, in sessions
    LastDay,     \* the sessions are 1..LastDay (bound)
    MonthOf,     \* the month of each session
    CohortSize,  \* months a cohort needs: the last one is the holdout
    MinSamples,  \* independent samples a window needs
    MinBlocks,   \* dates with a sample, <<training, holdout>>
    MinCoverage, \* percent of samples validated, and replayable
    MaxScorings, \* scoring calls a review may make
    MaxTraining, \* training rows the bootstrap may scan
    Unit, Slack, \* a correlation counts Units; a holdout window may lose Slack
    Baseline,    \* the confidence configuration in force
    Tunable,     \* the parameters a review may move
    Days,        \* what each day's analyses may capture: a sample or none per stock
    Verdicts     \* what a validation call may find for each day: per stock and window

ASSUME CohortAssumption == CohortSize \in Nat \ {0} /\ MinCoverage \in 0..100
ASSUME DaysAssumption == LastDay \in Nat \ {0} /\ Windows \subseteq Nat /\ MonthOf \in [1..LastDay -> Nat]
ASSUME BaselineAssumption == \A p \in Tunable : Baseline[p] \in Nat
ASSUME UnitAssumption == Unit \in 1..100 /\ Slack \in 0..Unit
\* A validation call always finds something to store.
ASSUME VerdictsAssumption ==
    \A d \in 1..LastDay : \A verdict \in Verdicts[d] :
        \A p \in Symbols \X Windows : verdict[p].status \in {"validated", "retryable", "terminal"}

VARIABLES
    today,    \* the session under way
    samples,  \* per date and stock: the calibration sample, if captured
    results,  \* per date, stock and window: the stored result
    review,   \* the review under way: its phase and what it has read
    report    \* the candidate report just written, if one was
vars == <<today, samples, results, review, report>>

-----------------------------------------------------------------------------
(* Data *)
Dates == 1..LastDay
Months == {MonthOf[d] : d \in Dates}
Absent == [absent |-> TRUE]
NoResult == [status |-> "none"]
NotDue == [status |-> "retryable"]
NoReport == [written |-> FALSE]
Held(all) == {x \in Dates \X Symbols : all[x[1]][x[2]] # Absent}
OfMonths(all, months) == {x \in Held(all) : MonthOf[x[1]] \in months}

Clamp(n) == Min({100, Max({0, n})})
\* compute_confidence: the points of each label, the two joint cases, and the
\* penalty of an unknown date. The penalty comes after the clamp.
Confidence(in, c) ==
    LET news == CASE in.news = "positive" -> c.positive_sentiment_points
                  [] in.news = "negative" -> c.negative_sentiment_points
                  [] OTHER -> 0
        flow == CASE in.flow = "institutional_accumulation" -> c.institutional_accumulation_points
                  [] in.flow = "distribution" -> c.distribution_penalty
                  [] in.flow = "retail_chasing" -> c.retail_chasing_penalty
                  [] OTHER -> 0
        tech == CASE in.tech = "bullish" -> c.bullish_technical_points
                  [] in.tech = "bearish" -> c.bearish_technical_penalty
                  [] OTHER -> 0
        joint == CASE in.news = "positive" /\ in.flow = "institutional_accumulation"
                        /\ in.tech = "bullish" -> c.three_resonance_bonus
                   [] in.news = "positive" /\ in.flow = "distribution" ->
                        c.bullish_distribution_penalty
                   [] OTHER -> 0
        score == Clamp(in.base + news + flow + tech + joint)
    IN  IF in.date_unknown THEN Clamp(score + c.date_unknown_penalty) ELSE score

\* A parameter moves by one and stops at zero.
Moved(p, step) == [Baseline EXCEPT ![p] = Max({0, @ + step})]

-----------------------------------------------------------------------------
(* Completeness of a month *)
\* Mutant: a month is mature as soon as one window of it is.
MatureInAnyWindow(m) ==
    LET expected == OfMonths(samples, {m}) IN
    expected # {} /\ \E w \in Windows : \A x \in expected : results[x[1]][<<x[2], w>>] # NoResult
\* Every sample has a result, of any status, in every window.
Mature(m) ==
    LET expected == OfMonths(samples, {m}) IN
    expected # {} /\ \A w \in Windows, x \in expected : results[x[1]][<<x[2], w>>] # NoResult
Validated(x, w) == results[x[1]][<<x[2], w>>].status = "validated"
\* validated_coverage: n of so many are enough; their share is rounded to four
\* decimals first.
IsCoverage(n, of) == of > 0 /\ 20000 * n >= (200 * MinCoverage - 1) * of
Covered(m) ==
    LET expected == OfMonths(samples, {m}) IN
    \A w \in Windows : IsCoverage(Cardinality({x \in expected : Validated(x, w)}), Cardinality(expected))
\* The last CohortSize mature months up to the reviewed one.
Cohort(m) ==
    LET mature == {n \in Months : n <= m /\ Mature(n)} IN
    {n \in mature : Cardinality({k \in mature : k > n}) < CohortSize}
Training(cohort) == IF Cardinality(cohort) = CohortSize THEN cohort \ {Max(cohort)} ELSE {}
Holdout(cohort) == IF Cardinality(cohort) = CohortSize THEN {Max(cohort)} ELSE {}

-----------------------------------------------------------------------------
(* The rows of a review: <<date, stock, window>> *)
Rows(read) == {row \in Dates \X Symbols \X Windows :
                  MonthOf[row[1]] \in read.cohort /\ Validated(<<row[1], row[2]>>, row[3])}
Sample(read, row) == read.samples[row[1]][row[2]]
\* Only swing strategies are tuned, and only samples the review has read.
InScope(read) == {row \in Rows(read) : /\ Sample(read, row) # Absent
                                       /\ Sample(read, row).strategy \in {"short_term", "mid_term"}}
Complete(read) == {row \in InScope(read) : Sample(read, row).complete}
SamplesOf(rows) == {<<row[1], row[2]>> : row \in rows}
InMonths(rows, months) == {row \in rows : MonthOf[row[1]] \in months}
InWindow(rows, w) == {row \in rows : row[3] = w}

Exceeded(read) ==
    \/ Cardinality(SamplesOf(Complete(read))) * (1 + 2 * Cardinality(Tunable)) > MaxScorings
    \/ Cardinality(InMonths(Complete(read), Training(read.cohort))) > MaxTraining

\* The baseline replay of the frozen input gives the score the analysis stored.
Reproduces(sample) == sample.score = Confidence(sample.input, Baseline)
Mismatches(read) == {row \in Complete(read) : ~Reproduces(Sample(read, row))}
Eligible(read) == Complete(read) \ Mismatches(read)

ReplayCovered(read) ==
    LET Enough(months) == IsCoverage(Cardinality(SamplesOf(InMonths(Eligible(read), months))),
                                     Cardinality(SamplesOf(InMonths(InScope(read), months))))
    IN  read.cohort # {} /\ Enough(read.cohort) /\ \A m \in read.cohort : Enough({m})

-----------------------------------------------------------------------------
(* The correlation of score and excess return *)
None == -1000
\* The largest k up to Unit with k * k * d <= n, for d > 0.
Root(n, d) == Cardinality({k \in 1..Unit : k * k * d <= n})
\* Pearson's coefficient in Units, cut towards zero; None below two pairs or
\* without spread.
Coefficient(n, cov, vx, vy) ==
    IF n < 2 \/ vx = 0 \/ vy = 0 THEN None
    ELSE LET k == Root(Unit * Unit * cov * cov, vx * vy) IN IF cov < 0 THEN -k ELSE k
SumOf(f) == MapThenSumSet(LAMBDA r : f[r], DOMAIN f)
Cross(x, y) ==
    Cardinality(DOMAIN x) * SumOf([r \in DOMAIN x |-> x[r] * y[r]]) - SumOf(x) * SumOf(y)
\* The coefficient of two functions on the same rows.
Pearson(x, y) == Coefficient(Cardinality(DOMAIN x), Cross(x, y), Cross(x, x), Cross(y, y))
Correlation(read, rows, config) ==
    Pearson([row \in rows |-> Confidence(Sample(read, row).input, config)],
            [row \in rows |-> results[row[1]][<<row[2], row[3]>>].excess])

\* What the move gains on some rows, None if either side has no correlation.
Delta(read, rows, config) ==
    LET before == Correlation(read, rows, Baseline)
        after == Correlation(read, rows, config)
    IN  IF before = None \/ after = None THEN None ELSE after - before

-----------------------------------------------------------------------------
(* The gates *)
EnoughSamples(read, rows) ==
    \A months \in {Training(read.cohort), Holdout(read.cohort)}, w \in Windows :
        Cardinality(SamplesOf(InWindow(InMonths(rows, months), w))) >= MinSamples
Blocks(rows) == {row[1] : row \in rows}
EnoughBlocks(read, rows) ==
    /\ Cardinality(Blocks(InMonths(rows, Training(read.cohort)))) >= MinBlocks[1]
    /\ Cardinality(Blocks(InMonths(rows, Holdout(read.cohort)))) >= MinBlocks[2]

\* Mutant: a move that changes nothing counts as a gain.
TrainingDoesNotLose(read, rows, config, lower) ==
    lower /\ Delta(read, InMonths(rows, Training(read.cohort)), config) >= 0
\* The lower end of the bootstrap interval is a choice: whether it is above
\* zero does not follow from the sign of the whole.
TrainingGains(read, rows, config, lower) ==
    lower /\ Delta(read, InMonths(rows, Training(read.cohort)), config) > 0

\* Mutant: the holdout is compared over all its windows together.
HorizonsPooled(read, rows, config) ==
    Delta(read, InMonths(rows, Holdout(read.cohort)), config) >= -Slack
HorizonsKept(read, rows, config) ==
    \A w \in Windows :
        Delta(read, InWindow(InMonths(rows, Holdout(read.cohort)), w), config) >= -Slack

\* Mutant: a sample that does not replay to its score is only left out.
GatesWithoutReplay(read, config, lower) ==
    LET exceeded == Exceeded(read)
        rows == IF exceeded THEN {} ELSE Eligible(read)
    IN  <<Cardinality(read.cohort) = CohortSize, ~exceeded, TRUE, read.covered,
          ReplayCovered(read), EnoughSamples(read, rows), EnoughBlocks(read, rows),
          TrainingGains(read, rows, config, lower), HorizonsKept(read, rows, config)>>
\* The gates in the order the reason names them.
Gates(read, config, lower) ==
    LET exceeded == Exceeded(read)
        rows == IF exceeded THEN {} ELSE Eligible(read)
    IN  <<Cardinality(read.cohort) = CohortSize, ~exceeded,
          ~exceeded /\ Mismatches(read) = {}, read.covered,
          ReplayCovered(read), EnoughSamples(read, rows), EnoughBlocks(read, rows),
          TrainingGains(read, rows, config, lower), HorizonsKept(read, rows, config)>>
Reasons == <<"insufficient_mature_months", "replay_workload_limit_exceeded",
             "baseline_replay_mismatch", "validated_coverage_below_threshold",
             "replay_coverage_below_threshold", "insufficient_independent_samples",
             "insufficient_date_blocks", "training_bootstrap_not_positive",
             "holdout_horizon_degraded", "eligible">>
\* Mutant: the cascade forgets the holdout gate.
ReasonWithoutHoldout(gates) ==
    Reasons[Min({i \in 1..Len(gates) : i # 9 /\ ~gates[i]} \cup {Len(Reasons)})]
Reason(gates) == Reasons[Min({i \in 1..Len(gates) : ~gates[i]} \cup {Len(Reasons)})]

-----------------------------------------------------------------------------
(* Actions *)
Init ==
    /\ today = 1
    /\ samples = [d \in Dates |-> [s \in Symbols |-> Absent]]
    /\ results = [d \in Dates |-> [p \in Symbols \X Windows |-> NoResult]]
    /\ review = [phase |-> "idle"]
    /\ report = NoReport

NextDay ==
    /\ today < LastDay
    /\ today' = today + 1
    /\ report' = NoReport
    /\ UNCHANGED <<samples, results, review>>

\* Final analyses of the day leave samples; a stock that has one keeps it.
Capture ==
    \E day \in Days[today] :
        /\ samples[today] # [s \in Symbols |->
                IF samples[today][s] # Absent THEN samples[today][s] ELSE day[s]]
        /\ samples' = [samples EXCEPT ![today] =
                [s \in Symbols |-> IF @[s] # Absent THEN @[s] ELSE day[s]]]
        /\ report' = NoReport
        /\ UNCHANGED <<today, results, review>>

Settled(r) == r.status \in {"validated", "terminal"}
Store(d, verdict, evaluated) ==
    results' = [results EXCEPT ![d] = [p \in Symbols \X Windows |->
        IF evaluated[p] THEN verdict[p] ELSE @[p]]]

\* A due call evaluates the elapsed windows that are not settled.
ValidateDue(d) ==
    \E verdict \in Verdicts[d] :
        LET due == [p \in Symbols \X Windows |->
                       /\ samples[d][p[1]] # Absent
                       /\ d + p[2] <= today
                       /\ ~Settled(results[d][p])]
        IN  /\ \E p \in Symbols \X Windows : due[p] /\ results[d][p] # verdict[p]
            /\ Store(d, verdict, due)
            /\ report' = NoReport
            /\ UNCHANGED <<today, samples, review>>

\* Mutant: the range call evaluates stocks without a sample.
ValidateAll(d) ==
    \E verdict \in Verdicts[d] :
        LET found == [p \in Symbols \X Windows |-> IF d + p[2] <= today THEN verdict[p] ELSE NotDue]
        IN  /\ d < today
            /\ Store(d, found, [p \in Symbols \X Windows |-> TRUE])
            /\ report' = NoReport
            /\ UNCHANGED <<today, samples, review>>
\* A range call evaluates every window again: one that has not elapsed is a
\* skip to retry, and an old result is overwritten.
ValidateRange(d) ==
    \E verdict \in Verdicts[d] :
        LET held == [p \in Symbols \X Windows |-> samples[d][p[1]] # Absent]
            found == [p \in Symbols \X Windows |-> IF d + p[2] <= today THEN verdict[p] ELSE NotDue]
        IN  /\ d < today
            /\ \E p \in Symbols \X Windows : held[p] /\ results[d][p] # found[p]
            /\ Store(d, found, held)
            /\ report' = NoReport
            /\ UNCHANGED <<today, samples, review>>

\* The review of the months up to m starts: it counts the results of each month.
ReadWatermarks(m) ==
    /\ review.phase = "idle"
    /\ \E cohort \in {Cohort(m)} :
         review' = [phase |-> "samples", day |-> today, cohort |-> cohort,
                    covered |-> cohort # {} /\ \A n \in cohort : Covered(n)]
    /\ report' = NoReport
    /\ UNCHANGED <<today, samples, results>>

ReadSamples ==
    /\ review.phase = "samples"
    /\ review' = [phase |-> "rows", day |-> review.day, cohort |-> review.cohort,
                  covered |-> review.covered, samples |-> samples]
    /\ UNCHANGED <<today, samples, results, report>>

\* The results are read, the rows replayed, and each move is judged; one of
\* the moves is kept in `report`.
WriteReport(p, step) ==
    /\ review.phase = "rows"
    /\ \E lower \in BOOLEAN : \E gates \in {Gates(review, Moved(p, step), lower)} :
         report' = [written |-> TRUE, param |-> p, step |-> step,
                    eligible |-> (\A i \in 1..Len(gates) : gates[i])
                                    /\ Moved(p, step) # Baseline,
                    reason |-> Reason(gates)]
    /\ review' = [phase |-> "idle"]
    /\ UNCHANGED <<today, samples, results>>

Next ==
    \/ NextDay \/ Capture
    \/ \E d \in Dates : ValidateDue(d) \/ ValidateRange(d)
    \/ \E m \in Months : ReadWatermarks(m)
    \/ ReadSamples
    \/ \E p \in Tunable, step \in {-1, 1} : WriteReport(p, step)
Spec == Init /\ [][Next]_vars

-----------------------------------------------------------------------------
(* Properties *)
\* A result belongs to a sample, a validated one to a window that has elapsed,
\* and a sample to a day that has come.
TypeOK ==
    /\ today \in Dates
    /\ \A d \in Dates, s \in Symbols :
         /\ samples[d][s] # Absent => d <= today
         /\ \A w \in Windows : LET r == results[d][<<s, w>>] IN
              /\ r.status \in {"none", "validated", "retryable", "terminal"}
              /\ r # NoResult => samples[d][s] # Absent
              /\ r.status = "validated" => d + w <= today

\* The reason cascade of _confidence_candidate_report is a second evaluation
\* of the gates: the flag and the reason agree.
ReasonTellsEligible ==
    report # NoReport => (report.eligible <=> report.reason = "eligible")

Written == report' # NoReport /\ report' # report
Proposed == Written /\ report'.eligible
\* A move is proposed only when every whole sample in scope that the review
\* could learn from replays to the score its analysis published.
ReproducedOnly ==
    [][Proposed => \A row \in Complete(review) : Reproduces(Sample(review, row))]_vars

\* A parameter no training sample depends on (the news points, for analyses
\* that carry no news) is never proposed, in either direction.
ProposesOnlyEffects ==
    [][Proposed =>
        \E row \in InMonths(Eligible(review), Training(review.cohort)) :
            Confidence(Sample(review, row).input, Moved(report'.param, report'.step))
              # Confidence(Sample(review, row).input, Baseline)]_vars

\* No window of the holdout month may lose more than the floor, or go
\* unmeasured, whatever the other windows gain.
NoHorizonGivenUp ==
    [][Proposed =>
        \A w \in Windows :
            LET rows == {row \in Eligible(review) : row[3] = w /\ MonthOf[row[1]] = Max(review.cohort)}
            IN  /\ Correlation(review, rows, Baseline) # None
                /\ Correlation(review, rows, Moved(report'.param, report'.step))
                     >= Correlation(review, rows, Baseline) - Slack]_vars

\* Whatever commits while a review runs, a proposal about months that were
\* over when it started rests on all their samples: each was read and has a
\* result in every window.
CohortStaysEvaluated ==
    [][Proposed /\ (\A d \in Dates : MonthOf[d] \in review.cohort => d < review.day) =>
        \A x \in OfMonths(samples, review.cohort) :
            /\ review.samples[x[1]][x[2]] = samples[x[1]][x[2]]
            /\ \A w \in Windows : results[x[1]][<<x[2], w>>] # NoResult]_vars

\* The samples and results a proposal rests on are whole and replay to what was
\* published.
EvidenceIsWhole == []TypeOK /\ CohortStaysEvaluated /\ ReproducedOnly

\* A move is proposed only past every gate, for an effect, at no horizon's cost.
ProposalsAreSafe == []ReasonTellsEligible /\ ProposesOnlyEffects /\ NoHorizonGivenUp
=============================================================================
