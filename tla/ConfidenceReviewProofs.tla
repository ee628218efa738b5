----------------------- MODULE ConfidenceReviewProofs ------------------------
(***************************************************************************)
(* Proofs about ConfidenceReview, for any stocks, windows, months and      *)
(* parameters: what a review proposes rests on whole months that replay to *)
(* what was published, passed every gate, and changes something.           *)
(***************************************************************************)
EXTENDS ConfidenceReview, FiniteSetTheorems, WellFoundedInduction, TLAPS

-----------------------------------------------------------------------------
(* The inductive invariant *)

TablesOK ==
    /\ samples = [d \in Dates |-> [s \in Symbols |-> samples[d][s]]]
    /\ results = [d \in Dates |-> [p \in Symbols \X Windows |-> results[d][p]]]

\* The dates of the cohort's months.
DatesOf(cohort) == {d \in Dates : MonthOf[d] \in cohort}

\* The months under review were over when the review began.
Past(cohort, day) == \A d \in DatesOf(cohort) : d < day

\* A cohort that was over when it was counted stays evaluated, and what the
\* review has read of it stays what the table holds.
ReviewOK ==
    /\ review.phase \in {"idle", "samples", "rows"}
    /\ review.phase # "idle" =>
         /\ review.day \in Nat /\ review.day <= today
         /\ Past(review.cohort, review.day) =>
              \A x \in OfMonths(samples, review.cohort), w \in Windows :
                  results[x[1]][<<x[2], w>>] # NoResult
    /\ review.phase = "rows" /\ Past(review.cohort, review.day) =>
         \A d \in DatesOf(review.cohort), s \in Symbols : review.samples[d][s] = samples[d][s]

IInv == TypeOK /\ TablesOK /\ ReviewOK /\ ReasonTellsEligible

-----------------------------------------------------------------------------
(* Coefficients *)

\* A root is counted, so it is one of 0..Unit whatever it is taken of.
LEMMA RootIsUnits == \A n, d : Root(n, d) \in 0..Unit
<1> TAKE n, d
<1> DEFINE K == {k \in 1..Unit : k * k * d <= n}
<1>1. IsFiniteSet(1..Unit) /\ Cardinality(1..Unit) = Unit
  <2>1. 1 \in Int /\ Unit \in Int /\ ~(1 > Unit) /\ Unit - 1 + 1 = Unit
    BY UnitAssumption
  <2>2. /\ IsFiniteSet(1..Unit)
        /\ Cardinality(1..Unit) = IF 1 > Unit THEN 0 ELSE Unit - 1 + 1
    BY <2>1, FS_Interval
  <2> QED
    BY <2>1, <2>2
<1>2. IsFiniteSet(K) /\ Cardinality(K) <= Cardinality(1..Unit)
  BY <1>1, FS_Subset
<1>3. Cardinality(K) \in Nat
  BY <1>2, FS_CardinalityType
<1> HIDE DEF K
<1>4. Root(n, d) = Cardinality(K)
  BY DEF Root, K
<1> QED
  BY <1>1, <1>2, <1>3, <1>4, UnitAssumption

\* A coefficient is None or a number of Units between -1 and 1.
LEMMA CoefficientIsUnits ==
    \A n, cov, vx, vy : Coefficient(n, cov, vx, vy) \in {None} \cup (-Unit..Unit)
<1> TAKE n, cov, vx, vy
<1>1. PICK k \in 0..Unit : k = Root(Unit * Unit * cov * cov, vx * vy)
  BY RootIsUnits
<1>2. k \in -Unit..Unit /\ -k \in -Unit..Unit
  BY <1>1, UnitAssumption
<1>3. Coefficient(n, cov, vx, vy) \in {None, k, -k}
  BY <1>1 DEF Coefficient
<1> QED
  BY <1>2, <1>3

LEMMA CorrelationIsUnits ==
    \A read, rows, config : Correlation(read, rows, config) \in {None} \cup (-Unit..Unit)
BY CoefficientIsUnits DEF Correlation, Pearson

\* Scores that a move leaves as they are leave the correlation as it is.
LEMMA SameScores ==
    ASSUME NEW read, NEW rows, NEW config,
           \A row \in rows : Confidence(Sample(read, row).input, config)
                               = Confidence(Sample(read, row).input, Baseline)
    PROVE  Correlation(read, rows, config) = Correlation(read, rows, Baseline)
<1>1. [row \in rows |-> Confidence(Sample(read, row).input, config)]
        = [row \in rows |-> Confidence(Sample(read, row).input, Baseline)]
  OBVIOUS
<1> QED
  BY <1>1 DEF Correlation

\* A gain, or a loss within the slack, is the difference of two coefficients.
LEMMA DeltaIsMeasured ==
    ASSUME NEW read, NEW rows, NEW config,
           Delta(read, rows, config) > 0 \/ Delta(read, rows, config) >= -Slack
    PROVE  /\ Correlation(read, rows, Baseline) # None
           /\ Correlation(read, rows, config) # None
           /\ Correlation(read, rows, config) >= Correlation(read, rows, Baseline) - Slack
           /\ Delta(read, rows, config) > 0 =>
                Correlation(read, rows, config) # Correlation(read, rows, Baseline)
<1> DEFINE before == Correlation(read, rows, Baseline)
           after == Correlation(read, rows, config)
<1>1. before \in {None} \cup (-Unit..Unit) /\ after \in {None} \cup (-Unit..Unit)
  BY CorrelationIsUnits
<1>2. Delta(read, rows, config) = IF before = None \/ after = None THEN None ELSE after - before
  BY DEF Delta
<1> HIDE DEF before, after
<1>3. before # None /\ after # None /\ after >= before - Slack
      /\ (Delta(read, rows, config) > 0 => after # before)
  BY <1>1, <1>2, UnitAssumption DEF None
<1> QED
  BY <1>3 DEF before, after

-----------------------------------------------------------------------------
(* Gates *)

\* The cascade names the first gate that is shut, and says "eligible" only
\* when there is none.
LEMMA ReasonIsFirst ==
    ASSUME NEW gates, Len(gates) = 9
    PROVE  Reason(gates) = "eligible" <=> \A i \in 1..Len(gates) : gates[i]
<1> DEFINE shut == {i \in 1..9 : ~gates[i]} \cup {10}
<1>1. shut \in SUBSET Nat /\ shut # {} /\ \A i \in shut : i \in 1..10
  OBVIOUS
<1>2. PICK x \in shut : \A y \in shut : ~(<<y, x>> \in OpToRel(<, Nat))
  BY <1>1, WFMin, NatLessThanWellFounded
<1>3. ASSUME NEW y \in shut PROVE x <= y
  <2>1. x \in Nat /\ y \in Nat
    BY <1>1
  <2>2. ~(y < x)
    BY <1>2, <2>1, Zenon DEF OpToRel
  <2> QED
    BY <2>1, <2>2
<1>4. Min(shut) \in shut /\ \A y \in shut : Min(shut) <= y
  BY <1>3 DEF Min
<1>5. Reason(gates) = Reasons[Min(shut)]
  BY DEF Reason, Reasons
<1>6. \A i \in 1..10 : Reasons[i] = "eligible" <=> i = 10
  BY DEF Reasons
<1>7. Min(shut) \in 1..10
  BY <1>1, <1>4
<1>8. Min(shut) = 10 <=> shut = {10}
  BY <1>1, <1>4
<1>9. shut = {10} <=> \A i \in 1..9 : gates[i]
  OBVIOUS
<1> HIDE DEF shut
<1> QED
  BY <1>5, <1>6, <1>7, <1>8, <1>9

\* What is true once every gate is open.
LEMMA OpenGates ==
    ASSUME NEW read, NEW config, NEW lower, NEW gates,
           gates = Gates(read, config, lower), \A i \in 1..Len(gates) : gates[i]
    PROVE  /\ Cardinality(read.cohort) = CohortSize
           /\ Mismatches(read) = {}
           /\ TrainingGains(read, Eligible(read), config, lower)
           /\ HorizonsKept(read, Eligible(read), config)
<1> DEFINE rows == IF Exceeded(read) THEN {} ELSE Eligible(read)
           g1 == Cardinality(read.cohort) = CohortSize
           g2 == ~Exceeded(read)
           g3 == ~Exceeded(read) /\ Mismatches(read) = {}
           g5 == ReplayCovered(read)
           g6 == EnoughSamples(read, rows)
           g7 == EnoughBlocks(read, rows)
           g8 == TrainingGains(read, rows, config, lower)
           g9 == HorizonsKept(read, rows, config)
<1>1. gates = <<g1, g2, g3, read.covered, g5, g6, g7, g8, g9>>
  BY DEF Gates
<1> HIDE DEF g1, g2, g3, g5, g6, g7, g8, g9
<1>2. g1 /\ g2 /\ g3 /\ g8 /\ g9
  <2>1. Len(gates) = 9 /\ 1 \in 1..9 /\ 2 \in 1..9 /\ 3 \in 1..9 /\ 8 \in 1..9 /\ 9 \in 1..9
    BY <1>1
  <2>2. gates[1] /\ gates[2] /\ gates[3] /\ gates[8] /\ gates[9]
    BY <2>1
  <2>3. gates[1] = g1 /\ gates[2] = g2 /\ gates[3] = g3 /\ gates[8] = g8 /\ gates[9] = g9
    BY <1>1
  <2> QED
    BY <2>2, <2>3
<1> QED
  BY <1>2 DEF g1, g2, g3, g8, g9

\* There are nine gates.
LEMMA NineGates == \A read, config, lower : Len(Gates(read, config, lower)) = 9
BY DEF Gates

\* A move past every gate changes the score of a training row, hence something.
LEMMA OpenGatesChange ==
    ASSUME NEW read, NEW config, NEW lower, NEW gates,
           gates = Gates(read, config, lower), \A i \in 1..Len(gates) : gates[i]
    PROVE  /\ config # Baseline
           /\ \E row \in InMonths(Eligible(read), Training(read.cohort)) :
                  Confidence(Sample(read, row).input, config)
                    # Confidence(Sample(read, row).input, Baseline)
<1> DEFINE rows == InMonths(Eligible(read), Training(read.cohort))
<1>1. Delta(read, rows, config) > 0
  BY OpenGates DEF TrainingGains
<1>2. Correlation(read, rows, config) # Correlation(read, rows, Baseline)
  BY <1>1, DeltaIsMeasured
<1> HIDE DEF rows
<1>3. \E row \in rows : Confidence(Sample(read, row).input, config)
                          # Confidence(Sample(read, row).input, Baseline)
  BY <1>2, SameScores
<1>4. config # Baseline
  BY <1>3
<1> QED
  BY <1>3, <1>4 DEF rows

-----------------------------------------------------------------------------
(* Initial states and steps *)

LEMMA InitHolds == Init => IInv
<1> SUFFICES ASSUME Init PROVE IInv
  OBVIOUS
<1>1. /\ today = 1 /\ review = [phase |-> "idle"] /\ report = NoReport
      /\ samples = [d \in Dates |-> [s \in Symbols |-> Absent]]
      /\ results = [d \in Dates |-> [p \in Symbols \X Windows |-> NoResult]]
  BY DEF Init
<1>2. TypeOK
  BY <1>1, DaysAssumption DEF TypeOK, Dates, NoResult
<1>3. TablesOK
  BY <1>1 DEF TablesOK
<1>4. ReviewOK /\ ReasonTellsEligible
  BY <1>1 DEF ReviewOK, ReasonTellsEligible
<1> QED
  BY <1>2, <1>3, <1>4 DEF IInv

LEMMA NextDayStep ==
    ASSUME IInv, NextDay
    PROVE  IInv'
<1>1. /\ today' = today + 1 /\ today' \in Dates /\ today \in Nat /\ today' \in Nat
      /\ report' = NoReport /\ UNCHANGED <<samples, results, review>>
  BY DaysAssumption DEF NextDay, IInv, TypeOK, Dates
<1>2. TypeOK'
  BY <1>1, DaysAssumption DEF IInv, TypeOK, Dates
<1>3. TablesOK' /\ ReasonTellsEligible'
  BY <1>1 DEF IInv, TablesOK, ReasonTellsEligible
<1>4. ReviewOK'
  <2>1. ASSUME NEW day \in Nat, day <= today PROVE day <= today'
    BY <1>1, <2>1
  <2>2. review.phase # "idle" => review.day \in Nat /\ review.day <= today
    BY DEF IInv, ReviewOK
  <2>3. review.phase # "idle" => review.day <= today'
    BY <2>1, <2>2
  <2> QED
    BY <1>1, <2>2, <2>3 DEF IInv, ReviewOK
<1> QED
  BY <1>2, <1>3, <1>4 DEF IInv

\* A capture adds samples of today, which no month under review has.
LEMMA CaptureStep ==
    ASSUME IInv, Capture
    PROVE  IInv'
<1>1. PICK day \in Days[today] :
        samples' = [samples EXCEPT ![today] =
                [s \in Symbols |-> IF @[s] # Absent THEN @[s] ELSE day[s]]]
  BY DEF Capture
<1>2. /\ UNCHANGED <<today, results, review>> /\ report' = NoReport
      /\ today \in Dates /\ today \in Nat
  BY DaysAssumption DEF Capture, IInv, TypeOK, Dates
<1>3. samples = [d \in Dates |-> [s \in Symbols |-> samples[d][s]]]
  BY DEF IInv, TablesOK
<1>4. samples' = [d \in Dates |-> [s \in Symbols |->
                    IF d # today \/ samples[d][s] # Absent THEN samples[d][s] ELSE day[s]]]
  BY <1>1, <1>2, <1>3
<1>5. TypeOK'
  <2> SUFFICES ASSUME NEW d \in Dates, NEW s \in Symbols
               PROVE  /\ samples'[d][s] # Absent => d <= today
                      /\ samples[d][s] # Absent => samples'[d][s] # Absent
    BY <1>2 DEF IInv, TypeOK
  <2>1. d \in Nat
    BY DaysAssumption DEF Dates
  <2> QED
    BY <1>2, <1>4, <2>1 DEF IInv, TypeOK
<1>6. TablesOK'
  <2>1. samples' = [d \in Dates |-> [s \in Symbols |-> samples'[d][s]]]
    BY <1>4
  <2> QED
    BY <1>2, <2>1 DEF IInv, TablesOK
<1>7. ReviewOK'
  <2>1. ASSUME review.phase # "idle", Past(review.cohort, review.day)
        PROVE  /\ \A d \in DatesOf(review.cohort), s \in Symbols : samples'[d][s] = samples[d][s]
               /\ OfMonths(samples', review.cohort) = OfMonths(samples, review.cohort)
    <3>1. review.day \in Nat /\ review.day <= today
      BY <2>1 DEF IInv, ReviewOK
    <3>2. \A d \in DatesOf(review.cohort) : d \in Dates /\ d \in Nat /\ d # today
      BY <1>2, <2>1, <3>1, DaysAssumption DEF Past, DatesOf, Dates
    <3>3. \A d \in DatesOf(review.cohort), s \in Symbols : samples'[d][s] = samples[d][s]
      BY <1>4, <3>2
    <3> QED
      BY <3>3 DEF OfMonths, Held, DatesOf
  <2> QED
    BY <1>2, <2>1 DEF IInv, ReviewOK
<1>8. ReasonTellsEligible'
  BY <1>2 DEF ReasonTellsEligible
<1> QED
  BY <1>5, <1>6, <1>7, <1>8 DEF IInv

\* A call that gives results to samples, validated ones to elapsed windows,
\* takes none away.
LEMMA StoreStep ==
    ASSUME IInv, NEW d \in Dates, NEW evaluated, NEW found,
           UNCHANGED <<today, samples, review>>, report' = NoReport,
           Store(d, found, evaluated),
           \A p \in Symbols \X Windows : evaluated[p] =>
              /\ samples[d][p[1]] # Absent
              /\ found[p].status \in {"validated", "retryable", "terminal"}
              /\ found[p].status = "validated" => d + p[2] <= today
    PROVE  IInv'
<1>1. /\ UNCHANGED <<today, samples, review>> /\ report' = NoReport
  OBVIOUS
<1>2. results = [e \in Dates |-> [p \in Symbols \X Windows |-> results[e][p]]]
  BY DEF IInv, TablesOK
<1>4. /\ results' = [results EXCEPT ![d] = [p \in Symbols \X Windows |->
                            IF evaluated[p] THEN found[p] ELSE @[p]]]
      /\ \A p \in Symbols \X Windows : evaluated[p] =>
            /\ samples[d][p[1]] # Absent
            /\ found[p].status \in {"validated", "retryable", "terminal"}
            /\ found[p].status = "validated" => d + p[2] <= today
  BY DEF Store
<1>5. results' = [e \in Dates |-> [p \in Symbols \X Windows |->
                    IF e = d /\ evaluated[p] THEN found[p] ELSE results[e][p]]]
  BY <1>2, <1>4
<1>6. ASSUME NEW e \in Dates, NEW p \in Symbols \X Windows
      PROVE  \/ results'[e][p] = results[e][p]
             \/ /\ results'[e][p] # NoResult
                /\ results'[e][p].status \in {"validated", "retryable", "terminal"}
                /\ samples[e][p[1]] # Absent
                /\ results'[e][p].status = "validated" => e + p[2] <= today
  <2>1. CASE e = d /\ evaluated[p]
    <3>1. results'[e][p] = found[p]
      BY <1>5, <2>1
    <3>2. NoResult.status = "none"
      BY DEF NoResult
    <3> QED
      BY <1>4, <2>1, <3>1, <3>2
  <2>2. CASE ~(e = d /\ evaluated[p])
    BY <1>5, <2>2
  <2> QED
    BY <2>1, <2>2
<1>7. TypeOK'
  <2> SUFFICES ASSUME NEW e \in Dates, NEW s \in Symbols, NEW w \in Windows
               PROVE  /\ results'[e][<<s, w>>].status \in {"none", "validated", "retryable", "terminal"}
                      /\ results'[e][<<s, w>>] # NoResult => samples[e][s] # Absent
                      /\ results'[e][<<s, w>>].status = "validated" => e + w <= today
    BY <1>1 DEF IInv, TypeOK
  <2>1. <<s, w>> \in Symbols \X Windows /\ <<s, w>>[1] = s /\ <<s, w>>[2] = w
    OBVIOUS
  <2>2. /\ results[e][<<s, w>>].status \in {"none", "validated", "retryable", "terminal"}
        /\ results[e][<<s, w>>] # NoResult => samples[e][s] # Absent
        /\ results[e][<<s, w>>].status = "validated" => e + w <= today
    BY DEF IInv, TypeOK
  <2> QED
    BY <1>6, <2>1, <2>2
<1>8. TablesOK'
  <2>1. results' = [e \in Dates |-> [p \in Symbols \X Windows |-> results'[e][p]]]
    BY <1>5
  <2> QED
    BY <1>1, <2>1 DEF IInv, TablesOK
<1>9. ReviewOK'
  <2>1. \A x \in OfMonths(samples, review.cohort), w \in Windows :
            results[x[1]][<<x[2], w>>] # NoResult => results'[x[1]][<<x[2], w>>] # NoResult
    <3>1. \A x \in OfMonths(samples, review.cohort), w \in Windows :
              x[1] \in Dates /\ <<x[2], w>> \in Symbols \X Windows
      BY DEF OfMonths, Held
    <3> QED
      BY <1>6, <3>1
  <2> QED
    BY <1>1, <2>1 DEF IInv, ReviewOK
<1>10. ReasonTellsEligible'
  BY <1>1 DEF ReasonTellsEligible
<1> QED
  BY <1>7, <1>8, <1>9, <1>10 DEF IInv

\* Both calls store results that follow from samples and elapsed windows.
LEMMA ValidateStep ==
    ASSUME IInv, NEW d \in Dates, ValidateDue(d) \/ ValidateRange(d)
    PROVE  IInv'
<1>1. CASE ValidateDue(d)
  <2> DEFINE due == [p \in Symbols \X Windows |->
                       /\ samples[d][p[1]] # Absent
                       /\ d + p[2] <= today
                       /\ ~Settled(results[d][p])]
  <2>1. PICK verdict \in Verdicts[d] :
          Store(d, verdict, due) /\ UNCHANGED <<today, samples, review>> /\ report' = NoReport
    BY <1>1 DEF ValidateDue
  <2>2. \A p \in Symbols \X Windows : due[p] => samples[d][p[1]] # Absent /\ d + p[2] <= today
    OBVIOUS
  <2>3. \A p \in Symbols \X Windows : verdict[p].status \in {"validated", "retryable", "terminal"}
    BY VerdictsAssumption DEF Dates
  <2> HIDE DEF due
  <2> QED
    BY <2>1, <2>2, <2>3, StoreStep
<1>2. CASE ValidateRange(d)
  <2> DEFINE held == [p \in Symbols \X Windows |-> samples[d][p[1]] # Absent]
             Found(verdict) == [p \in Symbols \X Windows |->
                                  IF d + p[2] <= today THEN verdict[p] ELSE NotDue]
  <2>1. PICK verdict \in Verdicts[d] :
          /\ Store(d, Found(verdict), held)
          /\ UNCHANGED <<today, samples, review>> /\ report' = NoReport
    BY <1>2 DEF ValidateRange
  <2>2. \A p \in Symbols \X Windows : held[p] => samples[d][p[1]] # Absent
    OBVIOUS
  <2>3. \A p \in Symbols \X Windows : verdict[p].status \in {"validated", "retryable", "terminal"}
    BY VerdictsAssumption DEF Dates
  <2> DEFINE found == Found(verdict)
  <2>4. \A p \in Symbols \X Windows :
            /\ found[p].status \in {"validated", "retryable", "terminal"}
            /\ found[p].status = "validated" => d + p[2] <= today
    BY <2>3 DEF NotDue
  <2>5. Store(d, found, held)
    BY <2>1
  <2> HIDE DEF held, found
  <2> QED
    BY <2>1, <2>2, <2>4, <2>5, StoreStep
<1> QED
  BY <1>1, <1>2

\* Where the tables stay, they stay well formed.
LEMMA TablesStay ==
    ASSUME IInv, UNCHANGED <<today, samples, results>>
    PROVE  TypeOK' /\ TablesOK'
<1>1. TypeOK /\ TablesOK
  BY DEF IInv
<1>2. TypeOK'
  BY <1>1 DEF TypeOK
<1>3. TablesOK'
  BY <1>1 DEF TablesOK
<1> QED
  BY <1>2, <1>3

\* A cohort consists of months that are mature when it is counted.
LEMMA CohortIsMature ==
    ASSUME NEW m, NEW x \in OfMonths(samples, Cohort(m)), NEW w \in Windows
    PROVE  results[x[1]][<<x[2], w>>] # NoResult
<1>1. MonthOf[x[1]] \in Cohort(m) /\ x \in Held(samples)
  BY DEF OfMonths
<1>2. Mature(MonthOf[x[1]])
  BY <1>1 DEF Cohort
<1>3. x \in OfMonths(samples, {MonthOf[x[1]]})
  BY <1>1 DEF OfMonths
<1> QED
  BY <1>2, <1>3 DEF Mature

LEMMA WatermarkStep ==
    ASSUME IInv, NEW m \in Months, ReadWatermarks(m)
    PROVE  IInv'
<1>1. /\ UNCHANGED <<today, samples, results>> /\ report' = NoReport
      /\ review'.phase = "samples" /\ review'.day = today /\ review'.cohort = Cohort(m)
      /\ today \in Nat
  BY DaysAssumption DEF ReadWatermarks, IInv, TypeOK, Dates
<1>2. TypeOK' /\ TablesOK'
  BY <1>1, TablesStay
<1>3. ReviewOK'
  <2>1. \A x \in OfMonths(samples, Cohort(m)), w \in Windows :
            results[x[1]][<<x[2], w>>] # NoResult
    BY CohortIsMature
  <2> QED
    BY <1>1, <2>1 DEF ReviewOK
<1>4. ReasonTellsEligible'
  BY <1>1 DEF ReasonTellsEligible
<1> QED
  BY <1>2, <1>3, <1>4 DEF IInv

LEMMA SamplesStep ==
    ASSUME IInv, ReadSamples
    PROVE  IInv'
<1>1. /\ UNCHANGED <<today, samples, results, report>> /\ review.phase = "samples"
      /\ review'.phase = "rows" /\ review'.day = review.day /\ review'.cohort = review.cohort
      /\ review'.samples = samples
  BY DEF ReadSamples
<1>2. TypeOK' /\ TablesOK'
  BY <1>1, TablesStay
<1>3. ReviewOK'
  BY <1>1 DEF IInv, ReviewOK
<1>4. ReasonTellsEligible'
  BY <1>1 DEF IInv, ReasonTellsEligible
<1> QED
  BY <1>2, <1>3, <1>4 DEF IInv

\* What a report says of its move.
LEMMA ReportFacts ==
    ASSUME NEW p, NEW step, WriteReport(p, step)
    PROVE  \E lower, gates :
              /\ gates = Gates(review, Moved(p, step), lower)
              /\ report'.param = p /\ report'.step = step
              /\ report'.eligible <=> (\A i \in 1..Len(gates) : gates[i])
              /\ report'.reason = Reason(gates)
              /\ report' # NoReport
<1>1. PICK lower \in BOOLEAN : \E gates \in {Gates(review, Moved(p, step), lower)} :
         report' = [written |-> TRUE, param |-> p, step |-> step,
                    eligible |-> (\A i \in 1..Len(gates) : gates[i])
                                    /\ Moved(p, step) # Baseline,
                    reason |-> Reason(gates)]
  BY DEF WriteReport
<1>2. PICK gates \in {Gates(review, Moved(p, step), lower)} :
         report' = [written |-> TRUE, param |-> p, step |-> step,
                    eligible |-> (\A i \in 1..Len(gates) : gates[i])
                                    /\ Moved(p, step) # Baseline,
                    reason |-> Reason(gates)]
  BY <1>1
<1>3. /\ report'.param = p /\ report'.step = step /\ report'.reason = Reason(gates)
      /\ report'.eligible = ((\A i \in 1..Len(gates) : gates[i]) /\ Moved(p, step) # Baseline)
      /\ report'.written = TRUE
  BY <1>2
<1>4. gates = Gates(review, Moved(p, step), lower)
  BY <1>2
<1>5. (\A i \in 1..Len(gates) : gates[i]) => Moved(p, step) # Baseline
  BY <1>4, OpenGatesChange
<1>6. report' # NoReport
  BY <1>3 DEF NoReport
<1> QED
  BY <1>3, <1>4, <1>5, <1>6

LEMMA ReportStep ==
    ASSUME IInv, NEW p \in Tunable, NEW step \in {-1, 1}, WriteReport(p, step)
    PROVE  IInv'
<1>1. UNCHANGED <<today, samples, results>> /\ review' = [phase |-> "idle"]
  BY DEF WriteReport
<1>2. TypeOK' /\ TablesOK'
  BY <1>1, TablesStay
<1>3. ReasonTellsEligible'
  BY ReportFacts, ReasonIsFirst, NineGates DEF ReasonTellsEligible
<1>4. ReviewOK'
  BY <1>1 DEF ReviewOK
<1> QED
  BY <1>2, <1>3, <1>4 DEF IInv

LEMMA StepHolds == IInv /\ [Next]_vars => IInv'
<1> SUFFICES ASSUME IInv, [Next]_vars PROVE IInv'
  OBVIOUS
<1>1. CASE UNCHANGED vars
  <2>1. UNCHANGED <<today, samples, results, review, report>>
    BY <1>1 DEF vars
  <2>2. TypeOK' /\ TablesOK'
    BY <2>1, TablesStay
  <2>3. ReviewOK'
    BY <2>1 DEF IInv, ReviewOK
  <2>4. ReasonTellsEligible'
    BY <2>1 DEF IInv, ReasonTellsEligible
  <2> QED
    BY <2>2, <2>3, <2>4 DEF IInv
<1> QED
  BY <1>1, NextDayStep, CaptureStep, ValidateStep, WatermarkStep, SamplesStep, ReportStep
  DEF Next

-----------------------------------------------------------------------------
(* Theorems *)

\* Inductive: results belong to samples and elapsed windows, a report's flag and
\* reason agree, and a cohort that was over when ReadWatermarks counted it stays
\* evaluated and stays as ReadSamples found it.
THEOREM Inductive == Spec => []IInv
<1>1. Init => IInv
  BY InitHolds
<1>2. IInv /\ [Next]_vars => IInv'
  BY StepHolds
<1> QED
  BY <1>1, <1>2, PTL DEF Spec

-----------------------------------------------------------------------------
(* What a proposal rests on *)

\* Only WriteReport leaves a new report, and one is proposed past every gate.
LEMMA ProposalFacts ==
    ASSUME Next, Proposed
    PROVE  /\ review.phase = "rows" /\ UNCHANGED <<samples, results>>
           /\ \E lower, gates :
                /\ gates = Gates(review, Moved(report'.param, report'.step), lower)
                /\ \A i \in 1..Len(gates) : gates[i]
<1>1. report' # NoReport /\ report' # report /\ report'.eligible
  BY DEF Proposed, Written
<1>2. PICK p \in Tunable, step \in {-1, 1} : WriteReport(p, step)
  BY <1>1 DEF Next, NextDay, Capture, ValidateDue, ValidateRange, ReadWatermarks, ReadSamples
<1>3. review.phase = "rows" /\ UNCHANGED <<samples, results>>
  BY <1>2 DEF WriteReport
<1>4. PICK lower, gates :
              /\ gates = Gates(review, Moved(p, step), lower)
              /\ report'.param = p /\ report'.step = step
              /\ report'.eligible <=> (\A i \in 1..Len(gates) : gates[i])
  BY <1>2, ReportFacts
<1>5. /\ gates = Gates(review, Moved(report'.param, report'.step), lower)
      /\ \A i \in 1..Len(gates) : gates[i]
  BY <1>1, <1>4
<1> QED
  BY <1>3, <1>5

\* EvidenceIsWhole (analysis/calibration.py:397-467 reads the watermarks, the samples and
\* the results in three queries; captures and validation calls commit between
\* them): the tables stay well formed, and a proposal about months that were over
\* when its review began rests on all their samples, each read as it still
\* stands, evaluated in every window, and replaying to the score published.
THEOREM EvidenceWhole == Spec => EvidenceIsWhole
<1> DEFINE Evaluated ==
             (\A d \in Dates : MonthOf[d] \in review.cohort => d < review.day) =>
               \A x \in OfMonths(samples, review.cohort) :
                   /\ review.samples[x[1]][x[2]] = samples[x[1]][x[2]]
                   /\ \A w \in Windows : results[x[1]][<<x[2], w>>] # NoResult
           Replays == \A row \in Complete(review) : Reproduces(Sample(review, row))
<1>1. ASSUME IInv, Next, Proposed PROVE Evaluated /\ Replays
  <2>1. /\ review.phase = "rows"
        /\ \E lower, gates :
             /\ gates = Gates(review, Moved(report'.param, report'.step), lower)
             /\ \A i \in 1..Len(gates) : gates[i]
    BY <1>1, ProposalFacts
  <2>2. Mismatches(review) = {}
    BY <2>1, OpenGates
  <2>3. Replays
    BY <2>2 DEF Mismatches
  <2>4. Evaluated
    <3> SUFFICES ASSUME \A d \in Dates : MonthOf[d] \in review.cohort => d < review.day,
                        NEW x \in OfMonths(samples, review.cohort)
                 PROVE  /\ review.samples[x[1]][x[2]] = samples[x[1]][x[2]]
                        /\ \A w \in Windows : results[x[1]][<<x[2], w>>] # NoResult
      OBVIOUS
    <3>1. Past(review.cohort, review.day)
      BY DEF Past, DatesOf
    <3>2. x[1] \in DatesOf(review.cohort) /\ x[2] \in Symbols
      BY DEF OfMonths, Held, DatesOf
    <3> QED
      BY <1>1, <2>1, <3>1, <3>2 DEF IInv, ReviewOK
  <2> QED
    BY <2>3, <2>4
<1> HIDE DEF Evaluated, Replays
<1>2. IInv /\ [Next]_vars => [Proposed => Evaluated]_vars /\ [Proposed => Replays]_vars
  BY <1>1
<1>3. IInv => TypeOK
  BY DEF IInv
<1>4. Spec => []TypeOK
  BY <1>3, Inductive, PTL
<1>5. Spec => [][Proposed => Evaluated]_vars
  BY <1>2, Inductive, PTL DEF Spec
<1>6. Spec => [][Proposed => Replays]_vars
  BY <1>2, Inductive, PTL DEF Spec
<1>7. [Proposed => Evaluated]_vars <=>
        [Proposed /\ (\A d \in Dates : MonthOf[d] \in review.cohort => d < review.day) =>
           \A x \in OfMonths(samples, review.cohort) :
               /\ review.samples[x[1]][x[2]] = samples[x[1]][x[2]]
               /\ \A w \in Windows : results[x[1]][<<x[2], w>>] # NoResult]_vars
  BY DEF Evaluated
<1>8. Spec => CohortStaysEvaluated
  BY <1>5, <1>7, PTL DEF CohortStaysEvaluated
<1>9. Spec => ReproducedOnly
  BY <1>6 DEF ReproducedOnly, Replays
<1> QED
  BY <1>4, <1>8, <1>9 DEF EvidenceIsWhole

-----------------------------------------------------------------------------
(* What a proposed move does *)

\* The last month of a full cohort is the holdout, and a window of its rows is
\* what NoHorizonGivenUp measures.
LEMMA HoldoutRows ==
    ASSUME NEW read, NEW w, Cardinality(read.cohort) = CohortSize
    PROVE  {row \in Eligible(read) : row[3] = w /\ MonthOf[row[1]] = Max(read.cohort)}
             = InWindow(InMonths(Eligible(read), Holdout(read.cohort)), w)
BY DEF InWindow, InMonths, Holdout

\* ProposalsAreSafe (analysis/calibration.py:696-806, the gates of a candidate report and
\* its reason): the reason says "eligible" exactly of what is; a move is proposed
\* only when it changes the score of a training sample, and when no window of the
\* holdout month loses more than the slack or goes unmeasured.
THEOREM ProposalsSafe == Spec => ProposalsAreSafe
<1> DEFINE config == Moved(report'.param, report'.step)
           Changes == \E row \in InMonths(Eligible(review), Training(review.cohort)) :
                          Confidence(Sample(review, row).input, config)
                            # Confidence(Sample(review, row).input, Baseline)
           HorizonRows(w) ==
               {row \in Eligible(review) : row[3] = w /\ MonthOf[row[1]] = Max(review.cohort)}
           Keeps == \A w \in Windows :
                      /\ Correlation(review, HorizonRows(w), Baseline) # None
                      /\ Correlation(review, HorizonRows(w), config)
                           >= Correlation(review, HorizonRows(w), Baseline) - Slack
<1>1. ASSUME Next, Proposed PROVE Changes /\ Keeps
  <2>1. PICK lower, gates :
             /\ gates = Gates(review, config, lower)
             /\ \A i \in 1..Len(gates) : gates[i]
    BY <1>1, ProposalFacts
  <2>2. Changes
    BY <2>1, OpenGatesChange
  <2>3. Cardinality(review.cohort) = CohortSize /\ HorizonsKept(review, Eligible(review), config)
    BY <2>1, OpenGates
  <2>4. ASSUME NEW w \in Windows
        PROVE  /\ Correlation(review, HorizonRows(w), Baseline) # None
               /\ Correlation(review, HorizonRows(w), config)
                    >= Correlation(review, HorizonRows(w), Baseline) - Slack
    <3> DEFINE rows == InWindow(InMonths(Eligible(review), Holdout(review.cohort)), w)
    <3>1. HorizonRows(w) = rows
      BY <2>3, HoldoutRows
    <3>2. Delta(review, rows, config) >= -Slack
      BY <2>3 DEF HorizonsKept
    <3> HIDE DEF rows, HorizonRows, config
    <3>3. /\ Correlation(review, rows, Baseline) # None
          /\ Correlation(review, rows, config) >= Correlation(review, rows, Baseline) - Slack
      BY <3>2, DeltaIsMeasured
    <3> QED
      BY <3>1, <3>3
  <2>5. Keeps
    BY <2>4
  <2> QED
    BY <2>2, <2>5
<1>2. [Next]_vars => [Proposed => Changes]_vars /\ [Proposed => Keeps]_vars
  <2> HIDE DEF Changes, Keeps
  <2> QED
    BY <1>1
<1>3. Spec => [][Proposed => Changes]_vars
  <2> HIDE DEF Changes, Keeps
  <2> QED
    BY <1>2, PTL DEF Spec
<1>4. Spec => [][Proposed => Keeps]_vars
  <2> HIDE DEF Changes, Keeps
  <2> QED
    BY <1>2, PTL DEF Spec
<1>5. IInv => ReasonTellsEligible
  BY DEF IInv
<1>6. Spec => []ReasonTellsEligible
  BY <1>5, Inductive, PTL
<1>7. Spec => ProposesOnlyEffects
  BY <1>3 DEF ProposesOnlyEffects
<1>8. [Proposed => Keeps]_vars <=>
        [Proposed =>
           \A w \in Windows :
               LET rows == {row \in Eligible(review) : row[3] = w /\ MonthOf[row[1]] = Max(review.cohort)}
               IN  /\ Correlation(review, rows, Baseline) # None
                   /\ Correlation(review, rows, Moved(report'.param, report'.step))
                        >= Correlation(review, rows, Baseline) - Slack]_vars
  BY DEF Keeps, HorizonRows
<1>9. Spec => NoHorizonGivenUp
  <2> HIDE DEF Keeps
  <2> QED
    BY <1>4, <1>8, PTL DEF NoHorizonGivenUp
<1> QED
  BY <1>6, <1>7, <1>9 DEF ProposalsAreSafe

=============================================================================
