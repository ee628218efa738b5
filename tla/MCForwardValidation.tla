------------------------- MODULE MCForwardValidation -------------------------
(***************************************************************************)
(* What became of the candidates, and the monthly review of the rules that *)
(* selected them, for TLC.  The review's outcomes are whatever validation  *)
(* calls may have stored, so the two share no state here: a behaviour is   *)
(* about one of the two, and the other's variables keep their initial      *)
(* values.                                                                 *)
(***************************************************************************)
EXTENDS ForwardValidation, RuleGovernance, TLC

CONSTANTS c1, k1

-----------------------------------------------------------------------------
(* Validation: requests for any day about a window that may straddle a       *)
(* holiday; a candidate whose trading stops; a stale one; and the due         *)
(* workflow coming back day after day.                                       *)
mcSetting ==
    [windows |-> {2}, lastDay |-> 3, holidays |-> {2}, stale |-> {}, snapshot |-> {},
     stopped |-> {}, lifecycle |-> TRUE, modes |-> {"due"}, earlyAsOf |-> TRUE,
     scheduled |-> {}]
mcStopped == [mcSetting EXCEPT !.holidays = {}, !.windows = {1, 2}, !.snapshot = {c1},
                               !.stopped = {c1}]
mcRange == [mcSetting EXCEPT !.holidays = {}, !.snapshot = {c1}, !.stopped = {c1},
                             !.modes = {"due", "range"}]
mcStale == [mcSetting EXCEPT !.windows = {1}, !.lastDay = 2, !.stale = {c1}]
mcScheduled == [mcSetting EXCEPT !.windows = {1}, !.lastDay = 2, !.holidays = {1, 2},
                                 !.snapshot = {c1}, !.lifecycle = FALSE,
                                 !.earlyAsOf = FALSE, !.scheduled = {k1}]
mcRest == [mcStale EXCEPT !.lastDay = 0, !.modes = {}]
mcSettings == {mcSetting, mcStopped, mcRange, mcStale, mcScheduled, mcRest}

-----------------------------------------------------------------------------
(* Rules: two months of one date each; two stocks that trade ranks when the  *)
(* rule group is removed or the parameter is raised; at most one defect per  *)
(* run.                                                                      *)
ruleSymbols == {1, 2}
ruleWindows == {5, 20}
ruleDates == {1, 2}
ruleMonthOf == [d \in ruleDates |-> d]
ruleMaxRuns == [d \in ruleDates |-> IF d = 1 THEN 2 ELSE 1]
ruleMinBlocks == <<1, 1>>
ruleBucket == [s \in ruleSymbols |-> IF s = 1 THEN "short" ELSE "swing"]
ruleScore == [v \in {"baseline", "ablated", "raised", "clamped"} |->
    [s \in ruleSymbols |-> IF v \in {"ablated", "raised"} THEN s ELSE 3 - s]]

Good == [complete |-> TRUE, reproduces |-> TRUE]
rulePools == {[s \in ruleSymbols |-> Good],
            [s \in ruleSymbols |-> IF s = 1 THEN Good ELSE [absent |-> TRUE]],
            [s \in ruleSymbols |-> IF s = 1 THEN Good ELSE [complete |-> TRUE, reproduces |-> FALSE]]}

Wins(x) == [status |-> "validated", identity |-> "valid", excess |-> x, downside |-> 0]
Skipped(i) == [status |-> "skipped", identity |-> i]
\* The second stock beats the first, in one window or in both; it is skipped in
\* one; or the results of one window are of another day and another benchmark.
ruleVerdicts ==
    LET V(a, b) == [p \in ruleSymbols \X ruleWindows |->
                      IF p[1] = 1 THEN Wins(0) ELSE IF p[2] = 5 THEN a ELSE b]
        other == [Wins(1) EXCEPT !.identity = "benchmark"]
        moved == [Wins(0) EXCEPT !.identity = "date"]
    IN  {V(Wins(1), Wins(1)), V(Wins(3), Wins(-1)),
         V(Skipped("valid"), Wins(1)), [V(other, Wins(1)) EXCEPT ![<<1, 5>>] = moved]}

VARIABLE track  \* the track the behaviour is about

-----------------------------------------------------------------------------
\* A calendar of the signal day alone, which is published in full: nothing is
\* left that fairness could ask for.
AtRest ==
    /\ setting = mcRest /\ today = 0 /\ sessions = {0} /\ index = {0} /\ bench = {0}
    /\ quotes = [c \in Candidates |-> {0}] /\ raw = [c \in Candidates |-> {}]
    /\ results = [c \in Candidates |-> [w \in Windows |-> NoResult]]
    /\ call = [k \in Workers |-> Idle]
TracksInit ==
    /\ RulesInit
    /\ \/ track = "validation" /\ Init /\ setting # mcRest
       \/ track = "rules" /\ AtRest
TracksNext ==
    \/ track = "validation" /\ Next /\ UNCHANGED <<track, rulesVars>>
    \/ track = "rules" /\ RulesNext /\ UNCHANGED <<track, vars>>
TracksSpec == TracksInit /\ [][TracksNext]_<<track, vars, rulesVars>> /\ Fairness

ASSUME RulesAreAssumed == RulesAssumption
=============================================================================
