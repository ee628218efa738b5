---------------------------- MODULE MCObservations ----------------------------
(***************************************************************************)
(* The holdings of the active funds and the next-open research validation  *)
(* of the radar's candidates for TLC.  They share no state, so a behaviour *)
(* is about one of the two, and the other's variables keep their initial   *)
(* values.                                                                 *)
(***************************************************************************)
EXTENDS Observations

-----------------------------------------------------------------------------
(* Holdings: one fund over three days; odd pages; two funds with a common    *)
(* security; and three funds of which the listing may forget some.           *)
Held(s, n) == [symbol |-> s, shares |-> n, equity |-> TRUE]
Cash == [symbol |-> 0, shares |-> 9, equity |-> FALSE]
Bounds(relistings, corrections) ==
    [relistings |-> relistings, corrections |-> corrections, faults |-> 1]
Tables(first, second) == [f \in Funds |-> IF f = 1 THEN first ELSE IF f = 2 THEN second ELSE {}]

mcBooks ==
    [listed |-> {1}, odd |-> {}, days |-> 3, bounds |-> Bounds(0, 0),
     tables |-> Tables({<<Held(1, 200)>>, <<Held(1, 100), Held(2, 300)>>,
                        <<Held(1, 200), Held(2, 600), Cash>>}, {})]
mcOddities ==
    [listed |-> {1}, odd |-> {1}, days |-> 2, bounds |-> Bounds(0, 1),
     tables |-> Tables({<<Held(1, 200)>>, <<Held(1, 200), Cash>>,
                        <<Held(1, 100), Held(1, 300)>>, <<Held(2, 5)>>}, {})]
mcFunds ==
    [listed |-> {1, 2}, odd |-> {}, days |-> 2, bounds |-> Bounds(0, 0),
     tables |-> Tables({<<Held(1, 200)>>, <<Held(1, 100), Held(2, 300)>>},
                       {<<Held(1, 300), Held(2, 100)>>, <<Held(2, 101)>>})]
mcReturns ==
    [listed |-> Funds, odd |-> {}, days |-> 2, bounds |-> Bounds(2, 0),
     tables |-> Tables({<<Held(1, 200)>>, <<Cash>>}, {})]
mcNoBooks == [mcReturns EXCEPT !.listed = {}, !.days = 1, !.bounds = Bounds(0, 0)]
mcEtfSettings == {mcNoBooks, mcBooks, mcOddities, mcFunds, mcReturns}

-----------------------------------------------------------------------------
(* Research: sources that fail in any combination; holes that only one      *)
(* source shows; a rights issue, a stock distribution and a capital          *)
(* reduction, with and without an archive; conflicts older than the default  *)
(* start date, one of which nothing explains.                                *)
rsSources == {"yahoo", "yahooIndex", "index", "prices", "actions", "notices"}
rsPlain ==
    [sessions |-> 0..2, lastDate |-> 2, horizons |-> {2}, lookback |-> 4, resumeMax |-> 1,
     hints |-> {}, event |-> <<"none", "none">>, eventDay |-> 2, haltDay |-> 1, listed |-> {1},
     outOfDate |-> {2}, archived |-> {}, gaps |-> {}, indexGaps |-> {}, prepared |-> 0..2,
     outages |-> SUBSET rsSources, requests |-> {"due"}, asOfLag |-> 1, reruns |-> FALSE,
     due |-> {1}, active |-> {1}, budgets |-> {8}]
rsHoles == [rsPlain EXCEPT !.sessions = {0, 1, 3}, !.lastDate = 3, !.gaps = {3}, !.indexGaps = {1},
                           !.outages = SUBSET rsSources \cup {{"blank"}, {"actions", "blank"}},
                           !.prepared = {0, 1}, !.outOfDate = {}, !.listed = {2}]
rsRights == [rsPlain EXCEPT !.event = <<"rights", "none">>, !.archived = 0..2,
                            !.requests = {"due", "scoped"}, !.due = {}, !.active = {1, 2},
                            !.outages = {{}, {"notices"}, {"yahoo"}}]
rsRange == [rsRights EXCEPT !.requests = {"due", "range"}, !.asOfLag = 0]
rsDue == [rsRights EXCEPT !.horizons = {1, 2}, !.requests = {"due"}, !.due = {1}, !.active = {1},
                          !.outages = {{}, {"notices"}, {"prices"}, {"actions", "yahoo"},
                                       {"index", "yahooIndex"}}]
rsShares == [rsRights EXCEPT !.event = <<"distribution", "rights">>, !.requests = {"due"},
                             !.outOfDate = {}, !.reruns = TRUE]
rsShorter == [rsShares EXCEPT !.horizons = {1, 2}, !.reruns = FALSE, !.active = {1}]
rsBare == [rsShares EXCEPT !.event = <<"distribution", "none">>, !.archived = {}]
rsHalt == [rsPlain EXCEPT !.sessions = {0, 1, 2, 4}, !.lastDate = 4, !.horizons = {3},
                          !.lookback = 6, !.event = <<"halt", "halt">>, !.eventDay = 4,
                          !.haltDay = 2, !.outOfDate = {},
                          !.outages = {{}, {"index"}, {"prices", "yahooIndex"}}]
rsHoliday == [rsHalt EXCEPT !.prepared = 0..3]
rsOld == [rsPlain EXCEPT !.horizons = {1}, !.lookback = 2, !.lastDate = 4,
                         !.event = <<"mistake", "none">>, !.eventDay = 1, !.haltDay = 0, !.outOfDate = {},
                         !.archived = 0..2, !.hints = {<<1, 1>>, <<2, 1>>},
                         !.outages = {{}, {"index"}, {"yahoo", "yahooIndex"}}]
rsQueue == [rsPlain EXCEPT !.sessions = 0..3, !.prepared = 0..3, !.horizons = {2, 3},
                           !.lookback = 6, !.lastDate = 7, !.event = <<"mistake", "rights">>,
                           !.listed = {1, 2}, !.outOfDate = {}, !.archived = 0..3,
                           !.hints = {1, 2} \X {2, 3},
                           !.outages = {{}, {"notices"}}, !.budgets = {0, 2}, !.asOfLag = 0]
rsStarved == [rsPlain EXCEPT !.event = <<"mistake", "rights">>, !.listed = {1, 2}, !.outOfDate = {},
                             !.archived = 0..2, !.gaps = {1}, !.budgets = 0..4,
                             !.outages = {{}, {"notices"}, {"yahoo"}}]
rsSettings == {rsPlain, rsHoles, rsRights, rsRange, rsDue, rsShares, rsShorter, rsBare, rsHalt,
               rsHoliday, rsOld, rsQueue, rsStarved}
rsNone == [rsPlain EXCEPT !.lastDate = 0, !.due = {}]

mcResearchSettings == rsSettings \cup {rsNone}
ASSUME ResearchAssumption == ResearchBounds

VARIABLE track  \* the track the behaviour is about

-----------------------------------------------------------------------------
\* A track at rest has nothing due, so that fairness asks nothing of it.
TracksInit ==
    /\ track \in {"holdings", "research"} /\ EtfInit /\ ResearchInit
    /\ (track = "holdings") = (etf # mcNoBooks)
    /\ (track = "research") = (world # rsNone)
TracksNext ==
    \/ track = "holdings" /\ EtfNext /\ UNCHANGED <<track, researchVars>>
    \/ track = "research" /\ ResearchNext /\ UNCHANGED <<track, etfVars>>
TracksSpec ==
    /\ TracksInit /\ [][TracksNext]_<<track, etfVars, researchVars>>
    /\ EtfFairness /\ ResearchFairness

-----------------------------------------------------------------------------
\* What the funds have published is stored some day, and the research validation
\* settles every window it can.
EverythingIsObserved == PublishedIsStored /\ EventuallyResearched
=============================================================================
