----------------------------- MODULE MCOffchain ------------------------------
(***************************************************************************)
(* What answers the user off the chain: the pages of MCPages and the        *)
(* simulator, one part of it at a time: the loop on paths chosen point by   *)
(* point, the scenario catalogue with four custom scenarios, and the grid   *)
(* search of optimizer.ts:202-203.  The default strategy and a book of      *)
(* 50,000 USD, in the units of SimModel.  What a behaviour is not about     *)
(* rests in one initial state.                                              *)
(***************************************************************************)
EXTENDS SimExperiments, MCPages

MCVenues ==
    [perpTakerFeeBps |-> 5, perpSpreadBps |-> 2, perpDepthUsd |-> 1000000000, perpMaxImpactBps |-> 200,
     initialMarginBps |-> 1000, maintenanceMarginBps |-> 500, liquidationPenaltyBps |-> 100,
     dexFeeBps |-> 5, dexSpreadBps |-> 2, dexDepthUsd |-> 500000000, dexMaxImpactBps |-> 500,
     usdcRates |-> [base |-> 0, slope1 |-> 800, slope2 |-> 6000, optimal |-> 9000, reserveFactor |-> 1000],
     wethRates |-> [base |-> 0, slope1 |-> 500, slope2 |-> 8000, optimal |-> 8000, reserveFactor |-> 1500]]

MCShallow ==
    [MCVenues EXCEPT !.perpDepthUsd = @ \div 200, !.dexDepthUsd = @ \div 200,
                     !.perpSpreadBps = 20, !.dexSpreadBps = 20]

MCcfg ==
    [targetLeverageBps |-> 20000, hedgeRatioBps |-> 10000, reserveBps |-> 1000, defensiveReserveBps |-> 7000,
     minLeverageBps |-> 10000, deltaBandBps |-> 200, leverageBandBps |-> 2500, allocationBandBps |-> 500,
     minInterval |-> 3, maxCostBps |-> 50, carryHorizon |-> 720, volRef |-> 60,
     fundingFloorAprBps |-> -500, minTradeUsd |-> 1000, minDeployUsd |-> 1000, gasCostUsd |-> 5,
     managementFeeBps |-> 50, performanceFeeBps |-> 1000,
     liquidationWarn |-> 3000, leverageHigh |-> 35000, deltaHigh |-> 500]

MCBase ==
    [time |-> 0, price |-> 30000, funding |-> 10, usdcUtilization |-> 8000, wethUtilization |-> 6000,
     healthy |-> TRUE, venues |-> MCVenues]

(* Points of a path: four prices and two funding rates, the oracle up or down. *)
MCMarkets ==
    {[MCBase EXCEPT !.price = x, !.funding = f, !.healthy = h] :
        x \in {16000, 30000, 36000, 46000}, f \in {10, -30}, h \in BOOLEAN}
MCStarts == {x \in MCMarkets : x.price = 30000}

MCCustom ==
    {custom(-25, 3, 14, [NoOverrides EXCEPT !.funding = {-10}, !.liquidity = 1]),
     custom(40, 2, 7, [NoOverrides EXCEPT !.outage = 4]),
     custom(30, 10, 5, [NoOverrides EXCEPT !.usdcUtilization = {9500}, !.wethUtilization = {500}]),
     custom(-30, 0, 3, [NoOverrides EXCEPT !.funding = {20}, !.outage = 1])}

MCLeverages == [k \in 1..9 |-> 7500 + 2500 * k]
MCReserves == [k \in 1..10 |-> 500 * k]

(* Quiet and stressed markets. *)
MCInputs ==
    [usdcApr : {100, 512}, wethApr : {191}, funding : {-10, 2, 10}, vol : {40, 60, 90, 150},
     lev : {20000}, res : {1000}]

-----------------------------------------------------------------------------
NoScenario == [id |-> "none", days |-> 0]

EngineRests == m = Base /\ rebalancing = TRUE /\ Begins
ScenarioRests == scenario = NoScenario /\ results = <<>>
OptimizerRests == OptimizerInit /\ base = CHOOSE b \in Inputs : TRUE
SimulatorRests == EngineRests /\ ScenarioRests /\ OptimizerRests

EitherInit ==
    \/ PagesInit /\ SimulatorRests
    \/ subject = "engine" /\ PagesRest /\ EngineInit /\ ScenarioRests /\ OptimizerRests
    \/ subject = "scenarios" /\ PagesRest /\ ScenarioInit /\ OptimizerRests
    \/ subject = "optimizer" /\ PagesRest /\ OptimizerInit /\ EngineRests /\ ScenarioRests

EitherNext ==
    \/ PagesNext /\ UNCHANGED <<scenarioVars, optimizerVars>>
    \/ /\ subject = "engine" /\ EngineNext
       /\ UNCHANGED <<subject, pagesVars, scenario, results, optimizerVars>>
    \/ /\ subject = "scenarios" /\ runScenario
       /\ UNCHANGED <<subject, pagesVars, optimizerVars>>
    \/ /\ subject = "optimizer" /\ OptimizerNext
       /\ UNCHANGED <<subject, pagesVars, scenarioVars>>

EitherSpec ==
    EitherInit /\ [][EitherNext]_<<subject, pagesVars, scenarioVars, optimizerVars>> /\ PagesFairness

(* The loop's book adds up, the scenarios end as the documentation tells, and
   the search answers with the best feasible point. *)
SimulationHolds ==
    /\ subject = "engine" => BookHolds
    /\ subject = "scenarios" => ScenariosHold
    /\ subject = "optimizer" => SearchHolds

(* Every step of a run treats the book as it should. *)
KeeperActsRightly == [][rebalancing' = rebalancing => StepsAreRight]_engineVars
=============================================================================
