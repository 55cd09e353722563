---------------------------- MODULE MCRiskManager ----------------------------
(* RiskManager with the deployed thresholds and targets, in the scale of
   MCDashboard, over an oracle whose feeds move a little; and the oracle alone,
   over feeds that do whatever feeds may do.  The subject of a behaviour is
   chosen at its start. *)
EXTENDS RiskManager

CONSTANT RiskRounds     \* bound: rounds, outages and shutdowns while the risk is assessed

VARIABLE subject        \* "oracle" or "risk"

MCParams ==
    [deltaBand |-> 200, leverageBand |-> 2500, allocationBand |-> 500, minInterval |-> 1, maxCost |-> 50,
     carryHorizon |-> 720, volRef |-> 6000, fundingFloor |-> -500, minTrade |-> 100, minDeploy |-> 100,
     gasCost |-> 1, maxSlippage |-> 100]
MCLimits ==
    [leverage |-> 35000, delta |-> 500, liquidation |-> 2000, liquidationWarn |-> 3000, collateral |-> 40000,
     notional |-> 9600]
Thresholds(w, h, c) == [warn |-> w, high |-> h, critical |-> c]
MCConfig ==
    [LEVERAGE |-> Thresholds(25000, 35000, 50000), DELTA |-> Thresholds(200, 500, 1000),
     DRAWDOWN |-> Thresholds(200, 500, 1000), LIQUIDATION |-> Thresholds(3000, 2000, 1000),
     COLLATERAL |-> Thresholds(60000, 40000, 20000), EXPOSURE |-> Thresholds(8500, 9500, 10000),
     FUNDING |-> [warn |-> 0, high |-> -1000]]
MCBounds == [maxLeverage |-> 30000, hedgeRatio |-> 9000..11000, minReserve |-> 500, maxReserve |-> 9000]
MCTargetSets == {[leverage |-> 20000, hedgeRatio |-> 10000, reserve |-> 1000, defensiveReserve |-> 7000]}
\* What the theorems suppose of the configuration.
ASSUME SharpConfig

MCOpenPlan == [longUsdDelta |-> 6000, marginDelta |-> 3000, hedgeRatioBps |-> 10000, slip |-> 100]
MCFundings == {1000, -1000}
MCLiquidity == {[usdc |-> 90000, weth |-> 90000]}

(* The oracle alone: nobody has invested, and nobody has poked it. *)
Undeployed ==
    /\ OracleInit
    /\ env = [price |-> 1000, mark |-> 1000, healthy |-> TRUE, feed |-> TRUE, lending |-> TRUE,
              dex |-> TRUE, paused |-> FALSE, liquid |-> [usdc |-> 90000, weth |-> 90000], funding |-> 1000]
    /\ book = EmptyBook(0) /\ shares = 0 /\ targets \in TargetSets
    /\ obs = FirstObservation /\ now = 0 /\ lastRebalanceAt = 0
    /\ upkept = "no" /\ calls = 0 /\ moves = 0
    /\ peakSharePrice = 0 /\ currentState = NORMAL
    /\ depositsPaused = FALSE /\ checked = FALSE /\ events = <<>>

EitherInit ==
    \/ subject = "oracle" /\ Undeployed
    \/ subject = "risk" /\ RiskInit

EitherNext ==
    \/ /\ subject = "oracle" /\ OracleNext
       /\ UNCHANGED <<subject, vars, shares, riskState, checked>>
    \/ subject = "risk" /\ RiskNext /\ oracleMoves' <= RiskRounds /\ UNCHANGED subject

EitherSpec == EitherInit /\ [][EitherNext]_<<subject, riskVars>>
=============================================================================
