----------------------------- MODULE MCDashboard -----------------------------
(***************************************************************************)
(* RebalanceManager, and what the dashboard makes of it, on small           *)
(* instances: the deployed parameters in basis points; one WETH is 100      *)
(* units of quantity, one dollar one unit of money and 100 units of price,  *)
(* and amounts in dollars are scaled down to a vault of a few thousand.     *)
(***************************************************************************)
EXTENDS Dashboard

MCParams ==
    [deltaBand |-> 200, leverageBand |-> 2500, allocationBand |-> 500, minInterval |-> 1, maxCost |-> 50,
     carryHorizon |-> 720, volRef |-> 6000, fundingFloor |-> -500, minTrade |-> 100, minDeploy |-> 100,
     gasCost |-> 1, maxSlippage |-> 100]
MCLimits ==
    [leverage |-> 35000, delta |-> 500, liquidation |-> 2000, liquidationWarn |-> 3000, collateral |-> 40000,
     notional |-> 9600]
MCBounds == [maxLeverage |-> 30000, hedgeRatio |-> 9000..11000, minReserve |-> 500, maxReserve |-> 9000]

MCTargets(leverage, reserve, defensiveReserve) ==
    [leverage |-> leverage, hedgeRatio |-> 10000, reserve |-> reserve, defensiveReserve |-> defensiveReserve]
\* The deployed targets, others, and a pair of reserves that is refused.
MCTargetSets == {MCTargets(20000, 1000, 7000), MCTargets(25000, 500, 500), MCTargets(20000, 8000, 7000)}

\* The highest leverage the deployed bounds admit.
MCHighTarget == {MCTargets(30000, 1000, 7000)}

MCFundings == {1000, -800}
MCLiquidity == {[usdc |-> 90000, weth |-> 90000], [usdc |-> -800, weth |-> 90000]}
=============================================================================
