-------------------------- MODULE MCStrategyManager --------------------------
(* StrategyManager on small instances: one ETH is 100 units of quantity, one
   dollar one unit of money, and ratios are percents; and what is reported of
   each of its books. *)
EXTENDS Reports

MCPlan(long, margin, ratio) ==
    [longUsdDelta |-> long, marginDelta |-> margin, hedgeRatioBps |-> ratio, slip |-> 10]

\* Opening, growing out of the reserve, shrinking with a release of margin
\* (which is profit on the short when the price fell), closing.
MCPlans == {MCPlan(2000, 1000, 100), MCPlan(600, 0, 100), MCPlan(-800, -900, 100), MCPlan(-6000, 0, 100)}

MCFundings == {70, -1600}
MCLiquidity == {[usdc |-> 9000, weth |-> 9000], [usdc |-> -700, weth |-> -500]}

MCFeesTaken == [mgmt |-> 7, perf |-> 11]
=============================================================================
