------------------------------ MODULE Dashboard ------------------------------
(***************************************************************************)
(* What the API and the pages tell of the rebalancer: strategyView and     *)
(* planView (backend/src/views.ts), the inputs of the estimate             *)
(* (api/service.ts), and the rebalancing page with its history, which is   *)
(* made of the events of performUpkeep.                                    *)
(***************************************************************************)
EXTENDS RebalanceManager

CONSTANT HistoryLimit    \* rows the pages ask of the history, which is the most the API gives

ASSUME DashboardAssumption == HistoryLimit \in Nat \ {0}

VARIABLE records    \* the Rebalanced events, in the order of their ids
allVars == <<vars, records>>

-----------------------------------------------------------------------------
(* What is read: the views of the API *)

planView(plan) ==
    [execute |-> plan.execute, urgent |-> plan.urgent, triggers |-> plan.triggers,
     sweepIdleUsd |-> plan.sweep, longUsdDelta |-> plan.long, marginDelta |-> plan.margin,
     estimatedCostUsd |-> plan.cost]

(* Funding a year against the floor, in floating point: nothing is cut off. *)
fundingBelowFloor == env.funding * 1095 < Params.fundingFloor * (FundingUnit \div BPS)

annualizedVol == annualizedVolBps(obs, env, now)

strategyView ==
    [targets |-> targets, bounds |-> Bounds, params |-> Params,
     effectiveLeverage |-> effectiveLeverageBps(targets, annualizedVol),
     annualizedVolBps |-> annualizedVol, defensive |-> fundingBelowFloor,
     lastRebalanceAt |-> lastRebalanceAt, rebalanceCount |-> Len(records),
     nextPlan |-> planView(previewRebalance)]

\* Mutant: the usual reserve is assumed, whatever the funding.
apyInputsCalm ==
    [targetLeverage |-> effectiveLeverageBps(targets, annualizedVol), reserveRatio |-> targets.reserve,
     hedgeRatio |-> targets.hedgeRatio]

(* The reserve, leverage and hedge that the estimated APY is for. *)
apyInputs ==
    [targetLeverage |-> effectiveLeverageBps(targets, annualizedVol),
     reserveRatio |-> IF fundingBelowFloor THEN Max2(targets.reserve, targets.defensiveReserve) ELSE targets.reserve,
     hedgeRatio |-> targets.hedgeRatio]

(* longPct of estimateApy, of a fund of x. *)
estimatedLong(i, x) == (((x * (BPS - i.reserveRatio)) \div BPS) * i.targetLeverage) \div (i.targetLeverage + i.hedgeRatio)

-----------------------------------------------------------------------------
(* What is shown *)

(* The plan on the strategy page, with the badge that tells what the keeper
   would do with it; and on the overview, with the mode. *)
badgeOf(plan) == IF ~plan.execute THEN "Hold" ELSE IF plan.urgent THEN "Urgent" ELSE "Execute"
NextPlanCard(v) ==
    [badge |-> badgeOf(v.nextPlan), triggers |-> v.nextPlan.triggers, long |-> v.nextPlan.longUsdDelta,
     margin |-> v.nextPlan.marginDelta, sweep |-> v.nextPlan.sweepIdleUsd, cost |-> v.nextPlan.estimatedCostUsd,
     rebalances |-> v.rebalanceCount, last |-> v.lastRebalanceAt]
RebalancePlanCard(v) ==
    [badge |-> badgeOf(v.nextPlan), chips |-> v.nextPlan.triggers \cup (IF v.defensive THEN {"DEFENSIVE"} ELSE {}),
     long |-> v.nextPlan.longUsdDelta, margin |-> v.nextPlan.marginDelta, sweep |-> v.nextPlan.sweepIdleUsd,
     cost |-> v.nextPlan.estimatedCostUsd, last |-> v.lastRebalanceAt, number |-> v.rebalanceCount]

\* Mutant: the oldest rows up to the limit, as the table holds them.
rebalanceHistoryOldest == [i \in 1..Min2(Len(records), HistoryLimit) |-> records[i]]

(* The history: of the rows the newest up to the limit, newest first; its rows
   on the rebalancing page, and what the summary makes of them. *)
rebalanceHistory == [i \in 1..Min2(Len(records), HistoryLimit) |-> records[(Len(records) - i) + 1]]
\* What the query leaves out.
olderHistory ==
    [i \in 1..(Len(records) - Len(rebalanceHistory)) |->
        records[((Len(records) - Len(rebalanceHistory)) - i) + 1]]
HistoryRow(r) ==
    [at |-> r.ts, badge |-> IF r.urgent THEN "Urgent" ELSE "Execute", triggers |-> r.triggers,
     long |-> r.longUsdDelta, margin |-> r.marginDelta, perpSizeChange |-> r.perpSizeChange,
     delta |-> <<r.preDeltaBps, r.postDeltaBps>>, leverage |-> <<r.preLeverage, r.postLeverage>>,
     cost |-> r.estimatedCost, realised |-> r.realizedCost]
HistoryTable(list) == [i \in DOMAIN list |-> HistoryRow(list[i])]
Summary(list) ==
    [rebalances |-> Len(list), urgent |-> Cardinality({i \in DOMAIN list : list[i].urgent}),
     realised |-> FoldLeft(LAMBDA sum, r : sum + r.realizedCost, 0, list),
     estimated |-> FoldLeft(LAMBDA sum, r : sum + r.estimatedCost, 0, list),
     span |-> IF Len(list) > 1 THEN list[1].ts - list[Len(list)].ts ELSE 0]

-----------------------------------------------------------------------------
(* What is recorded *)

deltaBps(s) == IF s.totalNav = 0 THEN 0 ELSE mulDivSigned(netDeltaUsd(s), BPS, s.totalNav)

_record(plan, b, pre, post) ==
    [ts |-> now, triggers |-> plan.triggers, urgent |-> plan.urgent, traded |-> trades(plan),
     longUsdDelta |-> plan.long, marginDelta |-> plan.margin,
     perpSizeChange |-> b.size - book.size,
     preDeltaBps |-> deltaBps(pre), postDeltaBps |-> deltaBps(post),
     preLeverage |-> _leverage(pre), postLeverage |-> _leverage(post),
     estimatedCost |-> plan.cost, realizedCost |-> costs(b) - costs(book)]

Rebalances ==
    /\ performUpkeep
    /\ \E plan \in {planWith(observed)} : \E b \in {afterPlan(plan)} :
          records' = Append(records, _record(plan, b, snapshot(book, env), snapshot(b, env)))

Others ==
    /\ \/ observeVolatility \/ setTargets
       \/ Deposit \/ PriceMoves \/ FundingMoves \/ LiquidityMoves
       \/ OracleFails \/ OracleReturns \/ Pauses \/ Liquidation
    /\ records' = records

DashboardInit == Init /\ records = <<>>

DashboardNext == Rebalances \/ Others

DashboardSpec == DashboardInit /\ [][DashboardNext]_allVars

-----------------------------------------------------------------------------
(* What the strategy page showed as the next plan is, line by line, what the
   newest row of the history tells of the upkeep: what it did not hold back,
   the triggers, the trades, the estimate, and whether it was urgent. *)
HistoryTellsThePlan ==
    records' # records =>
    \A card \in {NextPlanCard(strategyView)} : \A table \in {HistoryTable(rebalanceHistory')} :
        /\ table[1].badge = card.badge /\ table[1].triggers = card.triggers
        /\ table[1].long = card.long /\ table[1].margin = card.margin /\ table[1].cost = card.cost
        /\ Len(table) = Min2(card.rebalances + 1, HistoryLimit)

(* Two trades that the keeper was not urged to are at least the shortest
   interval apart, sweeps in between or not: the second of them may not start
   earlier, however the observations, the targets and the market moved. *)
traded(i) == records[i].traded
CadenceIsKept ==
    \A i, j \in DOMAIN records :
        i < j /\ traded(i) /\ traded(j) /\ ~records[j].urgent
        => records[j].ts >= records[i].ts + Params.minInterval

(* "Last rebalance" of the overview is the newest entry of the history that
   traded: neither a sweep of idle cash nor an observation makes it younger, and
   it is never when there is none. *)
LastRebalanceIsATrade ==
    RebalancePlanCard(strategyView).last =
        IF \E i \in DOMAIN records : traded(i)
        THEN records[CHOOSE i \in DOMAIN records :
                        traded(i) /\ \A j \in DOMAIN records : traded(j) => j <= i].ts
        ELSE 0

(* The allocation the expected APY is computed for is the one that the keeper
   brings about: right after an upkeep that moved the long leg, with a reserve
   that could pay for it, the leg is the estimate's but for the allocation band
   and the smallest trade. *)
LongWasMoved == upkept = "traded" /\ records[Len(records)].longUsdDelta # 0
EstimateIsHeld ==
    LongWasMoved /\ env.liquid.usdc >= 0 =>
    \A s \in {snapshot(book, env)} : \A i \in {apyInputs} :
        abs(estimatedLong(i, s.totalNav) - s.longValue)
        <= Max2((s.totalNav * Params.allocationBand) \div BPS, Params.minTrade)

(* The costs the books bear are told: but for what the rows beyond the limit of
   the query would tell, the realised costs the summary adds up are those of all
   that was traded, whatever was liquidated in between.  As long as the history
   fits one page, that is every cost. *)
CostsAreTold ==
    Summary(rebalanceHistory).realised + Summary(olderHistory).realised = costs(book)

(* A plan that is due and funded goes through, leaves nothing that is due
   again, and ends in the allocation the estimate is for. *)
PlansWork == FundedIsPerformed /\ NoChurn /\ EstimateIsHeld

(* The history is a true account: its trades keep the interval, and the newest
   of them is the last rebalance. *)
HistoryIsTrue == CadenceIsKept /\ LastRebalanceIsATrade

(* An upkeep does what was shown: recording the volatility first changes
   nothing, the history tells the plan that was on the page, and a sweep does
   nothing but sweep. *)
UpkeepAsShown == [][PlanSurvivesObservation /\ HistoryTellsThePlan /\ SweepsAreFree]_allVars

(* The costs a plan was estimated at cover what it costs, and all of that is
   told. *)
CostsAreRight == [][EstimateCoversCost /\ CostsAreTold]_allVars
=============================================================================
