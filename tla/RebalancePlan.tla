----------------------------- MODULE RebalancePlan -----------------------------
(***************************************************************************)
(* What RebalanceManager.sol decides: the triggers, the trades a plan makes *)
(* of them, what they are estimated to cost, and the checks a rebalance has *)
(* to pass afterwards (RiskManager.validateRebalance).                      *)
(*                                                                          *)
(* s is PositionManager.snapshot(), c the context of a plan, p the          *)
(* parameters, t the targets.  Time is in hours.                            *)
(***************************************************************************)
EXTENDS StrategyBook, SequencesExt

CONSTANTS
    Params,         \* the planner's parameters
    Limits,         \* of RiskManager: hard limits, the liquidation warning, the largest position
    LeverageFloor,  \* bounds.minLeverageBps
    UsdcRate, WethRate  \* lending rates a year, in AprUnit

PlanAssumption ==
    /\ Params \in [deltaBand : 1..BPS, leverageBand : 1..(BPS - 1), allocationBand : 1..BPS,
                   minInterval : Nat, maxCost : Nat, carryHorizon : Nat \ {0}, volRef : Nat \ {0},
                   fundingFloor : Int, minTrade : Nat, minDeploy : Nat, gasCost : Nat, maxSlippage : 0..BPS]
    /\ Limits \in [leverage : Nat, delta : Nat, liquidation : Nat, liquidationWarn : Nat, collateral : Nat,
                    notional : Nat \ {0}]
    /\ LeverageFloor \in Nat \ {0} /\ UsdcRate \in Nat /\ WethRate \in Nat
ASSUME PlanAssumption

Hour == 1
YearHours == 8760
VarUnit == 1000             \* of a variance and of a return; 1e18 in the source
AprUnit == 100000          \* of a yearly rate
FundingUnit == 10000000     \* of a rate per eight hours
Infinite == 1000000000

Max2(a, b) == IF a >= b THEN a ELSE b

(* Signed division of Solidity. *)
Truncate(a, d) == IF a >= 0 THEN a \div d ELSE -((-a) \div d)

-----------------------------------------------------------------------------
(* Volatility: o is [var, price, at], the last observation *)

projectedVariance(o, price, now) ==
    LET dt == now - o.at
        r == (abs(price - o.price) * VarUnit) \div o.price
        sampleVar == (((r * r) \div VarUnit) * YearHours) \div dt
    IN  IF o.price = 0 \/ price = 0 \/ dt < Hour THEN o.var
        ELSE (o.var * 94) \div 100 + (sampleVar * 6) \div 100

observe(o, price, now) ==
    IF o.price # 0 /\ now - o.at < Hour THEN o
    ELSE [var |-> projectedVariance(o, price, now), price |-> price, at |-> now]

(* Square root, bit by bit: four of them, and all sixteen. *)
withBit(x, r, bit) == IF r + bit <= x \div (r + bit) THEN r + bit ELSE r
withBits(x, r, bit) == withBit(x, withBit(x, withBit(x, withBit(x, r, 8 * bit), 4 * bit), 2 * bit), bit)
sqrt(x) == withBits(x, withBits(x, withBits(x, withBits(x, 0, 4096), 256), 16), 1)

\* Mutant: the observation that is due now is not included.
annualizedVolRecorded(o, e, now) == (sqrt(o.var * VarUnit) * BPS) \div VarUnit

annualizedVolBps(o, e, now) ==
    (sqrt(projectedVariance(o, IF e.healthy THEN e.price ELSE 0, now) * VarUnit) * BPS) \div VarUnit

effectiveLeverageBps(t, vol) ==
    Max2(IF vol > Params.volRef THEN (t.leverage * Params.volRef) \div vol ELSE t.leverage, LeverageFloor)

scaledBand(vol) ==
    IF vol <= Params.volRef THEN Params.deltaBand
    ELSE Max2((Params.deltaBand * Params.volRef) \div vol, Params.deltaBand \div 4)

-----------------------------------------------------------------------------
(* PositionManager.snapshot, with the vault's idle cash.  While the venue does
   not answer, the mark is the oracle's price, and the margin is read unsigned. *)

readMargin(b, e) == IF e.feed THEN b.margin ELSE Pos(b.margin)

snapshot(b, e) ==
    [totalNav |-> b.vault + strategyNav(b, e), vaultIdle |-> b.vault, strategyFloat |-> b.float,
     longQty |-> wethHeld(b, e), longValue |-> longValue(b, e), reserve |-> readBalance(b.usdc, e),
     perpSize |-> b.size, shortNotional |-> notional(b.size, readMark(e)), perpEquity |-> Pos(rawEquity(b, e)),
     maintenanceMargin |-> marginReq(b.size, readMark(e), MMR), markPrice |-> readMark(e),
     liquidationPrice |-> liquidationPrice(b.size, b.entry, readMargin(b, e) + readPending(b, e), MMR),
     price |-> e.price, priceHealthy |-> e.healthy, funding |-> e.funding]

_leverage(s) ==
    IF s.perpSize = 0 THEN 0 ELSE IF s.perpEquity = 0 THEN Infinite
    ELSE (s.shortNotional * BPS) \div s.perpEquity

netDeltaUsd(s) == mulDivSigned(s.longQty + s.perpSize, s.price, Q)
absDeltaBps(s) == IF s.totalNav <= 0 THEN 0 ELSE abs(mulDivSigned(netDeltaUsd(s), BPS, s.totalNav))
liquidationDistance(s) == distanceBps(s.markPrice, s.liquidationPrice, s.perpSize)
collateralRatio(s) ==
    IF s.maintenanceMargin = 0 THEN Infinite ELSE (s.perpEquity * BPS) \div s.maintenanceMargin

fundingAprBps(rate) == Truncate(rate * 1095, FundingUnit \div BPS)

-----------------------------------------------------------------------------
(* _context *)

defensive(s) == fundingAprBps(s.funding) < Params.fundingFloor
reserveBps(s, t) == IF defensive(s) THEN Max2(t.reserve, t.defensiveReserve) ELSE t.reserve

context(s, t, vol, lev) ==
    [lev |-> lev, h |-> t.hedgeRatio, defensive |-> defensive(s),
     targetLong |-> (((s.totalNav * (BPS - reserveBps(s, t))) \div BPS) * lev) \div (lev + t.hedgeRatio),
     curLev |-> _leverage(s), absDelta |-> absDeltaBps(s), deltaBand |-> scaledBand(vol),
     liqDist |-> liquidationDistance(s)]

(* _triggers: which of them fire.  An allocation that drifted counts as
   defensive deleveraging too when funding asks for less. *)
drifted(s, c) ==
    LET drift == abs(c.targetLong - s.longValue)
    IN  drift > (s.totalNav * Params.allocationBand) \div BPS /\ drift >= Params.minTrade

leverageHigh(s, c) == s.perpSize # 0 /\ c.curLev > (c.lev * (BPS + Params.leverageBand)) \div BPS
leverageLow(s, c) == s.perpSize # 0 /\ c.curLev < (c.lev * (BPS - Params.leverageBand)) \div BPS
toDeploy(s) == s.vaultIdle >= Params.minDeploy /\ s.vaultIdle > 0

fires(s, c) ==
    [DELTA |-> c.absDelta > c.deltaBand,
     LEVERAGE_HIGH |-> leverageHigh(s, c), LEVERAGE_LOW |-> leverageLow(s, c),
     ALLOCATION |-> drifted(s, c),
     FUNDING_DEFENSIVE |-> drifted(s, c) /\ c.defensive /\ s.longValue > c.targetLong,
     IDLE |-> toDeploy(s),
     LIQUIDATION |-> s.perpSize # 0 /\ c.liqDist < Limits.liquidationWarn]
triggersOf(f) == {x \in DOMAIN f : f[x]}

isUrgent(c, triggers) ==
    "LIQUIDATION" \in triggers \/ c.curLev > Limits.leverage \/ c.absDelta > Limits.delta

-----------------------------------------------------------------------------
(* _sizeTrades *)

(* An amount below the smallest trade is not traded. *)
worthwhile(d) == IF abs(d) >= Params.minTrade THEN d ELSE 0

marginFor(long, c) == (((long * c.h) \div BPS) * BPS) \div c.lev

wantedLong(s, c, triggers, urgent) ==
    IF "ALLOCATION" \in triggers \/ urgent THEN worthwhile(c.targetLong - s.longValue) ELSE 0

cashFor(s, reserve, dL) == reserve + s.strategyFloat + s.vaultIdle + Pos(-dL)

(* The largest purchase the cash can pay for, with its margin. *)
longWithin(s, c, dL, cash) ==
    IF dL <= 0 \/ dL + marginFor(dL, c) + marginFor(s.longValue, c) - s.perpEquity <= cash THEN dL
    ELSE worthwhile((Pos(cash + s.perpEquity - marginFor(s.longValue, c)) * c.lev) \div (c.lev + c.h))

\* Mutant: a leverage that is too low is reported but not corrected.
resizesHigh(s, triggers, urgent, newLong) ==
    \/ triggers \cap {"LEVERAGE_HIGH", "ALLOCATION", "LIQUIDATION"} # {}
    \/ urgent \/ (s.perpSize = 0 /\ newLong > 0)

resizes(s, triggers, urgent, newLong) ==
    \/ triggers \cap {"LEVERAGE_HIGH", "LEVERAGE_LOW", "ALLOCATION", "LIQUIDATION"} # {}
    \/ urgent \/ (s.perpSize = 0 /\ newLong > 0)

_sizeMargin(s, c, triggers, urgent, newLong) ==
    IF resizes(s, triggers, urgent, newLong) THEN worthwhile(marginFor(newLong, c) - s.perpEquity) ELSE 0

Sized(plan, dL, margin, cash) ==
    [plan EXCEPT !.long = dL, !.margin = IF margin > 0 THEN Min2(margin, Pos(cash - Pos(dL))) ELSE margin]
SizedFor(s, c, plan, dL, cash) ==
    Sized(plan, dL, _sizeMargin(s, c, plan.triggers, plan.urgent, s.longValue + dL), cash)
SizedWithin(s, c, plan, dL, cash) == SizedFor(s, c, plan, longWithin(s, c, dL, cash), cash)
SizedWanted(s, c, plan, reserve, dL) == SizedWithin(s, c, plan, dL, cashFor(s, reserve, dL))
_sizeTrades(s, c, plan, reserve) ==
    SizedWanted(s, c, plan, reserve, wantedLong(s, c, plan.triggers, plan.urgent))

-----------------------------------------------------------------------------
(* _estimateCost, from quotes of the venues *)

(* The change of the long's quantity, and what the swap costs. *)
SwapEstimate(s, dL, out) ==
    IF dL > 0 THEN [qty |-> out, cost |-> Pos(dL - (out * s.price) \div Q)]
    ELSE LET qty == Min2((-dL * Q) \div s.price, s.longQty)
         IN  [qty |-> -qty, cost |-> IF qty = 0 THEN 0 ELSE Pos((qty * s.price) \div Q - out)]
quoted(s, dL) ==
    IF dL = 0 THEN [qty |-> 0, cost |-> 0]
    ELSE SwapEstimate(s, dL, IF dL > 0 THEN quoteBuy(dL, s.markPrice)
                             ELSE quoteSell(Min2((-dL * Q) \div s.price, s.longQty), s.markPrice))

HedgeAt(s, delta, p) == notional(delta, abs(p - s.markPrice)) + (notional(delta, p) * FEE) \div BPS
HedgeEstimate(s, delta) == IF delta = 0 THEN 0 ELSE HedgeAt(s, delta, execPrice(delta, s.markPrice))
\* Mutant: the hedge trade is not part of the estimate.
CostOfSwap(s, swap, h) == Params.gasCost + swap.cost

CostOf(s, swap, h) ==
    Params.gasCost + swap.cost + HedgeEstimate(s, -mulDivSigned(s.longQty + swap.qty, h, BPS) - s.perpSize)
_estimateCost(s, plan) == CostOf(s, quoted(s, plan.long), plan.h)

(* What moving dL from the reserve into the basis trade earns in the horizon. *)
carryRate(s, c) ==
    WethRate + Truncate(Truncate(s.funding * 1095, FundingUnit \div AprUnit) * c.h, BPS)
    - (UsdcRate * (BPS + (c.h * BPS) \div c.lev)) \div BPS
_carryPaysForCost(s, c, plan) ==
    mulDivSigned(Truncate(plan.long * carryRate(s, c), AprUnit), Params.carryHorizon, YearHours) > plan.cost

-----------------------------------------------------------------------------
(* _plan *)

NoPlan ==
    [execute |-> FALSE, urgent |-> FALSE, triggers |-> {}, sweep |-> 0, long |-> 0, margin |-> 0, cost |-> 0,
     h |-> 0]

_sweepOnly(plan) ==
    [plan EXCEPT !.long = 0, !.margin = 0, !.cost = 0, !.triggers = @ \cap {"IDLE"},
                 !.execute = "IDLE" \in plan.triggers]

Costed(s, plan) == [plan EXCEPT !.cost = _estimateCost(s, plan)]

\* Mutant: an allocation drift that is not traded still moves margin.
ReleveredAnyway(s, c, plan) ==
    [plan EXCEPT !.long = 0, !.margin = _sizeMargin(s, c, plan.triggers, plan.urgent, s.longValue)]

(* The purchase does not pay for itself: only the parts that are about risk
   are left of the plan. *)
ReleverRefused(s, c, plan) ==
    [plan EXCEPT !.long = 0,
       !.margin = IF plan.triggers \cap {"LEVERAGE_HIGH", "LEVERAGE_LOW", "LIQUIDATION"} # {}
                  THEN _sizeMargin(s, c, plan.triggers, plan.urgent, s.longValue) ELSE 0]
RiskParts(plan) ==
    IF plan.triggers \cap {"DELTA", "LEVERAGE_HIGH", "LEVERAGE_LOW"} = {} /\ plan.margin = 0
    THEN _sweepOnly(plan) ELSE plan

Filtered(s, c, plan) ==
    IF plan.urgent THEN plan
    ELSE IF plan.cost > (s.totalNav * Params.maxCost) \div BPS THEN _sweepOnly(plan)
    ELSE IF plan.long > 0 /\ ~_carryPaysForCost(s, c, plan)
    THEN RiskParts(Costed(s, ReleverRefused(s, c, plan)))
    ELSE plan

\* Mutant: an urgent plan waits for the interval as well.
PlannedCooling(s, c, plan, reserve, cooling) ==
    IF cooling THEN _sweepOnly(plan)
    ELSE Filtered(s, c, Costed(s, _sizeTrades(s, c, plan, reserve)))

Planned(s, c, plan, reserve, cooling) ==
    IF cooling /\ ~plan.urgent THEN _sweepOnly(plan)
    ELSE Filtered(s, c, Costed(s, _sizeTrades(s, c, plan, reserve)))

PlanFor(s, c, triggers, reserve, cooling) ==
    IF triggers = {} THEN NoPlan
    ELSE Planned(s, c, [NoPlan EXCEPT !.execute = TRUE, !.triggers = triggers, !.h = c.h, !.sweep = s.vaultIdle,
                                      !.urgent = isUrgent(c, triggers)], reserve, cooling)
PlanIn(s, c, reserve, cooling) == PlanFor(s, c, triggersOf(fires(s, c)), reserve, cooling)
PlanAt(s, t, vol, reserve, cooling) == PlanIn(s, context(s, t, vol, effectiveLeverageBps(t, vol)), reserve, cooling)

_plan(s, t, vol, reserve, cooling, paused) ==
    IF ~s.priceHealthy \/ s.totalNav <= 0 \/ paused THEN NoPlan ELSE PlanAt(s, t, vol, reserve, cooling)

trades(plan) == plan.long # 0 \/ plan.margin # 0 \/ plan.triggers \ {"IDLE"} # {}

-----------------------------------------------------------------------------
(* RiskManager.validateRebalance: a metric may end beyond its limit only if
   the rebalance improved it. *)
metricsOf(s) ==
    [leverage |-> _leverage(s), delta |-> absDeltaBps(s), liquidation |-> liquidationDistance(s),
     collateral |-> collateralRatio(s), notional |-> s.shortNotional]

breached(a, b) ==
    \/ b.leverage > Limits.leverage /\ b.leverage >= a.leverage
    \/ b.delta > Limits.delta /\ b.delta >= a.delta
    \/ b.liquidation < Limits.liquidation /\ b.liquidation <= a.liquidation
    \/ b.collateral < Limits.collateral /\ b.collateral <= a.collateral
    \/ b.notional > Limits.notional /\ b.notional >= a.notional
=============================================================================
