------------------------------ MODULE SimEngine ------------------------------
(***************************************************************************)
(* The simulation loop (simulator/src/engine.ts): a book is deployed once,  *)
(* then each point of the market path accrues, may liquidate, lets the      *)
(* keeper plan and trade, accrues the vault's fees and is recorded.  The    *)
(* path is chosen one point at a time from Markets.                         *)
(***************************************************************************)
EXTENDS SimModel

CONSTANTS
    tvl,            \* opts.tvl, USD
    cfg,            \* opts.cfg
    keeperEvery,    \* opts.keeperIntervalSec, hours
    feeEvery,       \* opts.feeIntervalSec, hours
    Starts,         \* what the first point of the path may be
    Markets,        \* what a later point may be, its time aside
    Gaps,           \* hours from a point of the path to the next
    MaxSteps        \* bound: points after the first

VARIABLES
    p,              \* the book
    m,              \* the current point of the path
    pc,             \* the next step of the loop's body
    rebalancing,    \* opts.rebalancing
    lastKeeper, lastFee,
    rebalanced, liquidated,   \* in this iteration
    stats,          \* the extremes kept over all points
    triggerCounts, costByTrigger,
    steps           \* i

engineVars == <<p, m, pc, rebalancing, lastKeeper, lastFee, rebalanced, liquidated, stats,
                triggerCounts, costByTrigger, steps>>

Trigger == {"DELTA", "LEVERAGE_HIGH", "LEVERAGE_LOW", "ALLOCATION", "IDLE", "LIQUIDATION", "FUNDING_DEFENSIVE"}

(* The most risk-relevant trigger of a plan. *)
primaryTrigger(triggers) ==
    LET order == <<"LIQUIDATION", "DELTA", "FUNDING_DEFENSIVE", "LEVERAGE_HIGH", "LEVERAGE_LOW",
                   "ALLOCATION", "IDLE">>
        first == {i \in 1..7 : order[i] \in triggers}
    IN  IF first = {} THEN "NONE" ELSE order[CHOOSE i \in first : \A j \in first : i <= j]

opened(new, first, m0) ==
    [p |-> IF first.execute THEN executePlan(new, first, m0, cfg).p ELSE new, rebalanced |-> first.execute]

deployed(new, m0) == opened(new, planRebalance(new, m0, cfg), m0)

(* A book as it is opened. *)
Opened(m0) == deployed(observeVolatility(newPortfolio(tvl, m0.time, cfg.volRef), m0), m0)

(* The loop at the first point of the path. *)
Begins ==
    /\ \E o \in {Opened(m)} : p = o.p /\ rebalanced = o.rebalanced
    /\ liquidated = FALSE
    /\ pc = "push"
    /\ lastKeeper = m.time /\ lastFee = m.time
    /\ stats = [peak |-> valuation(p, m).sharePrice, maxDd |-> 0, maxAbsDelta |-> 0,
                minLiq |-> Null, maxLev |-> 0]
    /\ triggerCounts = [t \in Trigger |-> 0]
    /\ costByTrigger = [t \in Trigger |-> 0]
    /\ steps = 0

EngineInit == m \in Starts /\ rebalancing \in BOOLEAN /\ Begins

-----------------------------------------------------------------------------
(* The body of the loop *)

(* To the next point: interest and funding at the rates of the interval that
   ends, and at the new price. *)
Accrue(next) ==
    LET over == [next EXCEPT !.funding = m.funding, !.usdcUtilization = m.usdcUtilization,
                             !.wethUtilization = m.wethUtilization, !.venues = m.venues]
    IN  /\ pc = "accrue"
        /\ p' = accrue(p, over, next.time - m.time)
        /\ m' = next
        /\ steps' = steps + 1
        /\ liquidated' = FALSE /\ rebalanced' = FALSE
        /\ pc' = "liquidate"
        /\ UNCHANGED <<rebalancing, lastKeeper, lastFee, stats, triggerCounts, costByTrigger>>

Liquidate ==
    /\ pc = "liquidate"
    /\ liquidated' = isLiquidatable(p, m)
    /\ p' = IF liquidated' THEN liquidate(p, m) ELSE p
    /\ pc' = "keeper"
    /\ UNCHANGED <<m, rebalancing, lastKeeper, lastFee, rebalanced, stats, triggerCounts, costByTrigger,
                   steps>>

NotDue ==
    /\ pc = "keeper"
    /\ m.time - lastKeeper < keeperEvery
    /\ pc' = "fees"
    /\ UNCHANGED <<p, m, rebalancing, lastKeeper, lastFee, rebalanced, liquidated, stats,
                   triggerCounts, costByTrigger, steps>>

KeeperRuns == pc = "keeper" /\ m.time - lastKeeper >= keeperEvery

\* Mutant: the keeper trades on whatever price there is.
SitOutTrading ==
    /\ KeeperRuns /\ ~m.healthy
    /\ lastKeeper' = m.time
    /\ LET seen == [m EXCEPT !.healthy = TRUE]
           plan == planRebalance(p, seen, cfg)
       IN  p' = IF plan.execute THEN executePlan(p, plan, m, cfg).p ELSE p
    /\ pc' = "fees"
    /\ UNCHANGED <<m, rebalancing, lastFee, rebalanced, liquidated, stats, triggerCounts, costByTrigger,
                   steps>>

(* No trade on an unhealthy oracle; the run is spent. *)
SitOut ==
    /\ KeeperRuns /\ ~m.healthy
    /\ lastKeeper' = m.time
    /\ pc' = "fees"
    /\ UNCHANGED <<p, m, rebalancing, lastFee, rebalanced, liquidated, stats, triggerCounts, costByTrigger,
                   steps>>

Trade(plan, observed) ==
    \E done \in {executePlan(observed, plan, m, cfg)} :
        /\ p' = done.p
        /\ triggerCounts' = [t \in Trigger |-> triggerCounts[t] + IF t \in plan.triggers THEN 1 ELSE 0]
        /\ costByTrigger' = [costByTrigger EXCEPT ![primaryTrigger(plan.triggers)] = @ + done.cost]

(* The keeper observes the price; it plans and trades unless it is offline. *)
Keep ==
    /\ KeeperRuns /\ m.healthy
    /\ lastKeeper' = m.time
    /\ \E observed \in {observeVolatility(p, m)} : \E plan \in {planRebalance(observed, m, cfg)} :
          /\ rebalanced' = (rebalancing /\ plan.execute)
          /\ IF rebalanced' THEN Trade(plan, observed)
             ELSE p' = observed /\ UNCHANGED <<triggerCounts, costByTrigger>>
    /\ pc' = "fees"
    /\ UNCHANGED <<m, rebalancing, lastFee, liquidated, stats, steps>>

\* Mutant: the time of the next accrual is stored instead of this one's.
FeesScheduled ==
    LET due == m.time - lastFee >= feeEvery /\ m.healthy
    IN  /\ pc = "fees"
        /\ p' = IF due THEN accrueFees(p, m, cfg) ELSE p
        /\ lastFee' = IF due THEN m.time + feeEvery ELSE lastFee
        /\ pc' = "push"
        /\ UNCHANGED <<m, rebalancing, lastKeeper, rebalanced, liquidated, stats, triggerCounts,
                       costByTrigger, steps>>

Fees ==
    LET due == m.time - lastFee >= feeEvery /\ m.healthy
    IN  /\ pc = "fees"
        /\ p' = IF due THEN accrueFees(p, m, cfg) ELSE p
        /\ lastFee' = IF due THEN m.time ELSE lastFee
        /\ pc' = "push"
        /\ UNCHANGED <<m, rebalancing, lastKeeper, rebalanced, liquidated, stats, triggerCounts,
                       costByTrigger, steps>>

extremes(v, peak) ==
    [peak |-> peak,
     maxDd |-> Max2(stats.maxDd, Div((peak - v.sharePrice) * BPS, peak)),
     maxAbsDelta |-> Max2(stats.maxAbsDelta, abs(v.deltaBps)),
     minLiq |-> IF v.liquidationDistance = Null THEN stats.minLiq
                ELSE IF stats.minLiq = Null THEN v.liquidationDistance
                ELSE Min2(stats.minLiq, v.liquidationDistance),
     maxLev |-> IF v.leverage = Infinity THEN stats.maxLev ELSE Max2(stats.maxLev, v.leverage)]

Push ==
    /\ pc = "push"
    /\ \E v \in {valuation(p, m)} : stats' = extremes(v, Max2(stats.peak, v.sharePrice))
    /\ pc' = "accrue"
    /\ UNCHANGED <<p, m, rebalancing, lastKeeper, lastFee, rebalanced, liquidated, triggerCounts,
                   costByTrigger, steps>>

Body == Liquidate \/ NotDue \/ SitOut \/ Keep \/ Fees \/ Push

NextPoint ==
    /\ steps < MaxSteps
    /\ \E next \in Markets, gap \in Gaps : Accrue([next EXCEPT !.time = m.time + gap])

PathEnds == pc = "accrue" /\ steps = MaxSteps /\ UNCHANGED engineVars

EngineNext == Body \/ NextPoint \/ PathEnds

EngineSpec == EngineInit /\ [][EngineNext]_engineVars

-----------------------------------------------------------------------------
(* Properties *)

Tolerance == 10   \* USD lost by truncation over a path of MaxSteps points

(* The types, the clocks of the keeper and of the fees, which are never ahead
   of the path, the depositors' shares, which the simulation never changes,
   and cash and WETH that are never negative (engine.ts:112-120). *)
EngineTypeOK ==
    /\ pc \in {"accrue", "liquidate", "keeper", "fees", "push"}
    /\ rebalancing \in BOOLEAN /\ rebalanced \in BOOLEAN /\ liquidated \in BOOLEAN
    /\ steps \in Nat
    /\ lastKeeper <= m.time /\ lastFee <= m.time
    /\ triggerCounts \in [Trigger -> 0..steps]
    /\ p.shares = tvl /\ p.feeShares >= 0 /\ p.capital = tvl
    /\ p.reserve >= 0 /\ p.idle >= 0 /\ p.weth >= 0

(* The profit attributed to its sources, costs included, explains the change
   of NAV, through any sequence of accruals, trades and liquidations: the
   residual of pnlBreakdown (model.ts:240) is truncation. *)
ResidualIsRounding == abs(residual(p, m)) <= Tolerance

(* One plan is enough: a book that was just rebalanced, however far the
   market had moved and whether or not it had been liquidated, gives no cause
   for an urgent plan at that price.  Were there one, the keeper would pay for
   trades at every run, its cooldown bypassed (planner.ts:122-127). *)
NoUrgencyLeft ==
    pc = "keeper" /\ rebalanced' =>
        \A c \in {Context(p', m, cfg)} : ~Urgent(Triggers(p', c, cfg), c, cfg)

(* Trades inside the cooldown are urgent ones (planner.ts:126-127): the hedge
   is then adjusted because a limit was passed, not for yield. *)
NoCoolingTrade ==
    p'.rebalances # p.rebalances /\ m.time - p.lastRebalanceAt < cfg.minInterval =>
         \A c \in {Context(observeVolatility(p, m), m, cfg)} : Urgent(Triggers(p, c, cfg), c, cfg)

(* While the oracle is unhealthy only the venue changes the position: no
   trade of the keeper's moves the size of the hedge, whatever came before
   (engine.ts:169). *)
NoTradeOnStalePrice ==
    ~m'.healthy => p'.size = p.size \/ p'.liquidations # p.liquidations

(* A performance fee is taken from profit: after the shares for it are minted
   the share price is still at least the mark it had to pass, although the
   management fee diluted it in the same accrual (model.ts:388-395). *)
PerformanceAboveMark ==
    p'.ledger.perf > p.ledger.perf => valuation(p', m).sharePrice >= p.hwm

(* What holds of the book at every point of the loop. *)
BookHolds == EngineTypeOK /\ ResidualIsRounding

(* What a step of the loop may do to the book: the keeper's trades end what
   gave cause for them, keep to the cooldown and to fresh prices, and a
   performance fee is taken from profit. *)
StepsAreRight == NoUrgencyLeft /\ NoCoolingTrade /\ NoTradeOnStalePrice /\ PerformanceAboveMark
=============================================================================
