------------------------------- MODULE SimModel -------------------------------
(***************************************************************************)
(* The simulator's book and what can happen to it (simulator/src/model.ts,  *)
(* rates.ts): interest and funding, trades at the venues, liquidation and   *)
(* vault fees, each a function from a book and a market to a book; and its  *)
(* rebalancing (simulator/src/planner.ts): what the triggers are, which     *)
(* trades a plan makes of them, and how a plan is executed.                 *)
(*                                                                          *)
(* The simulator computes with floats; here USD are whole, prices in tenths *)
(* of a USD, quantities in thousandths of an ETH (the least size the        *)
(* simulator trades), ratios and rates in bps, the funding of 8 hours in    *)
(* thousandths of a percent, a volatility in percent and time in hours, so   *)
(* that every product stays below 2^31.  A division truncates, which the properties allow for.       *)
(***************************************************************************)
EXTENDS Integers, SequencesExt, FiniteSetsExt

BPS == 10000
YEAR == 8760     \* hours
Null == -1       \* null
Infinity == 1000000000

abs(x) == IF x < 0 THEN -x ELSE x
sign(x) == IF x < 0 THEN -1 ELSE IF x = 0 THEN 0 ELSE 1
Div(x, d) == IF x < 0 THEN -((-x) \div d) ELSE x \div d
Bps(x, bps) == Div(x * bps, BPS)
Max2(x, y) == IF x > y THEN x ELSE y
Min2(x, y) == IF x < y THEN x ELSE y
usd(qty, price) == Div(qty * price, BPS)
qtyOf(amount, price) == Div(amount * BPS, price)

-----------------------------------------------------------------------------
(* rates.ts *)

borrowRate(m, u) ==
    IF u <= m.optimal THEN m.base + Div(m.slope1 * u, m.optimal)
    ELSE m.base + m.slope1 + Div(m.slope2 * (u - m.optimal), BPS - m.optimal)

supplyRate(m, u) == Bps(Bps(borrowRate(m, u), u), BPS - m.reserveFactor)

supplyAprs(m) ==
    [usdc |-> supplyRate(m.venues.usdcRates, m.usdcUtilization),
     weth |-> supplyRate(m.venues.wethRates, m.wethUtilization)]

fundingAprBps(m) == Div(m.funding * 1095, 10)

-----------------------------------------------------------------------------
(* The book *)

emptyLedger ==
    [lendingUsdc |-> 0, lendingWeth |-> 0, funding |-> 0, spotRealized |-> 0, perpRealized |-> 0,
     tradingFees |-> 0, slippage |-> 0, penalties |-> 0, badDebt |-> 0, mgmt |-> 0, perf |-> 0]

newPortfolio(tvl, t0, volRef) ==
    [idle |-> tvl, reserve |-> 0, weth |-> 0, basis |-> 0,
     size |-> 0, entry |-> 0, markEntry |-> 0, margin |-> 0, ledger |-> emptyLedger,
     capital |-> tvl, shares |-> tvl, feeShares |-> 0, hwm |-> BPS,
     lastFeeAccrual |-> t0, lastRebalanceAt |-> -Infinity,
     vol |-> [var |-> volRef * volRef, price |-> 0, time |-> t0],
     rebalances |-> 0, liquidations |-> 0]

pnl(size, entry, price) == usd(size, price - entry)

(* Size, average entry and realized profit after a trade. *)
applyTrade(size, entry, delta, price) ==
    LET newSize == size + delta IN
    IF size = 0 \/ sign(size) = sign(delta)
    THEN [size |-> newSize, realized |-> 0,
          entry |-> IF newSize = 0 THEN 0
                    ELSE Div(abs(size) * entry + abs(delta) * price, abs(newSize))]
    ELSE [size |-> newSize,
          realized |-> pnl(sign(size) * Min2(abs(delta), abs(size)), entry, price),
          entry |-> IF newSize = 0 THEN 0
                    ELSE IF sign(newSize) # sign(size) THEN price ELSE entry]

liquidationPrice(p, mmBps) ==
    LET s == abs(p.size) IN
    IF p.size = 0 THEN Null
    ELSE IF p.size > 0
         THEN LET num == s * p.entry - p.margin * BPS
              IN  IF num <= 0 THEN Null ELSE Div(Div(num, s) * BPS, BPS - mmBps)
         ELSE LET num == p.margin * BPS + s * p.entry
              IN  IF num <= 0 THEN 0 ELSE Div(Div(num, s) * BPS, BPS + mmBps)

equityRaw(p, m) == p.margin + pnl(p.size, p.entry, m.price)

valued(p, m, long, equity, notional, liq) ==
    LET nav == p.reserve + long + equity + p.idle
        supply == p.shares + p.feeShares
    IN  [long |-> long, equity |-> equity, notional |-> notional, nav |-> nav,
         sharePrice |-> IF supply > 0 THEN Div(nav * BPS, supply) ELSE BPS,
         deltaBps |-> IF nav > 0 THEN Div(usd(p.weth + p.size, m.price) * BPS, nav) ELSE 0,
         leverage |-> IF p.size = 0 THEN 0
                      ELSE IF equity > 0 THEN Div(notional * BPS, equity) ELSE Infinity,
         liquidationDistance |->
             IF liq = Null THEN Null
             ELSE Max2(0, Div((IF p.size < 0 THEN liq - m.price ELSE m.price - liq) * BPS, m.price))]

valuation(p, m) ==
    valued(p, m, usd(p.weth, m.price), Max2(equityRaw(p, m), 0), usd(abs(p.size), m.price),
           liquidationPrice(p, m.venues.maintenanceMarginBps))

(* Attributed profit, before vault fees. *)
strategyNetPnl(p, m) ==
    LET l == p.ledger
        clamp == Max2(-equityRaw(p, m), 0)
    IN  l.lendingUsdc + l.funding + l.spotRealized + (usd(p.weth, m.price) - p.basis)
        + l.perpRealized + pnl(p.size, p.markEntry, m.price)
        - l.tradingFees - l.slippage - l.penalties + l.badDebt + clamp

residual(p, m) == valuation(p, m).nav - p.capital - strategyNetPnl(p, m)

-----------------------------------------------------------------------------
(* Interest and funding *)

accrue(p, m, dt) ==
    LET aprs == supplyAprs(m)
        usdc == Div(Bps(p.reserve, aprs.usdc) * dt, YEAR)
        weth == Div(Bps(p.weth, aprs.weth) * dt, YEAR)
        funding == Div(Div(usd(-p.size, m.price) * m.funding, 100) * dt, 8000)
    IN  [p EXCEPT !.reserve = @ + usdc, !.weth = @ + weth, !.margin = @ + funding,
                  !.ledger = [@ EXCEPT !.lendingUsdc = @ + usdc,
                                       !.lendingWeth = @ + usd(weth, m.price),
                                       !.funding = @ + funding]]

-----------------------------------------------------------------------------
(* Trades: the book after one and what it cost *)

impact(spreadBps, notional, depth, maxBps) ==
    Min2(spreadBps + (IF depth > 0 THEN Div(notional * BPS, depth) ELSE 0), maxBps)

perpExecPrice(delta, mark, v) ==
    LET i == impact(v.perpSpreadBps, usd(abs(delta), mark), v.perpDepthUsd, v.perpMaxImpactBps)
    IN  IF delta > 0 THEN Bps(mark, BPS + i) ELSE Bps(mark, BPS - i)

quoteBuyWeth(usdIn, price, v) ==
    LET fee == Bps(usdIn, v.dexFeeBps)
        i == impact(v.dexSpreadBps, usdIn - fee, v.dexDepthUsd, v.dexMaxImpactBps)
    IN  [qty |-> qtyOf(Bps(usdIn - fee, BPS - i), price), fee |-> fee]

quoteSellWeth(qty, price, v) ==
    LET feeQty == Bps(qty, v.dexFeeBps)
        notional == usd(qty - feeQty, price)
        i == impact(v.dexSpreadBps, notional, v.dexDepthUsd, v.dexMaxImpactBps)
    IN  [usd |-> Bps(notional, BPS - i), feeQty |-> feeQty]

\* Mutant: the fee is taken from the margin and not entered in the ledger.
tradedUnbooked(p, venue, atMark, fee, slip) ==
    [p |-> [p EXCEPT !.size = venue.size, !.entry = venue.entry, !.markEntry = atMark.entry,
                     !.margin = @ + venue.realized - fee,
                     !.ledger = [@ EXCEPT !.perpRealized = @ + atMark.realized, !.slippage = @ + slip]],
     cost |-> fee + slip]

(* The book after a trade at the venue's price, with the same trade at the
   mark for the attribution. *)
traded(p, venue, atMark, fee, slip) ==
    [p |-> [p EXCEPT !.size = venue.size, !.entry = venue.entry, !.markEntry = atMark.entry,
                     !.margin = @ + venue.realized - fee,
                     !.ledger = [@ EXCEPT !.perpRealized = @ + atMark.realized,
                                          !.tradingFees = @ + fee, !.slippage = @ + slip]],
     cost |-> fee + slip]

perpTrade(p, delta, m) ==
    LET exec == perpExecPrice(delta, m.price, m.venues)
    IN  traded(p, applyTrade(p.size, p.entry, delta, exec), applyTrade(p.size, p.markEntry, delta, m.price),
               Bps(usd(abs(delta), exec), m.venues.perpTakerFeeBps), usd(abs(delta), abs(exec - m.price)))

spotTraded(p, qty, basis, realized, fee, slip) ==
    [p EXCEPT !.weth = @ + qty, !.basis = @ + basis,
              !.ledger = [@ EXCEPT !.spotRealized = @ + realized,
                                   !.tradingFees = @ + fee, !.slippage = @ + slip]]

bought(p, usdIn, q, mid) ==
    [p |-> spotTraded(p, q.qty, mid, 0, q.fee, usdIn - mid - q.fee), cost |-> usdIn - mid]

buyWeth(p, usdIn, m) ==
    LET q == quoteBuyWeth(usdIn, m.price, m.venues)
    IN  bought(p, usdIn, q, usd(q.qty, m.price))

sold(p, qty, q, mid, fee) ==
    LET portion == Div(p.basis * qty, p.weth)
    IN  [p |-> spotTraded(p, -qty, -portion, mid - portion, fee, mid - q.usd - fee),
         usd |-> q.usd, cost |-> mid - q.usd]

sellWeth(p, wanted, m) ==
    LET qty == Min2(wanted, p.weth)
        q == quoteSellWeth(qty, m.price, m.venues)
    IN  IF qty <= 0 THEN [p |-> p, usd |-> 0, cost |-> 0]
        ELSE sold(p, qty, q, usd(qty, m.price), usd(q.feeQty, m.price))

-----------------------------------------------------------------------------
(* Liquidation *)

isLiquidatable(p, m) ==
    p.size # 0 /\ equityRaw(p, m) < Bps(usd(abs(p.size), m.price), m.venues.maintenanceMarginBps)

(* The venue closes at the mark, takes its penalty from what margin is left
   and writes off what is missing. *)
liquidate(p, m) ==
    LET margin == equityRaw(p, m)
        penalty == Min2(Bps(usd(abs(p.size), m.price), m.venues.liquidationPenaltyBps), Max2(margin, 0))
        badDebt == Max2(-margin, 0)
    IN  [p EXCEPT !.size = 0, !.entry = 0, !.markEntry = 0, !.margin = margin - penalty + badDebt,
                  !.liquidations = @ + 1,
                  !.ledger = [@ EXCEPT !.perpRealized = @ + pnl(p.size, p.markEntry, m.price),
                                       !.penalties = @ + penalty, !.badDebt = @ + badDebt]]

-----------------------------------------------------------------------------
(* Vault fees: dilution, high-water mark, performance net of management *)

managementShares(supply, dt, cfg) ==
    Div(Bps(supply, cfg.managementFeeBps) * dt, YEAR - Bps(dt, cfg.managementFeeBps))

performanceShares(nav, s1, hwm, cfg) ==
    LET assets == Bps(Bps(Max2(Div(nav * BPS, s1) - hwm, 0), s1), cfg.performanceFeeBps)
    IN  IF assets > 0 /\ assets < nav THEN Div(assets * s1, nav - assets) ELSE 0

charged(p, nav, s1, mgmt, perf) ==
    [p EXCEPT !.feeShares = @ + mgmt + perf,
              !.hwm = IF Div(nav * BPS, s1) > @ THEN Div(nav * BPS, s1 + perf) ELSE @,
              !.ledger = [@ EXCEPT !.mgmt = @ + Div(mgmt * nav, s1 + perf),
                                   !.perf = @ + Div(perf * nav, s1 + perf)]]

\* Mutant: the performance is measured before the management fee's shares.
dilutedGross(p, nav, mgmt, cfg) ==
    LET supply == p.shares + p.feeShares
    IN  charged(p, nav, supply + mgmt, mgmt, performanceShares(nav, supply, p.hwm, cfg))

(* Performance is measured on the shares after the management fee's. *)
diluted(p, nav, mgmt, cfg) ==
    LET s1 == p.shares + p.feeShares + mgmt
    IN  charged(p, nav, s1, mgmt, performanceShares(nav, s1, p.hwm, cfg))

accrueFees(p, m, cfg) ==
    diluted([p EXCEPT !.lastFeeAccrual = m.time], valuation(p, m).nav,
            managementShares(p.shares + p.feeShares, m.time - p.lastFeeAccrual, cfg), cfg)

-----------------------------------------------------------------------------
(* Volatility *)

Lambda == 94
MinObsInterval == 1

projectedVariance(p, price, now) ==
    LET dt == now - p.vol.time
        r == Div(abs(price - p.vol.price) * BPS, p.vol.price)
    IN  IF p.vol.price = 0 \/ dt < MinObsInterval THEN p.vol.var
        ELSE Div(p.vol.var, 100) * Lambda + Div(Div(Div(r * r, 100) * 88, dt), 100) * (100 - Lambda)

observeVolatility(p, m) ==
    IF p.vol.price # 0 /\ m.time - p.vol.time < MinObsInterval THEN p
    ELSE [p EXCEPT !.vol = [var |-> projectedVariance(p, m.price, m.time),
                            price |-> m.price, time |-> m.time]]

(* Square root, bit by bit. *)
sqrt(x) ==
    FoldLeft(LAMBDA r, bit : IF r + bit <= x \div (r + bit) THEN r + bit ELSE r, 0,
             <<32768, 16384, 8192, 4096, 2048, 1024, 512, 256, 128, 64, 32, 16, 8, 4, 2, 1>>)

annualizedVol(p, m) == sqrt(projectedVariance(p, IF m.healthy THEN m.price ELSE 0, m.time))

leverageAt(vol, cfg) ==
    Max2(IF vol > cfg.volRef THEN Div(cfg.targetLeverageBps * cfg.volRef, vol) ELSE cfg.targetLeverageBps,
         cfg.minLeverageBps)

(* The delta band shrinks with volatility, to a quarter at the least. *)
bandAt(vol, cfg) ==
    IF vol > cfg.volRef THEN Max2(Div(cfg.deltaBandBps * cfg.volRef, vol), Div(cfg.deltaBandBps, 4))
    ELSE cfg.deltaBandBps

effectiveLeverage(p, m, cfg) == leverageAt(annualizedVol(p, m), cfg)

-----------------------------------------------------------------------------
(* planRebalance *)

NoPlan ==
    [execute |-> FALSE, urgent |-> FALSE, triggers |-> {}, sweep |-> 0, long |-> 0, margin |-> 0, cost |-> 0]

\* Mutant: the floor is converted to bps a second time.
defensiveTwiceScaled(m, cfg) == fundingAprBps(m) < cfg.fundingFloorAprBps * BPS

defensive(m, cfg) == fundingAprBps(m) < cfg.fundingFloorAprBps

reserveShare(m, cfg) ==
    IF defensive(m, cfg) THEN Max2(cfg.reserveBps, cfg.defensiveReserveBps) ELSE cfg.reserveBps

ContextOf(v, lev, vol, m, cfg) ==
    [v |-> v, lev |-> lev, defensive |-> defensive(m, cfg),
     target |-> Div(Bps(v.nav, BPS - reserveShare(m, cfg)) * lev, lev + cfg.hedgeRatioBps),
     band |-> bandAt(vol, cfg)]

(* What the triggers and the trades are computed from. *)
Context(p, m, cfg) ==
    ContextOf(valuation(p, m), effectiveLeverage(p, m, cfg), annualizedVol(p, m), m, cfg)

Triggers(p, c, cfg) ==
    LET v == c.v
        drift == abs(c.target - v.long)
        off == drift > Bps(v.nav, cfg.allocationBandBps) /\ drift >= cfg.minTradeUsd
        fired ==
          [DELTA |-> abs(v.deltaBps) > c.band,
           LEVERAGE_HIGH |-> p.size # 0 /\ v.leverage > Bps(c.lev, BPS + cfg.leverageBandBps),
           LEVERAGE_LOW |-> p.size # 0 /\ v.leverage < Bps(c.lev, BPS - cfg.leverageBandBps),
           ALLOCATION |-> off,
           FUNDING_DEFENSIVE |-> off /\ c.defensive /\ v.long > c.target,
           IDLE |-> p.idle >= cfg.minDeployUsd /\ p.idle > 0,
           LIQUIDATION |-> p.size # 0 /\ v.liquidationDistance # Null
                           /\ v.liquidationDistance < cfg.liquidationWarn]
    IN  {t \in DOMAIN fired : fired[t]}

sweepOnly(plan) ==
    [plan EXCEPT !.long = 0, !.margin = 0, !.cost = 0, !.triggers = @ \cap {"IDLE"},
                 !.execute = "IDLE" \in plan.triggers]

Urgent(triggers, c, cfg) ==
    \/ "LIQUIDATION" \in triggers
    \/ c.v.leverage > cfg.leverageHigh
    \/ abs(c.v.deltaBps) > cfg.deltaHigh

(* A trade is made when it is worth making. *)
Worth(x, cfg) == IF abs(x) >= cfg.minTradeUsd THEN x ELSE 0

(* Change of the long leg: to its target, as far as cash for it and for its
   margin goes. *)
longWithin(d, c, cash, cfg) ==
    LET h == cfg.hedgeRatioBps
        need == d + Div((c.v.long + d) * h, c.lev) - c.v.equity
        room == cash + c.v.equity - Div(c.v.long * h, c.lev)
    IN  IF d <= 0 \/ need <= cash THEN d
        ELSE Worth(Max2(Div(room * c.lev, c.lev + h), 0), cfg)

sizeLong(plan, c, reserve, cfg) ==
    LET d == Worth(c.target - c.v.long, cfg)
    IN  IF "ALLOCATION" \in plan.triggers \/ plan.urgent
        THEN longWithin(d, c, reserve + plan.sweep + Max2(-d, 0), cfg) ELSE 0

\* Mutant: the margin is sized for the equity that the new long leg has and
\* never taken for a margin that is merely low.
sizeMarginAllocated(p, plan, newLong, c, cfg) ==
    IF "ALLOCATION" \in plan.triggers \/ p.size = 0
    THEN Worth(Div(newLong * cfg.hedgeRatioBps, c.lev) - c.v.equity, cfg) ELSE 0

sizeMargin(p, plan, newLong, c, cfg) ==
    LET resize == \/ plan.triggers \cap {"LEVERAGE_HIGH", "LEVERAGE_LOW", "ALLOCATION", "LIQUIDATION"} # {}
                  \/ plan.urgent
                  \/ p.size = 0 /\ newLong > 0
    IN  IF resize THEN Worth(Div(newLong * cfg.hedgeRatioBps, c.lev) - c.v.equity, cfg) ELSE 0

hedgeCost(delta, m) ==
    LET exec == perpExecPrice(delta, m.price, m.venues)
    IN  usd(abs(delta), abs(exec - m.price)) + Bps(usd(abs(delta), exec), m.venues.perpTakerFeeBps)

estimateCost(p, m, plan, cfg) ==
    LET qtyBought == quoteBuyWeth(plan.long, m.price, m.venues).qty
        qtySold == Min2(qtyOf(-plan.long, m.price), p.weth)
        hedge(qty) == hedgeCost(-Bps(qty, cfg.hedgeRatioBps) - p.size, m)
    IN  cfg.gasCostUsd +
        IF plan.long > 0
        THEN Max2(plan.long - usd(qtyBought, m.price), 0) + hedge(p.weth + qtyBought)
        ELSE IF plan.long < 0
        THEN Max2(usd(qtySold, m.price) - quoteSellWeth(qtySold, m.price, m.venues).usd, 0) + hedge(p.weth - qtySold)
        ELSE hedge(p.weth)

carryPaysForCost(m, c, plan, cfg) ==
    LET aprs == supplyAprs(m)
        h == cfg.hedgeRatioBps
        carry == aprs.weth + Bps(fundingAprBps(m), h) - Div(aprs.usdc * (c.lev + h), c.lev)
    IN  Div(Bps(plan.long, carry) * cfg.carryHorizon, YEAR) > plan.cost

\* Mutant: the interval is left out of the comparison.
coolingForgotten(p, m, cfg) == m.time < p.lastRebalanceAt

cooling(p, m, cfg) == m.time < p.lastRebalanceAt + cfg.minInterval

costed(p, m, plan, cfg) == [plan EXCEPT !.cost = estimateCost(p, m, plan, cfg)]

(* The margin the new long leg needs, from the cash the long leg leaves. *)
withMargin(p, c, plan, cfg) ==
    LET margin == sizeMargin(p, plan, c.v.long + plan.long, c, cfg)
    IN  [plan EXCEPT !.margin = Min2(margin, Max2(p.reserve + plan.sweep - plan.long, 0))]

(* The trades of a plan that may trade. *)
sized(p, m, c, due, cfg) ==
    costed(p, m, withMargin(p, c, [due EXCEPT !.long = sizeLong(due, c, p.reserve, cfg), !.execute = TRUE],
                            cfg), cfg)

(* A plan whose purchase would not earn its cost: the rest of it. *)
withoutBuy(p, m, c, plan, cfg) ==
    LET off == plan.triggers \cap {"LEVERAGE_HIGH", "LEVERAGE_LOW", "LIQUIDATION"} # {}
    IN  costed(p, m, [plan EXCEPT !.long = 0,
                                  !.margin = IF off THEN sizeMargin(p, plan, c.v.long, c, cfg) ELSE 0], cfg)

kept(plan) ==
    IF plan.margin = 0 /\ plan.triggers \cap {"DELTA", "LEVERAGE_HIGH", "LEVERAGE_LOW"} = {}
    THEN sweepOnly(plan) ELSE plan

(* A plan without urgency must be worth its cost. *)
filtered(p, m, c, plan, cfg) ==
    IF plan.urgent THEN plan
    ELSE IF plan.cost > Bps(c.v.nav, cfg.maxCostBps) THEN sweepOnly(plan)
    ELSE IF plan.long > 0 /\ ~carryPaysForCost(m, c, plan, cfg) THEN kept(withoutBuy(p, m, c, plan, cfg))
    ELSE plan

planned(p, m, c, due, cfg) ==
    IF ~m.healthy \/ c.v.nav <= 0 \/ due.triggers = {} THEN NoPlan
    ELSE IF ~due.urgent /\ cooling(p, m, cfg) THEN sweepOnly(due)
    ELSE filtered(p, m, c, sized(p, m, c, due, cfg), cfg)

duePlan(p, c, triggers, cfg) ==
    [NoPlan EXCEPT !.triggers = triggers, !.urgent = Urgent(triggers, c, cfg), !.sweep = p.idle]

planIn(p, m, c, cfg) == planned(p, m, c, duePlan(p, c, Triggers(p, c, cfg), cfg), cfg)

planRebalance(p, m, cfg) == planIn(p, m, Context(p, m, cfg), cfg)

-----------------------------------------------------------------------------
(* executePlan *)

MinTrade == 1  \* 0.001 ETH

freeMargin(p, m) ==
    IF p.size = 0 THEN [free |-> Max2(p.margin, 0), excess |-> Max2(p.margin, 0)]
    ELSE LET imr == Bps(usd(abs(p.size), m.price), m.venues.initialMarginBps)
             excess == Max2(Bps(equityRaw(p, m) - imr, 9900), 0)
         IN  [free |-> Min2(Max2(p.margin, 0), excess), excess |-> excess]

reopened(p, q, m) == perpTrade(perpTrade(p, q, m).p, -q, m).p

(* Profit is crystallised, by closing and opening again, when the margin
   itself cannot pay what the equity could. *)
crystallised(p, m, wanted, f, upnl) ==
    LET goal == Min2(Bps(Min2(wanted, f.excess) - f.free, 10200), upnl)
        q == Div(abs(p.size) * goal, upnl)
    IN  IF f.free < wanted /\ f.excess > f.free /\ upnl > 0 /\ q >= MinTrade
        THEN reopened(p, IF p.size < 0 THEN q ELSE -q, m) ELSE p

paidOut(p, m, wanted) ==
    LET w == Min2(wanted, freeMargin(p, m).free)
    IN  [p |-> [p EXCEPT !.margin = @ - w, !.reserve = @ + w], w |-> w]

withdrawFreeMargin(p, m, wanted) ==
    paidOut(crystallised(p, m, wanted, freeMargin(p, m), pnl(p.size, p.entry, m.price)), m, wanted)

tradesNeeded(plan) == plan.long # 0 \/ plan.margin # 0 \/ plan.triggers \ {"IDLE"} # {}

affordable(wanted, reserve) == Min2(wanted, reserve)

(* The execution in its order, each stage from what the stage before left:
   the book, the cost of the trades so far, and the margin still to take out. *)

swept(p, plan) == [p EXCEPT !.reserve = @ + plan.sweep, !.idle = @ - plan.sweep]

afterSale(s, r) == [s EXCEPT !.p = [r.p EXCEPT !.reserve = @ + r.usd], !.cost = @ + r.cost]
sellLong(s, plan, m) ==
    IF plan.long < 0 THEN afterSale(s, sellWeth(s.p, qtyOf(-plan.long, m.price), m)) ELSE s

afterWithdrawal(s, r) == [s EXCEPT !.p = r.p, !.out = @ - r.w]
takeMargin(s, m) == IF s.out > 0 THEN afterWithdrawal(s, withdrawFreeMargin(s.p, m, s.out)) ELSE s

addMargin(s, amount) == [s EXCEPT !.p.reserve = @ - amount, !.p.margin = @ + amount]
settleMargin(s, plan, m) ==
    IF plan.margin > 0 THEN addMargin(s, affordable(plan.margin, s.p.reserve)) ELSE takeMargin(s, m)

afterTrade(s, r) == [s EXCEPT !.p = r.p, !.cost = @ + r.cost]
spend(s, amount, m) == afterTrade(s, buyWeth([s.p EXCEPT !.reserve = @ - amount], amount, m))
buyLong(s, plan, m) == IF plan.long > 0 THEN spend(s, affordable(plan.long, s.p.reserve), m) ELSE s

adjust(s, diff, m) == IF abs(diff) >= MinTrade THEN afterTrade(s, perpTrade(s.p, diff, m)) ELSE s
\* Mutant: the target is traded, not the difference to it.
adjustHedgeAgain(s, m, cfg) == adjust(s, -Bps(s.p.weth, cfg.hedgeRatioBps), m)

adjustHedge(s, m, cfg) == adjust(s, -Bps(s.p.weth, cfg.hedgeRatioBps) - s.p.size, m)

recorded(s, m) ==
    [p |-> [s.p EXCEPT !.lastRebalanceAt = m.time, !.rebalances = @ + 1], cost |-> s.cost]

(* Sweep, raise cash, spend it, hedge what is held, withdraw what margin is
   left to take.  The cost is the one the caller is told. *)
executePlan(p, plan, m, cfg) ==
    LET start == [p |-> swept(p, plan), cost |-> 0, out |-> Max2(-plan.margin, 0)]
    IN  IF ~tradesNeeded(plan) THEN [p |-> swept(p, plan), cost |-> 0]
        ELSE recorded(takeMargin(adjustHedge(
               buyLong(settleMargin(sellLong(start, plan, m), plan, m), plan, m), m, cfg), m), m)
=============================================================================
