------------------------------- MODULE Reports -------------------------------
(***************************************************************************)
(* What a depositor reads of the strategy: the views the API makes of one   *)
(* block (backend/src/views.ts, api/service.ts) and what the pages draw of  *)
(* them (frontend: PnlView, PositionsView, OverviewView and their charts),   *)
(* over every book StrategyManager reaches.  Amounts are in units of money;  *)
(* a share of the net asset value is kept as its numerator.                  *)
(***************************************************************************)
EXTENDS StrategyManager, SequencesExt, FiniteSetsExt

CONSTANT FeesTaken    \* [mgmt, perf]: fees the vault has taken so far

ASSUME ReportsAssumption == FeesTaken \in [mgmt : Nat, perf : Nat]

(* readRawState: every read of the block succeeds, or there is no report.
   The contracts' own reports fall back while the lending venue does not
   answer; the adapter's balances and rates do not. *)
reads ==
    [snapshot |-> TRUE, pnl |-> TRUE, deltaReport |-> TRUE, markAccounting |-> TRUE,
     cumulativeInterest |-> env.lending, withdrawable |-> env.lending, utilization |-> env.lending]
served == \A r \in DOMAIN reads : reads[r]

-----------------------------------------------------------------------------
(* The views *)

shortNotional == notional(book.size, readMark(env))
perpEquityShown == Pos(rawEquity(book, env))

(* leverageOf and jsonLeverage, in BPS: 999 stands for infinity. *)
leverage ==
    IF book.size = 0 THEN 0 ELSE IF perpEquityShown = 0 THEN 999 * BPS
    ELSE (shortNotional * BPS) \div perpEquityShown

positionsView ==
    [idle |-> [vaultUsd |-> book.vault, strategyFloatUsd |-> book.float],
     reserve |-> [suppliedUsd |-> readBalance(book.usdc, env), interestUsd |-> readInterest(book.usdc, env),
                  withdrawableUsd |-> withdrawable(book.usdc, env.liquid.usdc)],
     long |-> [wethQty |-> wethHeld(book, env), valueUsd |-> longValue(book, env),
               interestQty |-> readInterest(book.lent, env), costBasisUsd |-> book.basis],
     perp |-> [size |-> book.size, entryPrice |-> book.entry, markPrice |-> readMark(env),
               markEntryPrice |-> book.markEntry, notionalUsd |-> shortNotional, marginUsd |-> book.margin,
               equityUsd |-> perpEquityShown, unrealizedPnlUsd |-> pnl(book.size, book.entry, readMark(env)),
               pendingFundingUsd |-> readPending(book, env), leverage |-> leverage]]

\* Mutant: the position counts at its margin.
allocationAtMargin(p) ==
    IF nav <= 0 THEN [reserve |-> 0, long |-> 0, perp |-> 0, idle |-> 0]
    ELSE [reserve |-> p.reserve.suppliedUsd, long |-> p.long.valueUsd,
          perp |-> p.perp.marginUsd, idle |-> p.idle.vaultUsd + p.idle.strategyFloatUsd]

(* The numerators of reservePct, longPct, perpPct and idlePct. *)
allocation(p) ==
    IF nav <= 0 THEN [reserve |-> 0, long |-> 0, perp |-> 0, idle |-> 0]
    ELSE [reserve |-> p.reserve.suppliedUsd, long |-> p.long.valueUsd,
          perp |-> p.perp.equityUsd, idle |-> p.idle.vaultUsd + p.idle.strategyFloatUsd]

(* PositionManager.deltaReport, as deltaView has it. *)
deltaView(hedgeRatioBps) ==
    LET target == -((wethHeld(book, env) * hedgeRatioBps) \div BPS)
    IN  [longExposureUsd |-> ((wethHeld(book, env) + Pos(book.size)) * env.price) \div Q,
         shortExposureUsd |-> (Pos(-book.size) * env.price) \div Q,
         netDeltaQty |-> wethHeld(book, env) + book.size,
         targetPerpSize |-> target,
         requiredPerpSizeChange |-> target - book.size]

pnlView ==
    LET a == attribution(book, env)
        net == netPnl(a)
    IN  [attribution |-> a, strategyNetPnl |-> net,
         managementFees |-> FeesTaken.mgmt, performanceFees |-> FeesTaken.perf,
         netPnlAfterFees |-> net - FeesTaken.mgmt - FeesTaken.perf,
         netCapital |-> book.netCapital, strategyNav |-> strategyNav(book, env),
         reconciliationResidualUsd |-> strategyNav(book, env) - book.netCapital - net]

\* Mutant: funding that is not settled is left to the next settlement.
fundingSettledOnly ==
    [settledFundingUsd |-> book.funding, pendingFundingUsd |-> readPending(book, env),
     cumulativeFundingUsd |-> book.funding, shortNotionalUsd |-> shortNotional]

(* ApiService.funding, without the rate and the history. *)
fundingView ==
    LET settled == book.funding
        pending == readPending(book, env)
    IN  [settledFundingUsd |-> settled, pendingFundingUsd |-> pending,
         cumulativeFundingUsd |-> settled + pending, shortNotionalUsd |-> shortNotional]

-----------------------------------------------------------------------------
(* The positions page *)

spotUnrealized(p) == p.long.valueUsd - p.long.costBasisUsd

Slice(label, value, pct) == [label |-> label, value |-> value, pct |-> pct]
slices(p, a) ==
    { Slice("USDC reserve", p.reserve.suppliedUsd, a.reserve), Slice("WETH long", p.long.valueUsd, a.long),
      Slice("Perp margin (equity)", p.perp.equityUsd, a.perp),
      Slice("Idle", p.idle.vaultUsd + p.idle.strategyFloatUsd, a.idle) }

(* AllocationBar: a segment for every slice beyond five hundredths of a percent. *)
visible(s) == {x \in s : 2000 * x.pct > nav}

-----------------------------------------------------------------------------
(* The profit page *)

Line(label, value) == [label |-> label, value |-> value, total |-> FALSE]
Total == [label |-> "net", value |-> 0, total |-> TRUE]

(* Attribution lines by group, as the page signs them. *)
lines(p) ==
    LET a == p.attribution IN
    [carry |-> << Line("Lending USDC", a.lendingIncomeUsdc), Line("Lending WETH", a.lendingIncomeWeth),
                  Line("Funding", a.fundingIncome) >>,
     hedge |-> << Line("Spot realised", a.spotRealizedPnl), Line("Spot unrealised", a.spotUnrealizedPnl),
                  Line("Perp realised", a.perpRealizedPnl), Line("Perp unrealised", a.perpUnrealizedPnl) >>,
     costs |-> << Line("Trading fees", -a.tradingFees), Line("Slippage", -a.slippage),
                  Line("Bad debt absorbed", -a.badDebtAbsorbed) >>,
     fees  |-> << Line("Management fee", -p.managementFees), Line("Performance fee", -p.performanceFees) >>]

waterfallSteps(l) == l.carry \o l.hedge \o l.costs \o <<Total>> \o l.fees \o <<Total>>

(* The bars: a step moves the running total, a subtotal is drawn from zero. *)
buildRows(steps) ==
    LET running[i \in 0..Len(steps)] == IF i = 0 THEN 0 ELSE running[i - 1] + steps[i].value
    IN  [i \in 1..Len(steps) |->
            IF steps[i].total THEN [from |-> 0, to |-> running[i]]
            ELSE [from |-> running[i - 1], to |-> running[i]]]

subtotals(l) ==
    LET rows == buildRows(waterfallSteps(l))
    IN  <<rows[11].to, rows[14].to>>

groupTotal(group) == FoldLeft(LAMBDA acc, x : acc + x.value, 0, group)

(* The badge of the reconciliation card; in units of money less than one is none. *)
reconciled(p) == p.reconciliationResidualUsd = 0

SumOver(s) == FoldSet(LAMBDA x, acc : acc + x.pct, 0, s)

-----------------------------------------------------------------------------
(* The profit page tells one story: when its badge says Reconciled, the blue
   bars end where the figures of the API say (the change of the net asset value
   and the profit after fees), whatever was traded, liquidated or left half
   done, and the cards of the groups add up to the same; all of them lower by
   twice the bad debt the venue has absorbed, or would if the short were
   liquidated now, which the contract adds to the profit and the page draws as a
   cost. *)
WaterfallIsThePage ==
    served => LET p == pnlView IN
              LET l == lines(p)
                  astray == 2 * p.attribution.badDebtAbsorbed
              IN  reconciled(p) =>
                      /\ subtotals(l) = <<p.strategyNav - p.netCapital - astray, p.netPnlAfterFees - astray>>
                      /\ groupTotal(l.carry) + groupTotal(l.hedge) + groupTotal(l.costs)
                         = p.strategyNetPnl - astray

(* What the page says of its bars: the lines are signed as they hit the net
   asset value (PnlView.tsx:20), so that under the badge Reconciled the first
   blue bar ends at the change of that value.  It does not once there is a bad
   debt. *)
SignedAsTheyHitNav ==
    served /\ reconciled(pnlView)
    => subtotals(lines(pnlView))[1] = pnlView.strategyNav - pnlView.netCapital

(* The bar of the positions page is a whole: its segments are as wide as the
   amounts beside them, add up to the net asset value, and what is too small
   for a segment is within two tenths of a percent; nothing that is lent, under
   water or left in the strategy is missing or counted twice. *)
AllocationIsWhole ==
    served => LET s == slices(positionsView, allocation(positionsView)) IN
              /\ \A x \in s : x.pct >= 0 /\ (nav > 0 => x.pct = x.value)
              /\ SumOver(s) = nav
              /\ 500 * (nav - SumOver(visible(s))) <= nav

(* Read at one block, the pages agree: the funding card with the profit page,
   the spot card of the positions page with the two lines it comprises, and the
   legs with the value the profit is reckoned from. *)
PagesAgree ==
    served => LET p == positionsView
                  a == pnlView.attribution
              IN  /\ fundingView.cumulativeFundingUsd = a.fundingIncome
                  /\ spotUnrealized(p) = a.spotUnrealizedPnl + a.lendingIncomeWeth
                  /\ p.reserve.suppliedUsd + p.long.valueUsd + p.perp.equityUsd + p.idle.strategyFloatUsd
                     = pnlView.strategyNav

(* A rebalance delivers the hedge the delta card asks for, through whatever
   sale, release of margin or crystallisation came before the hedging trade. *)
HedgedAfterRebalance ==
    \A plan \in Plans :
        Rebalance /\ book' = executeRebalance(swept, env, plan)
        => abs(deltaView(plan.hedgeRatioBps).requiredPerpSizeChange)' < MIN_HEDGE_TRADE_QTY

(* The leverage on the page is not taken beyond what the venue's initial margin
   allows by a rebalance; it may have been there before. *)
RebalanceKeepsMargin ==
    Rebalance /\ env.feed /\ ~liquidatable
    => leverage' <= (BPS * BPS) \div IMR \/ leverage' <= leverage


(* What the calls promise of the books they leave: to those who stay, and to
   the plan of an upkeep. *)
CallsDeliver == [][RemainingUndiluted /\ HedgedAfterRebalance /\ RebalanceKeepsMargin]_vars

(* What a depositor reads is one account of one state of the books: the
   waterfall, the allocation and the figures shared by the pages. *)
ReportsAgree == WaterfallIsThePage /\ AllocationIsWhole /\ PagesAgree
=============================================================================
