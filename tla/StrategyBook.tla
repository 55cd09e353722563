---------------------------- MODULE StrategyBook ----------------------------
(***************************************************************************)
(* The books of the strategy: what StrategyManager.sol, its three adapters *)
(* and PositionManager.sol keep of the USDC reserve, the long WETH and the *)
(* short, and what each step of the strategy does to them.                 *)
(*                                                                          *)
(* A book b is a record; a step is an operator from a book to a book, whose *)
(* field ok turns FALSE when the call reverts.  e is what is outside: the   *)
(* prices, and which venues answer.  The lending venue keeps its balances   *)
(* exactly here; its own roundings are the subject of LendingMarket.        *)
(***************************************************************************)
EXTENDS PerpMath

CONSTANTS
    MIN_HEDGE_TRADE_QTY,    \* smaller hedge trades are left out
    FEE, IMR, MMR,          \* taker fee and margin requirements of the perp venue
    PENALTY,                \* its liquidation penalty
    DEX_FEE,                \* fee of the spot venue
    SPREAD, DEPTH, CAP      \* price impact of both venues

ASSUME BookAssumption ==
    /\ MIN_HEDGE_TRADE_QTY \in Nat \ {0} /\ DEPTH \in Nat \ {0}
    /\ \A r \in {FEE, IMR, MMR, PENALTY, DEX_FEE, SPREAD, CAP} : r \in 0..(BPS - 1)

Q == QTY_PRICE_TO_USD6

Loan == [bal : Int, last : Int, chk : Int]
Book ==
    [vault : Int, float : Int, weth : Int, usdc : Loan, lent : Loan,
     netCapital : Int, basis : Int, spotRealized : Int, swapFees : Int, swapSlippage : Int,
     size : Int, entry : Int, margin : Int, pending : Int, accruing : BOOLEAN,
     realized : Int, funding : Int, feesPaid : Int, penalties : Int, badDebt : Int,
     markEntry : Int, slippage : Int, ok : BOOLEAN]

NoLoan == [bal |-> 0, last |-> 0, chk |-> 0]

(* Nothing deployed, and capital in the vault. *)
EmptyBook(capital) ==
    [vault |-> capital, float |-> 0, weth |-> 0,
     usdc |-> NoLoan, lent |-> NoLoan,
     netCapital |-> 0, basis |-> 0, spotRealized |-> 0, swapFees |-> 0, swapSlippage |-> 0,
     size |-> 0, entry |-> 0, margin |-> 0, pending |-> 0, accruing |-> FALSE,
     realized |-> 0, funding |-> 0, feesPaid |-> 0, penalties |-> 0, badDebt |-> 0,
     markEntry |-> 0, slippage |-> 0, ok |-> TRUE]

-----------------------------------------------------------------------------
(* LendingAdapter: balances and the interest they earned *)

interest(l) == l.chk + Pos(l.bal - l.last)

\* Mutant: the balance moves on without the interest being checkpointed.
MovedUnchecked(l, x) == [bal |-> l.bal + x, last |-> l.bal + x, chk |-> l.chk]

(* After a checkpoint, x more (or less) is at the venue. *)
Moved(l, x) == [bal |-> l.bal + x, last |-> l.bal + x, chk |-> interest(l)]

(* others is the cash in the pool less its debt that is not ours: what can be
   withdrawn is our balance, or what cash there is. *)
withdrawable(l, others) == Min2(l.bal, Pos(l.bal + others))

SupplyUsdc(b, e, x) ==
    [b EXCEPT !.float = @ - x, !.usdc = Moved(@, x), !.ok = @ /\ e.lending]

WithdrawUsdc(b, e, x) ==
    [b EXCEPT !.float = @ + x, !.usdc = Moved(@, -x),
              !.ok = @ /\ e.lending /\ x <= withdrawable(b.usdc, e.liquid.usdc)]

SupplyWeth(b, e, x) ==
    [b EXCEPT !.weth = @ - x, !.lent = Moved(@, x), !.ok = @ /\ e.lending]

WithdrawWeth(b, e, x) ==
    [b EXCEPT !.weth = @ + x, !.lent = Moved(@, -x),
              !.ok = @ /\ e.lending /\ x <= withdrawable(b.lent, e.liquid.weth)]

(* What is read while the venue does not answer: the last checkpoint. *)
readBalance(l, e) == IF e.lending THEN l.bal ELSE l.last
readInterest(l, e) == IF e.lending THEN interest(l) ELSE l.chk

-----------------------------------------------------------------------------
(* PerpAdapter and the perpetual venue *)

impact(value) == Min2(SPREAD + (value * BPS) \div DEPTH, CAP)

execPrice(delta, mark) ==
    IF delta > 0 THEN CeilDiv(mark * (BPS + impact(notional(delta, mark))), BPS)
    ELSE (mark * (BPS - impact(notional(delta, mark)))) \div BPS

equity(b, mark) == b.margin + pnl(b.size, b.entry, mark) + b.pending
marginReq(size, mark, ratio) == CeilDiv(notional(size, mark) * ratio, BPS)

(* _updateFunding and _settleFunding: the index needs the mark only when
   funding accrued since it was last moved. *)
Settled(b, e) ==
    [b EXCEPT !.margin = @ + b.pending, !.funding = @ + b.pending, !.pending = 0,
              !.accruing = FALSE, !.ok = @ /\ (e.feed \/ ~b.accruing)]

Filled(b, delta, p) ==
    [b EXCEPT !.size = @ + delta, !.entry = tradeEntry(b.size, b.entry, delta, p),
              !.margin = @ + tradeRealized(b.size, b.entry, delta, p),
              !.realized = @ + tradeRealized(b.size, b.entry, delta, p)]

IncreasesRisk(old, new) ==
    abs(new) > abs(old) \/ (old # 0 /\ new # 0 /\ (new > 0) # (old > 0))

(* The venue's side of a trade: the fill and its fee. *)
Charged(b, delta, p) ==
    LET fee == CeilDiv(notional(delta, p) * FEE, BPS)
        f == Filled(b, delta, p)
    IN  [f EXCEPT !.margin = @ - fee, !.feesPaid = @ + fee]

(* Buying above the mark, or selling below it, is a cost. *)
slippageOf(delta, p, mark) ==
    LET gap == notional(delta, abs(p - mark))
    IN  IF (delta > 0) = (p >= mark) \/ p = mark THEN gap ELSE -gap

\* Mutant: the venue fills a trade whatever margin is left.
TradedUnchecked(b, t, e, delta, p, bound) ==
    [t EXCEPT
       !.slippage = @ + slippageOf(delta, p, e.mark),
       !.markEntry = tradeEntry(b.size, b.markEntry, delta, e.mark),
       !.ok = @ /\ e.feed /\ delta # 0 /\ IF delta > 0 THEN p <= bound ELSE p >= bound]

Traded(b, t, e, delta, p, bound) ==
    [t EXCEPT
       !.slippage = @ + slippageOf(delta, p, e.mark),
       !.markEntry = tradeEntry(b.size, b.markEntry, delta, e.mark),
       !.ok = /\ @ /\ e.feed /\ delta # 0
              /\ IF delta > 0 THEN p <= bound ELSE p >= bound
              /\ IncreasesRisk(b.size, t.size) => equity(t, e.mark) >= marginReq(t.size, e.mark, IMR)]

TradeAt(b, s, e, delta, p, bound) == Traded(b, Charged(s, delta, p), e, delta, p, bound)
Trade(b, e, delta, bound) == TradeAt(b, Settled(b, e), e, delta, execPrice(delta, e.mark), bound)

DepositMargin(b, e, x) ==
    LET s == Settled(b, e)
    IN  [s EXCEPT !.float = @ - x, !.margin = @ + x, !.ok = @ /\ x > 0 /\ b.float >= x]

WithdrawMargin(b, e, x) ==
    LET s == Settled(b, e)
    IN  [s EXCEPT !.float = @ + x, !.margin = @ - x,
                  !.ok = /\ @ /\ x > 0 /\ s.margin >= x
                         /\ b.size # 0 => /\ e.feed
                                          /\ equity(s, e.mark) - x >= marginReq(b.size, e.mark, IMR)]

-----------------------------------------------------------------------------
(* SwapAdapter and the spot venue: the quote for an exact input *)

quoteBuy(usdcIn, mark) ==
    LET net == usdcIn - CeilDiv(usdcIn * DEX_FEE, BPS)
    IN  (((net * Q) \div mark) * (BPS - impact(net))) \div BPS

quoteSell(qty, mark) ==
    LET value == ((qty - CeilDiv(qty * DEX_FEE, BPS)) * mark) \div Q
    IN  (value * (BPS - impact(value))) \div BPS

-----------------------------------------------------------------------------
(* StrategyManager: the internal steps *)

wethHeld(b, e) == readBalance(b.lent, e) + b.weth

PullFromReserve(b, e, x) == IF b.float >= x THEN b ELSE WithdrawUsdc(b, e, x - b.float)

\* Mutant: what is left stays in the float.
KeepFloat(b, e) == b

ParkFloat(b, e) == IF b.float = 0 THEN b ELSE SupplyUsdc(b, e, b.float)

ReturnToVault(b, x) == [b EXCEPT !.netCapital = @ - x, !.float = @ - x, !.vault = @ + x]

BuyWeth(b, e, usdcIn, slip) ==
    LET qty == quoteBuy(usdcIn, e.mark)
        mid == (qty * e.price) \div Q
        fee == CeilDiv(usdcIn * DEX_FEE, BPS)
        minOut == (((usdcIn * Q) \div e.price) * (BPS - slip)) \div BPS
        bought == [b EXCEPT !.float = @ - usdcIn, !.weth = @ + qty,
                            !.basis = @ + mid, !.swapFees = @ + fee,
                            !.swapSlippage = @ + (usdcIn - mid - fee),
                            !.ok = @ /\ e.feed /\ e.dex /\ qty >= minOut /\ b.float >= usdcIn]
    IN  SupplyWeth(bought, e, qty)

\* Mutant: the basis of a sale is what its quantity had cost per bought unit.
RecordedAtMid(b, held, qty, out, feeWeth, price) ==
    LET mid == (qty * price) \div Q
        fee == (feeWeth * price) \div Q
        portion == Min2(b.basis, mid)
    IN  [b EXCEPT !.weth = @ - qty, !.float = @ + out, !.basis = @ - portion,
                  !.spotRealized = @ + (mid - portion),
                  !.swapFees = @ + fee, !.swapSlippage = @ + (mid - out - fee)]

(* A sale at the venue and _recordSale: cost basis goes out pro rata with
   all the WETH that is held, interest included. *)
Recorded(b, held, qty, out, feeWeth, price) ==
    LET mid == (qty * price) \div Q
        fee == (feeWeth * price) \div Q
        portion == IF held <= 0 THEN 0 ELSE Min2(b.basis, (b.basis * qty) \div held)
    IN  [b EXCEPT !.weth = @ - qty, !.float = @ + out, !.basis = @ - portion,
                  !.spotRealized = @ + (mid - portion),
                  !.swapFees = @ + fee, !.swapSlippage = @ + (mid - out - fee)]

(* The venue part of a sale of qty for at least minOut. *)
Sold(b, e, held, qty, minOut) ==
    LET s == Recorded(b, held, qty, quoteSell(qty, e.mark), CeilDiv(qty * DEX_FEE, BPS), e.price)
    IN  [s EXCEPT !.ok = @ /\ e.feed /\ e.dex /\ quoteSell(qty, e.mark) >= minOut]

SellWeth(b, e, qty, slip) ==
    Sold(IF b.weth < qty THEN WithdrawWeth(b, e, qty - b.weth) ELSE b,
         e, wethHeld(b, e), qty, (((qty * e.price) \div Q) * (BPS - slip)) \div BPS)

PerpTrade(b, e, delta, slip) ==
    Trade(b, e, delta, IF delta > 0 THEN (e.price * (BPS + slip)) \div BPS
                       ELSE (e.price * (BPS - slip)) \div BPS)

(* Equity beyond the initial margin, with a haircut of one percent, and how
   much of it is cash. *)
excessMargin(b, e) ==
    IF b.size = 0 THEN Pos(b.margin)
    ELSE (Pos(equity(b, e.mark) - marginReq(b.size, e.mark, IMR)) * 99) \div 100
freeMargin(b, e) == Min2(Pos(b.margin), excessMargin(b, e))

(* Closes and reopens just as much of the short as turns the profit that is
   needed into cash. *)
Reopened(b, e, close, slip) == PerpTrade(PerpTrade(b, e, close, slip), e, -close, slip)
CrystallizedSlice(b, e, q, slip) ==
    IF q < MIN_HEDGE_TRADE_QTY THEN b ELSE Reopened(b, e, IF b.size < 0 THEN q ELSE -q, slip)
CrystallizedFrom(b, e, needed, u, slip) ==
    IF b.size = 0 \/ u <= 0 THEN b
    ELSE CrystallizedSlice(b, e, CeilDiv(abs(b.size) * Min2((needed * 102) \div 100, u), u), slip)
Crystallized(b, e, needed, slip) == CrystallizedFrom(b, e, needed, pnl(b.size, b.entry, e.mark), slip)

WithdrawUpTo(b, e, x) == IF x > 0 THEN WithdrawMargin(b, e, x) ELSE b
WithdrawFree(b, e, wanted) == WithdrawUpTo(b, e, Min2(wanted, freeMargin(b, e)))
MadeFree(b, e, wanted, free, excess, slip) ==
    IF free < wanted /\ excess > free THEN Crystallized(b, e, Min2(wanted, excess) - free, slip) ELSE b
WithdrawFreeMargin(b, e, wanted, slip) ==
    WithdrawFree(MadeFree([b EXCEPT !.ok = @ /\ (b.size # 0 => e.feed)], e, wanted,
                          freeMargin(b, e), excessMargin(b, e), slip), e, wanted)

-----------------------------------------------------------------------------
(* StrategyManager: the calls of the vault, the rebalancer and the guardian *)

onCapitalReceived(b, e, x) ==
    ParkFloat([b EXCEPT !.vault = @ - x, !.float = @ + x, !.netCapital = @ + x, !.ok = @ /\ x <= b.vault], e)

\* Mutant: the whole balance is quoted, whatever the venue can pay.
availableBalance(b, e) == b.float + readBalance(b.usdc, e)

availableLiquidity(b, e) ==
    b.float + IF e.lending THEN withdrawable(b.usdc, e.liquid.usdc) ELSE 0

DrawReserve(b, e, x) == IF x > 0 THEN WithdrawUsdc(b, e, x) ELSE b
ReturnUpTo(b, amount) == ReturnToVault(b, Min2(amount, b.float))
withdrawLiquid(b, e, amount) ==
    ReturnUpTo(IF b.float >= amount THEN b
               ELSE DrawReserve([b EXCEPT !.ok = @ /\ e.lending], e,
                                Min2(amount - b.float, withdrawable(b.usdc, e.liquid.usdc))), amount)

(* _perpEquity: floored, and at the oracle's price while the venue does not
   answer. *)
perpEquity(b, e) ==
    Pos(IF e.feed THEN equity(b, e.mark) ELSE Pos(b.margin) + pnl(b.size, b.entry, e.price))

\* Mutant: the release is the exiting share of what is left after the closing.
releaseAfterClose(b, before, f, e) ==
    IF b.size = 0 THEN Pos(b.margin)
    ELSE Min2((Pos(equity(b, e.mark)) * f) \div WAD, Pos(b.margin))

(* What leaves the margin so that the share that stays has what it had. *)
release(b, before, f, e) ==
    IF b.size = 0 THEN Pos(b.margin)
    ELSE Min2(Pos(equity(b, e.mark) - CeilDiv(before * (WAD - f), WAD)), Pos(b.margin))

(* The share f of both legs and of the margin, and what it raised. *)
CloseShare(b, e, q, f, slip) ==
    IF b.size < 0 /\ (q >= MIN_HEDGE_TRADE_QTY \/ f = WAD) THEN PerpTrade(b, e, q, slip) ELSE b
SellShare(b, e, qty, slip) == IF qty > 0 THEN SellWeth(b, e, qty, slip) ELSE b
Release(b, e, before, f) ==
    WithdrawUpTo([b EXCEPT !.ok = @ /\ (b.size # 0 => e.feed)], e, release(b, before, f, e))
shareOf(x, f) == IF f = WAD THEN x ELSE (x * f) \div WAD
PayAndPark(b, e, amount) == ParkFloat(ReturnUpTo(b, amount), e)

UnwindShare(b, e, amount, f, before, slip) ==
    PayAndPark(Release(SellShare(CloseShare(b, e, shareOf(abs(b.size), f), f, slip),
                                 e, shareOf(wethHeld(b, e), f), slip),
                       e, before, f), e, amount)

UnwindWorth(b, e, amount, worth, slip) ==
    IF worth <= 0 \/ amount = 0 THEN b
    ELSE UnwindShare(b, e, amount, Min2((amount * WAD) \div worth, WAD), perpEquity(b, e), slip)

unwindFor(b, e, amount, slip) ==
    UnwindWorth([b EXCEPT !.ok = @ /\ e.healthy /\ ~e.paused], e, amount,
                (wethHeld(b, e) * e.price) \div Q + perpEquity(b, e), slip)

(* The six steps of a rebalance. *)
SellLong(b, e, qty, slip) == IF qty > 0 THEN SellWeth(b, e, qty, slip) ELSE b
ShrinkLong(b, e, plan) ==
    IF plan.longUsdDelta >= 0 THEN b
    ELSE SellLong(b, e, Min2((-plan.longUsdDelta * Q) \div e.price, wethHeld(b, e)), plan.slip)
MoveMargin(b, e, plan) ==
    IF plan.marginDelta > 0 THEN DepositMargin(PullFromReserve(b, e, plan.marginDelta), e, plan.marginDelta)
    ELSE IF plan.marginDelta < 0 THEN WithdrawFreeMargin(b, e, -plan.marginDelta, plan.slip)
    ELSE b
GrowLong(b, e, plan) ==
    IF plan.longUsdDelta <= 0 THEN b
    ELSE BuyWeth(PullFromReserve(b, e, plan.longUsdDelta), e, plan.longUsdDelta, plan.slip)

hedgeDiff(b, e, plan) == -((wethHeld(b, e) * plan.hedgeRatioBps) \div BPS) - b.size
Rehedged(b, e, diff, slip) == IF abs(diff) >= MIN_HEDGE_TRADE_QTY THEN PerpTrade(b, e, diff, slip) ELSE b
Rehedge(b, e, plan) == Rehedged(b, e, hedgeDiff(b, e, plan), plan.slip)
ReleaseLeft(b, e, plan, left) == IF left > 0 THEN WithdrawFreeMargin(b, e, left, plan.slip) ELSE b

(* What of the margin to be released was not free yet. *)
marginLeft(b1, b2, plan) ==
    IF plan.marginDelta < 0 THEN -plan.marginDelta - (b2.float - b1.float) ELSE 0

\* Mutant: the hedge is set before the long grows.
AfterMarginHedgedFirst(b1, b2, e, plan) ==
    ParkFloat(ReleaseLeft(GrowLong(Rehedge(b2, e, plan), e, plan), e, plan,
                          marginLeft(b1, b2, plan)), e)

AfterMargin(b1, b2, e, plan) ==
    ParkFloat(ReleaseLeft(Rehedge(GrowLong(b2, e, plan), e, plan), e, plan,
                          marginLeft(b1, b2, plan)), e)
AfterSale(b1, e, plan) == AfterMargin(b1, MoveMargin(b1, e, plan), e, plan)

executeRebalance(b, e, plan) ==
    AfterSale(ShrinkLong([b EXCEPT !.ok = @ /\ e.healthy /\ ~e.paused], e, plan), e, plan)

(* try ... catch: a step that reverts leaves everything as it was. *)
Tried(b, step) == IF step.ok THEN step ELSE b

TryClose(b, e, bound) == IF b.size = 0 THEN b ELSE Tried(b, Trade(b, e, -b.size, bound))
TryMargin(b, e) == IF b.margin > 0 /\ b.size = 0 THEN Tried(b, WithdrawMargin(b, e, b.margin)) ELSE b
TryWeth(b, e) == Tried(b, WithdrawWeth(b, e, withdrawable(b.lent, e.liquid.weth)))
TrySell(b, e, minSellPrice) ==
    IF b.weth = 0 THEN b
    ELSE Tried(b, Sold(b, e, wethHeld(b, e), b.weth, (b.weth * minSellPrice) \div Q))
TryReserve(b, e) == Tried(b, WithdrawUsdc(b, e, withdrawable(b.usdc, e.liquid.usdc)))
ReturnAll(b) == ReturnToVault(b, b.float)

\* Mutant: the bounds of the closing trade are the wrong way round.
emergencyUnwindSwapped(b, e, minSellPrice, maxBuyPrice) ==
    ReturnAll(TryReserve(TrySell(TryWeth(TryMargin(
        TryClose(b, e, IF b.size < 0 THEN minSellPrice ELSE maxBuyPrice), e), e), e, minSellPrice), e))

emergencyUnwind(b, e, minSellPrice, maxBuyPrice) ==
    ReturnAll(TryReserve(TrySell(TryWeth(TryMargin(
        TryClose(b, e, IF b.size < 0 THEN maxBuyPrice ELSE minSellPrice), e), e), e, minSellPrice), e))

-----------------------------------------------------------------------------
(* The perpetual venue without the strategy *)

(* Closes the position at the mark; the penalty is what the margin bears,
   and the venue writes off what it does not. *)
Liquidated(b, e) ==
    LET s == Settled(b, e)
        f == Filled(s, -s.size, e.mark)
        penalty == Min2((notional(s.size, e.mark) * PENALTY) \div BPS, Pos(f.margin))
        left == f.margin - penalty
    IN  [f EXCEPT !.margin = Pos(left), !.penalties = @ + penalty, !.badDebt = @ + Pos(-left),
                  !.ok = /\ @ /\ e.feed /\ b.size # 0
                         /\ equity(s, e.mark) < marginReq(s.size, e.mark, MMR)]

(* Auto-deleveraging at the mark. *)
Deleveraged(b, e, share) ==
    LET s == Settled(b, e)
        f == Filled(s, -mulDivSigned(s.size, share, BPS), e.mark)
    IN  [f EXCEPT !.ok = @ /\ e.feed /\ mulDivSigned(s.size, share, BPS) # 0]

-----------------------------------------------------------------------------
(* PositionManager *)

(* What can be read of the funding that is not settled. *)
readPending(b, e) == IF e.feed \/ ~b.accruing THEN b.pending ELSE 0
readMark(e) == IF e.feed THEN e.mark ELSE e.price

rawEquity(b, e) ==
    IF e.feed THEN equity(b, e.mark)
    ELSE Pos(b.margin) + pnl(b.size, b.entry, e.price) + readPending(b, e)

longValue(b, e) == (wethHeld(b, e) * e.price) \div Q

(* StrategyManager.valuation, and the net asset value of a snapshot. *)
valuation(b, e) == b.float + readBalance(b.usdc, e) + longValue(b, e) + perpEquity(b, e)
strategyNav(b, e) == b.float + readBalance(b.usdc, e) + longValue(b, e) + Pos(rawEquity(b, e))

(* pnl(): every line of the attribution. *)
attribution(b, e) ==
    LET incomeWeth == (readInterest(b.lent, e) * e.price) \div Q
        markEntry == IF b.size = 0 THEN 0 ELSE b.markEntry
        unrealized == pnl(b.size, markEntry, readMark(e))
    IN  [lendingIncomeUsdc |-> readInterest(b.usdc, e),
         lendingIncomeWeth |-> incomeWeth,
         fundingIncome     |-> b.funding + readPending(b, e),
         spotRealizedPnl   |-> b.spotRealized,
         spotUnrealizedPnl |-> longValue(b, e) - b.basis - incomeWeth,
         perpUnrealizedPnl |-> unrealized,
         perpRealizedPnl   |-> b.realized + pnl(b.size, b.entry, readMark(e)) + b.slippage - unrealized,
         tradingFees       |-> b.swapFees + b.feesPaid + b.penalties,
         slippage          |-> b.swapSlippage + b.slippage,
         badDebtAbsorbed   |-> b.badDebt + Pos(-rawEquity(b, e))]

netPnl(a) ==
    a.lendingIncomeUsdc + a.lendingIncomeWeth + a.fundingIncome
    + a.spotRealizedPnl + a.spotUnrealizedPnl + a.perpRealizedPnl + a.perpUnrealizedPnl
    - a.tradingFees - a.slippage + a.badDebtAbsorbed
=============================================================================
