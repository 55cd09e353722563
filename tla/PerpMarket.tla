----------------------------- MODULE PerpMarket -----------------------------
(***************************************************************************)
(* The perpetual venue (contracts/mocks/MockPerpetualMarket.sol) with its  *)
(* only trader, the strategy's contracts/adapters/PerpAdapter.sol.         *)
(*                                                                         *)
(* The venue's storage is one record m, so that a transaction reads as the *)
(* source does: bring funding up to date, settle it on the account, then   *)
(* fill, charge and check.  A call that reverts is a step that is not      *)
(* enabled.  price is the raw feed answer the venue marks at; 0 stands for *)
(* a feed that reverts or answers a non-positive number.                   *)
(***************************************************************************)
EXTENDS PerpMath

CONSTANTS
    FUNDING_PERIOD,     \* 8 hours in the source, in clock ticks here
    MAX_FUNDING_RATE,   \* per period, in WAD
    ParamChoices,       \* the MarketParams the owner may install
    Prices,             \* feed answers; 0 = unreadable
    Rates,              \* funding rates the owner may set
    SizeDeltas,         \* trade sizes
    AcceptablePrices,   \* limit prices of the trades
    Amounts,            \* margin amounts
    AdlBps,             \* auto-deleveraging fractions
    InitialWallet,      \* USDC the strategy can post
    InitialPool,        \* seeded counterparty liquidity
    MaxBalance,         \* bound on the venue's USDC
    MaxTime,            \* bound on the clock
    MaxTxs              \* bound on the number of venue transactions

VARIABLES
    m,          \* the venue's storage
    params,     \* MarketParams
    balance,    \* USDC held by the venue
    wallet,     \* USDC held by the strategy
    adapter,    \* PerpAdapter._acct
    price,      \* feed answer
    now,        \* block timestamp
    txs,        \* venue transactions so far, to bound behaviours
    openMarks   \* history: marks at which the open position was built

vars == <<m, params, balance, wallet, adapter, price, now, txs, openMarks>>

\* Every transaction that changes the venue counts against MaxTxs.
Transaction == txs < MaxTxs /\ txs' = txs + 1

\* MockPerpetualMarket._setParams: what the owner may install.
ValidParams(p) ==
    /\ p.maintenanceMarginBps # 0
    /\ p.initialMarginBps >= p.maintenanceMarginBps
    /\ p.initialMarginBps <= BPS
    /\ p.maxImpactBps < BPS

MarketParams ==
    [takerFeeBps: Nat, spreadBps: Nat, maxImpactBps: Nat, initialMarginBps: Nat,
     maintenanceMarginBps: Nat, liquidationPenaltyBps: Nat, depthUsd: Nat \ {0}]

ASSUME PerpMarketAssumption ==
    /\ FUNDING_PERIOD \in Nat \ {0}
    /\ MAX_FUNDING_RATE \in Nat
    /\ ParamChoices \subseteq MarketParams
    /\ Prices \subseteq Nat
    /\ Rates \subseteq Int
    /\ SizeDeltas \subseteq Int
    /\ AcceptablePrices \subseteq Nat
    /\ Amounts \subseteq Nat
    /\ AdlBps \subseteq Nat
    /\ InitialWallet \in Nat
    /\ InitialPool \in Nat
    /\ MaxBalance \in Nat
    /\ MaxTime \in Nat
    /\ MaxTxs \in Nat

Market ==
    [size: Int, entryPrice: Nat, margin: Int, lastFundingIndex: Int,
     fundingRatePer8h: Int, cumulativeFundingIndex: Int, lastFundingUpdate: Nat,
     lpPool: Nat, insuranceFund: Nat, longOpenInterest: Int, shortOpenInterest: Int,
     realizedPnl: Int, fundingPnl: Int, feesPaid: Nat, liquidationPenalties: Nat, badDebt: Nat]

-----------------------------------------------------------------------------
(***************************************************************************)
(* Funding                                                                 *)
(***************************************************************************)

Elapsed(v) == Pos(now - v.lastFundingUpdate)

\* markPrice() is read only when something accrued, so only then can a dead
\* feed make the transaction revert.
FundingReadable(v) == Elapsed(v) = 0 \/ v.fundingRatePer8h = 0 \/ price > 0

pendingIndex(v) ==
    IF Elapsed(v) = 0 \/ v.fundingRatePer8h = 0 THEN v.cumulativeFundingIndex
    ELSE v.cumulativeFundingIndex
         + mulDivSigned(v.fundingRatePer8h, (price * Elapsed(v)) \div FUNDING_PERIOD, WAD)

updateFunding(v) ==
    [v EXCEPT !.cumulativeFundingIndex = pendingIndex(v), !.lastFundingUpdate = now]

\* Rounded against the account: receipts down, payments up.
fundingOwed(size, indexDelta) ==
    LET mag18 == (abs(size) * abs(indexDelta)) \div WAD
    IN  IF size = 0 \/ indexDelta = 0 THEN 0
        ELSE IF (size < 0) = (indexDelta > 0) THEN mag18 \div USD6_TO_USD18
        ELSE -CeilDiv(mag18, USD6_TO_USD18)

owedNow(v) == fundingOwed(v.size, v.cumulativeFundingIndex - v.lastFundingIndex)

\* A mutated settlement: the account is credited, the counterparty not charged.
settleFundingUnpaired(v) ==
    [v EXCEPT !.lastFundingIndex = v.cumulativeFundingIndex,
              !.margin = @ + owedNow(v),
              !.fundingPnl = @ + owedNow(v)]

settleFunding(v) ==
    [v EXCEPT !.lastFundingIndex = v.cumulativeFundingIndex,
              !.lpPool = @ - owedNow(v),
              !.margin = @ + owedNow(v),
              !.fundingPnl = @ + owedNow(v)]

\* _settleFunding reverts when the pool cannot pay what it owes.
Settled == settleFunding(updateFunding(m))
CanSettle == FundingReadable(m) /\ owedNow(updateFunding(m)) <= m.lpPool

-----------------------------------------------------------------------------
(***************************************************************************)
(* Margin, equity, prices and fills                                        *)
(***************************************************************************)

equity(v) ==
    v.margin + pnl(v.size, v.entryPrice, price)
             + fundingOwed(v.size, pendingIndex(v) - v.lastFundingIndex)

marginReq(size, bps) == CeilDiv(notional(size, price) * bps, BPS)

isLiquidatable(v) ==
    v.size # 0 /\ equity(v) < marginReq(v.size, params.maintenanceMarginBps)

executionPrice(delta) ==
    LET impact == (params.spreadBps * WAD) \div BPS
                  + (notional(delta, price) * WAD) \div params.depthUsd
        capped == Min2(impact, (params.maxImpactBps * WAD) \div BPS)
    IN  IF delta > 0 THEN CeilDiv(price * (WAD + capped), WAD)
        ELSE (price * (WAD - capped)) \div WAD

\* Mutant: a gain is paid out of a pool that cannot cover it.
CanFillUncovered(v, delta, p) == p > 0

\* _applyFill: a loss is credited to the pool in full, a gain must be covered,
\* and PerpMath.applyTrade refuses a zero price.
CanFill(v, delta, p) ==
    p > 0 /\ tradeRealized(v.size, v.entryPrice, delta, p) <= v.lpPool

\* Mutant: open interest is only ever added to.
applyFillGrossInterest(v, delta, p) ==
    LET realized == tradeRealized(v.size, v.entryPrice, delta, p)
        newSize == v.size + delta
    IN  [v EXCEPT !.size = newSize,
                  !.entryPrice = tradeEntry(v.size, v.entryPrice, delta, p),
                  !.longOpenInterest = @ + Pos(delta),
                  !.shortOpenInterest = @ + Pos(-delta),
                  !.lpPool = @ - realized,
                  !.margin = @ + realized,
                  !.realizedPnl = @ + realized]

applyFill(v, delta, p) ==
    LET realized == tradeRealized(v.size, v.entryPrice, delta, p)
        newSize == v.size + delta
    IN  [v EXCEPT !.size = newSize,
                  !.entryPrice = tradeEntry(v.size, v.entryPrice, delta, p),
                  !.longOpenInterest = @ - Pos(v.size) + Pos(newSize),
                  !.shortOpenInterest = @ - Pos(-v.size) + Pos(-newSize),
                  !.lpPool = @ - realized,
                  !.margin = @ + realized,
                  !.realizedPnl = @ + realized]

chargeFee(v, fee) ==
    [v EXCEPT !.margin = @ - fee, !.insuranceFund = @ + fee, !.feesPaid = @ + fee]

takerFee(delta, p) == CeilDiv(notional(delta, p) * params.takerFeeBps, BPS)

\* A flip counts as risk-increasing even when it makes the position smaller.
IncreasesRisk(oldSize, newSize) ==
    \/ abs(newSize) > abs(oldSize)
    \/ oldSize # 0 /\ newSize # 0 /\ (newSize > 0) # (oldSize > 0)

\* Mutant: the check looks at the cash margin, not at the equity.
MeetsInitialMarginInCash(v) == v.margin >= marginReq(v.size, params.initialMarginBps)

MeetsInitialMargin(v) == equity(v) >= marginReq(v.size, params.initialMarginBps)

\* liquidate: the penalty is capped by what is left of the margin.
chargePenalty(v, closedSize) ==
    LET penalty == Min2((notional(closedSize, price) * params.liquidationPenaltyBps) \div BPS,
                        Pos(v.margin))
    IN  [v EXCEPT !.margin = @ - penalty,
                  !.insuranceFund = @ + penalty,
                  !.liquidationPenalties = @ + penalty]

Debt(v) == Pos(-v.margin)
DebtBeyondInsurance(v) == Pos(Debt(v) - v.insuranceFund)

\* Mutant: the written-off loss is not recorded in the account's statistics.
writeOffUnrecorded(v) ==
    [v EXCEPT !.margin = Pos(@),
              !.insuranceFund = Pos(@ - Debt(v)),
              !.lpPool = @ - DebtBeyondInsurance(v)]

\* liquidate: bad debt is absorbed by insurance first, then by the pool.
writeOff(v) ==
    [v EXCEPT !.margin = Pos(@),
              !.insuranceFund = Pos(@ - Debt(v)),
              !.lpPool = @ - DebtBeyondInsurance(v),
              !.badDebt = @ + Debt(v)]

-----------------------------------------------------------------------------
(***************************************************************************)
(* PerpAdapter: PnL measured against the mark at execution                 *)
(***************************************************************************)

\* Mutant: the stored entry is averaged in even when the venue has closed the
\* position it belonged to.
adapterAfterTradeStale(v, delta) ==
    LET exec == executionPrice(delta)
        gap == notional(delta, abs(exec - price))
        held == IF v.size = 0 /\ adapter.markEntryPrice # 0 THEN delta ELSE v.size
    IN  [markEntryPrice |-> tradeEntry(held, adapter.markEntryPrice, delta, price),
         cumulativeSlippage |-> adapter.cumulativeSlippage + gap]

\* PerpAdapter.trade after the venue call; v is the venue before the call.
adapterAfterTrade(v, delta) ==
    LET exec == executionPrice(delta)
        gap == notional(delta, abs(exec - price))
        adverse == IF delta > 0 THEN exec >= price ELSE exec <= price
    IN  [markEntryPrice |-> tradeEntry(v.size, adapter.markEntryPrice, delta, price),
         cumulativeSlippage |-> adapter.cumulativeSlippage + (IF adverse THEN gap ELSE -gap)]

\* markAccounting(): a liquidation flattens the account behind the adapter's back.
markEntry == IF m.size = 0 THEN 0 ELSE adapter.markEntryPrice

-----------------------------------------------------------------------------
(***************************************************************************)
(* Transactions                                                            *)
(***************************************************************************)

Init ==
    /\ m = [size |-> 0, entryPrice |-> 0, margin |-> 0, lastFundingIndex |-> 0,
            fundingRatePer8h |-> 0, cumulativeFundingIndex |-> 0, lastFundingUpdate |-> 0,
            lpPool |-> InitialPool, insuranceFund |-> 0,
            longOpenInterest |-> 0, shortOpenInterest |-> 0,
            realizedPnl |-> 0, fundingPnl |-> 0, feesPaid |-> 0,
            liquidationPenalties |-> 0, badDebt |-> 0]
    /\ params \in {p \in ParamChoices : ValidParams(p)}
    /\ balance = InitialPool
    /\ wallet = InitialWallet
    /\ adapter = [markEntryPrice |-> 0, cumulativeSlippage |-> 0]
    /\ price \in Prices \ {0}
    /\ now = 0
    /\ txs = 0
    /\ openMarks = {}

SetParams(p) ==
    /\ Transaction
    /\ ValidParams(p)
    /\ params' = p
    /\ UNCHANGED <<m, balance, wallet, adapter, price, now, openMarks>>

\* Mutant: the new rate also prices the time that already went by.
SetFundingRateRetroactive(r) ==
    /\ Transaction
    /\ abs(r) <= MAX_FUNDING_RATE
    /\ FundingReadable(m)
    /\ m' = [m EXCEPT !.fundingRatePer8h = r]
    /\ UNCHANGED <<params, balance, wallet, adapter, price, now, openMarks>>

SetFundingRate(r) ==
    /\ Transaction
    /\ abs(r) <= MAX_FUNDING_RATE
    /\ FundingReadable(m)
    /\ m' = [updateFunding(m) EXCEPT !.fundingRatePer8h = r]
    /\ UNCHANGED <<params, balance, wallet, adapter, price, now, openMarks>>

FundPool(amount) ==
    /\ Transaction
    /\ balance + amount <= MaxBalance
    /\ m' = [m EXCEPT !.lpPool = @ + amount]
    /\ balance' = balance + amount
    /\ UNCHANGED <<params, wallet, adapter, price, now, openMarks>>

\* With nothing to reduce the call still settles funding.
SimulateAdl(reduceBps) ==
    LET s == Settled
        reduce == -mulDivSigned(s.size, reduceBps, BPS)
    IN  /\ Transaction
        /\ reduceBps # 0 /\ reduceBps <= BPS
        /\ CanSettle
        /\ \/ s.size = 0 /\ m' = s
           \/ /\ s.size # 0 /\ price > 0
              /\ CanFill(s, reduce, price)
              /\ m' = applyFill(s, reduce, price)
        /\ openMarks' = IF m'.size = 0 THEN {} ELSE openMarks
        /\ UNCHANGED <<params, balance, wallet, adapter, price, now>>

DepositMargin(amount) ==
    /\ Transaction
    /\ amount # 0 /\ amount <= wallet
    /\ CanSettle
    /\ m' = [Settled EXCEPT !.margin = @ + amount]
    /\ balance' = balance + amount
    /\ wallet' = wallet - amount
    /\ UNCHANGED <<params, adapter, price, now, openMarks>>

WithdrawMargin(amount) ==
    LET s == [Settled EXCEPT !.margin = @ - amount]
    IN  /\ Transaction
        /\ amount # 0
        /\ CanSettle
        /\ s.margin >= 0
        /\ s.size # 0 => price > 0 /\ MeetsInitialMargin(s)
        /\ m' = s
        /\ balance' = balance - amount
        /\ wallet' = wallet + amount
        /\ UNCHANGED <<params, adapter, price, now, openMarks>>

Trade(delta, acceptablePrice) ==
    LET s == Settled
        exec == executionPrice(delta)
        r == chargeFee(applyFill(s, delta, exec), takerFee(delta, exec))
    IN  /\ Transaction
        /\ delta # 0
        /\ CanSettle
        /\ price > 0
        /\ IF delta > 0 THEN exec <= acceptablePrice ELSE exec >= acceptablePrice
        /\ CanFill(s, delta, exec)
        /\ IncreasesRisk(s.size, r.size) => MeetsInitialMargin(r)
        /\ m' = r
        /\ adapter' = adapterAfterTrade(s, delta)
        /\ openMarks' = IF r.size = 0 THEN {}
                        ELSE IF (r.size > 0) # (s.size > 0) \/ s.size = 0 THEN {price}
                        ELSE IF Increases(s.size, delta) THEN openMarks \cup {price}
                        ELSE openMarks
        /\ UNCHANGED <<params, balance, wallet, price, now>>

Liquidate ==
    LET s == Settled
        f == chargePenalty(applyFill(s, -s.size, price), s.size)
    IN  /\ Transaction
        /\ CanSettle
        /\ price > 0
        /\ isLiquidatable(s)
        /\ CanFill(s, -s.size, price)
        /\ DebtBeyondInsurance(f) <= f.lpPool
        /\ m' = writeOff(f)
        /\ openMarks' = {}
        /\ UNCHANGED <<params, balance, wallet, adapter, price, now>>

\* The feed publishes, fails or recovers; the venue reads it raw.
FeedAnswers(p) ==
    /\ price' = p
    /\ UNCHANGED <<m, params, balance, wallet, adapter, now, txs, openMarks>>

Tick ==
    /\ now < MaxTime
    /\ now' = now + 1
    /\ UNCHANGED <<m, params, balance, wallet, adapter, price, txs, openMarks>>

Next ==
    \/ \E p \in ParamChoices : SetParams(p)
    \/ \E r \in Rates : SetFundingRate(r)
    \/ \E a \in Amounts : FundPool(a) \/ DepositMargin(a) \/ WithdrawMargin(a)
    \/ \E b \in AdlBps : SimulateAdl(b)
    \/ \E d \in SizeDeltas, limit \in AcceptablePrices : Trade(d, limit)
    \/ Liquidate
    \/ \E p \in Prices : FeedAnswers(p)
    \/ Tick

Spec == Init /\ [][Next]_vars

-----------------------------------------------------------------------------
(***************************************************************************)
(* Properties                                                              *)
(***************************************************************************)

\* The venue's storage stays in the ranges of its Solidity types: the pool and
\* the insurance fund are unsigned, the margin is signed.
TypeOK ==
    /\ m \in Market
    /\ params \in ParamChoices
    /\ balance \in Nat
    /\ wallet \in Nat
    /\ adapter \in [markEntryPrice : Nat, cumulativeSlippage : Int]
    /\ price \in Prices
    /\ now \in Nat
    /\ txs \in Nat
    /\ openMarks \subseteq Prices

\* Conservation, the identity the comment in _applyFill states: the USDC the
\* venue holds is exactly the signed margin plus the pool plus the insurance
\* fund, through funding, fills, fees, penalties and written-off debt.
Conservation == balance = m.margin + m.lpPool + m.insuranceFund

\* Every unit of margin is explained by what was posted and by the account
\* statistics PositionManager.pnl reads: realised PnL, funding, fees,
\* penalties and written-off debt.
MarginAttribution ==
    m.margin = (InitialWallet - wallet) + m.realizedPnl + m.fundingPnl
               - m.feesPaid - m.liquidationPenalties + m.badDebt

\* Open interest counts the account's position once, on its side, through
\* flips, auto-deleveraging and liquidation; an entry price exists exactly
\* while there is a position.
OpenInterestMatches ==
    /\ m.longOpenInterest = Pos(m.size)
    /\ m.shortOpenInterest = Pos(-m.size)
    /\ (m.entryPrice = 0) = (m.size = 0)

\* The entry the adapter reports belongs to the position that is open now: a
\* liquidation or auto-deleveraging that flattened an earlier position behind
\* the adapter's back leaves no trace in it.
MarkEntryFromThisPosition ==
    m.size # 0 => /\ \E lo \in openMarks : lo <= markEntry
                  /\ \E hi \in openMarks : markEntry <= hi

\* What the comment on struct Account promises ("a funding/PnL settlement larger
\* than the posted collateral is represented exactly until liquidation resolves
\* it as bad debt"): no debt outlives the position, since liquidate() is the only
\* resolution and it needs a position.
DebtOnlyWhileLiquidatable == m.size = 0 => m.margin >= 0

\* A new funding rate never prices time that has already gone by:
\* setFundingRate leaves the account's equity, pending funding included, as it was.
NoRetroactiveFunding ==
    [][m.fundingRatePer8h # m'.fundingRatePer8h => equity(m)' = equity(m)]_vars

\* The account's owner cannot make a healthy account liquidatable in the same
\* block by posting, withdrawing or increasing a position: the initial margin
\* check covers the execution price, the fee and settled funding.
NoSelfInflictedLiquidation ==
    [][(/\ m' # m
        /\ UNCHANGED <<price, now, params>>
        /\ price > 0
        /\ m'.size # 0
        /\ IncreasesRisk(m.size, m'.size) \/ m'.size = m.size
        /\ ~isLiquidatable(m))
       => ~isLiquidatable(m)']_vars
=============================================================================
