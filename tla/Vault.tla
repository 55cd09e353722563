-------------------------------- MODULE Vault --------------------------------
(***************************************************************************)
(* contracts/core/DeltaNeutralVault.sol with its FeeManager: shares over   *)
(* idle cash plus the strategy's NAV.  The strategy is seen through the    *)
(* interface the vault uses (valuation, availableLiquidity, withdrawLiquid,*)
(* unwindFor, onCapitalReceived); its NAV, its liquid part and the health  *)
(* of the oracle move by themselves.  One transaction is one step: the     *)
(* pricing window of the source opens and closes inside it.                *)
(***************************************************************************)
EXTENDS FixedPoint, Functions

CONSTANTS
    YEAR,                                   \* 365 days
    MAX_MANAGEMENT_FEE_BPS, MAX_PERFORMANCE_FEE_BPS, MAX_WITHDRAWAL_FEE_BPS,
    Recipients                              \* accounts that may receive fee shares

ASSUME FeeAssumption ==
    /\ YEAR \in Nat \ {0}
    /\ MAX_MANAGEMENT_FEE_BPS \in Nat
    /\ MAX_PERFORMANCE_FEE_BPS \in 0 .. BPS
    /\ MAX_WITHDRAWAL_FEE_BPS \in 0 .. (BPS - 1)

CONSTANTS
    Holders,                \* accounts that may own shares
    VIRTUAL_SHARES,         \* 10 ** _decimalsOffset(): 1e6 in the source
    InitialFees,            \* the fee rates of the deployment
    Caps, InitialCap,       \* deposit caps an admin sets; the cap of the deployment
    Amounts,                \* assets or shares users ask for, beside "everything"
    FeeChoices,             \* fee rates an admin sets
    NavMoves, Ticks,        \* NAV changes and time steps of the environment
    MaxTxs                  \* bound on the number of transactions

ASSUME VaultAssumption ==
    /\ Recipients \subseteq Holders
    /\ VIRTUAL_SHARES \in Nat \ {0}
    /\ Caps \subseteq Nat /\ InitialCap \in Caps /\ Amounts \subseteq Nat
    /\ NavMoves \subseteq Int /\ Ticks \subseteq Nat /\ MaxTxs \in Nat
    /\ FeeChoices \subseteq
           (0 .. MAX_MANAGEMENT_FEE_BPS) \X (0 .. MAX_PERFORMANCE_FEE_BPS)
             \X (0 .. MAX_WITHDRAWAL_FEE_BPS)
    /\ InitialFees \in FeeChoices

VARIABLES
    idle,           \* USDC held by the vault
    nav, liquid,    \* the strategy: its NAV, and the part withdrawLiquid can return
    dependent,      \* strategy.isPriceDependent(): it holds WETH or a perp position
    healthy,        \* the oracle answers OK or FALLBACK
    shares, totalSupply,
    fee,            \* FeeManager's storage, see below
    depositCap,
    gates,          \* EmergencyController flags the vault and the strategy read
    now, txs,       \* block time (positive), number of transactions so far
    profit,         \* history: assets gained by the shares, rounded up
    emptied         \* history: the last share was burnt while assets remained

strategyVars == <<nav, liquid, dependent, healthy>>
adminVars == <<depositCap, gates>>
vars == <<idle, strategyVars, shares, totalSupply, fee, adminVars, now, txs, profit, emptied>>

GateNames == {"depositsPaused", "strategyPaused", "isShutdown"}

-----------------------------------------------------------------------------
(***************************************************************************)
(* The fee arithmetic of contracts/core/FeeManager.sol.  The contract's    *)
(* state is a record f with the three rates, the recipient, lastAccrual    *)
(* (0 until the first accrual), the high-water mark hwm (WAD-scaled assets *)
(* per share unit) and the performance fees taken so far, in assets.  Only *)
(* the vault calls accrue, so the state is the vault's variable fee.       *)
(***************************************************************************)
FeeState == [management : 0 .. MAX_MANAGEMENT_FEE_BPS,
             performance : 0 .. MAX_PERFORMANCE_FEE_BPS,
             withdrawal : 0 .. MAX_WITHDRAWAL_FEE_BPS,
             recipient : Recipients,
             lastAccrual : Nat, hwm : Nat, performanceAssets : Nat]

-----------------------------------------------------------------------------
(***************************************************************************)
(* _compute, step by step: a is the assets and s the share supply the fees *)
(* are measured on.                                                        *)
(***************************************************************************)

\* Nothing is charged on an empty vault or before the clock has started.
Chargeable(f, a, s) == s > 0 /\ a > 0 /\ f.lastAccrual > 0

\* Shares that hand over the fraction mgmt * dt / YEAR of the vault.
managementShares(f, s, t) ==
    LET fraction == (f.management * Pos(t - f.lastAccrual) * WAD) \div (BPS * YEAR)
    IN  IF fraction < WAD THEN (s * fraction) \div (WAD - fraction) ELSE 0

sharePriceOf(a, s) == (a * WAD) \div s

\* The part of the gain above the high-water mark that is due, in assets.
performanceDue(f, a, s1) ==
    LET gain == (Pos(sharePriceOf(a, s1) - f.hwm) * s1) \div WAD
        due  == (gain * f.performance) \div BPS
    IN  IF due < a THEN due ELSE 0

performanceShares(f, a, s1) ==
    LET due == performanceDue(f, a, s1) IN (due * s1) \div (a - due)

\* Mutant: the mark is set to the price before the fee shares are minted, also
\* when that price is below the old mark.
markAfterFollowsPrice(f, a, s1) == sharePriceOf(a, s1 + performanceShares(f, a, s1))

\* Mutant: the mark is never raised, so the same gain is charged again.
markAfterNeverRaised(f, a, s1) == f.hwm

\* The mark is the price after the fee shares are minted, and never falls.
markAfter(f, a, s1) ==
    IF sharePriceOf(a, s1) > f.hwm
    THEN sharePriceOf(a, s1 + performanceShares(f, a, s1))
    ELSE f.hwm

-----------------------------------------------------------------------------
\* previewAccrual: the shares an accrual at time t would mint.
feeShares(f, a, s, t) ==
    IF ~Chargeable(f, a, s) THEN 0
    ELSE LET m == managementShares(f, s, t)
         IN  m + performanceShares(f, a, s + m)

\* accrue: the fee state after it.  The clock always restarts.
accrue(f, a, s, t) ==
    IF ~Chargeable(f, a, s) THEN [f EXCEPT !.lastAccrual = t]
    ELSE LET s1   == s + managementShares(f, s, t)
             paid == IF performanceShares(f, a, s1) = 0 THEN 0 ELSE performanceDue(f, a, s1)
         IN  [f EXCEPT !.lastAccrual = t,
                       !.hwm = markAfter(f, a, s1),
                       !.performanceAssets = @ + paid]

\* setFees, within the compile-time caps.
setFees(f, m, p, w) == [f EXCEPT !.management = m, !.performance = p, !.withdrawal = w]

-----------------------------------------------------------------------------
(***************************************************************************)
(* The withdrawal fee: on a net amount, and contained in a gross amount.   *)
(***************************************************************************)
feeOnRaw(f, assets) == CeilDiv(assets * f.withdrawal, BPS)

\* Mutant: the contained fee is rounded in favour of the redeemer.
feeOnTotalFloor(f, assets) == (assets * f.withdrawal) \div (f.withdrawal + BPS)

feeOnTotal(f, assets) == CeilDiv(assets * f.withdrawal, f.withdrawal + BPS)

-----------------------------------------------------------------------------
(***************************************************************************)
(* Pricing.                                                                *)
(***************************************************************************)
totalAssets == idle + nav

\* Mutant: the health of the oracle is ignored.
isOperationalAlways == TRUE

\* _computeOperational
isOperational == ~dependent \/ healthy

\* _pendingFeeShares: measured on the virtual price, nothing on an empty vault.
pendingFeeShares ==
    IF totalSupply = 0 THEN 0
    ELSE feeShares(fee, totalAssets + 1, totalSupply + VIRTUAL_SHARES, now)

\* The supply every conversion divides by, fees due now and virtual shares included.
PricedSupply == totalSupply + pendingFeeShares + VIRTUAL_SHARES

SharesDown(assets) == (assets * PricedSupply) \div (totalAssets + 1)

\* Mutant: the shares burnt for an amount are rounded down.
SharesUpFloor(assets) == (assets * PricedSupply) \div (totalAssets + 1)

SharesUp(assets) == CeilDiv(assets * PricedSupply, totalAssets + 1)
AssetsDown(s) == (s * (totalAssets + 1)) \div PricedSupply
AssetsUp(s) == CeilDiv(s * (totalAssets + 1), PricedSupply)

previewWithdraw(assets) == SharesUp(assets + feeOnRaw(fee, assets))
previewRedeem(s) == AssetsDown(s) - feeOnTotal(fee, AssetsDown(s))

availableLiquidity == idle + liquid

maxDeposit ==
    IF gates["depositsPaused"] \/ gates["isShutdown"] \/ ~isOperational THEN 0
    ELSE Pos(depositCap - totalAssets)

\* Mutant: the limit in shares is rounded up.
maxMintRoundedUp == IF maxDeposit = 0 THEN 0 ELSE SharesUp(maxDeposit)

maxMint == IF maxDeposit = 0 THEN 0 ELSE SharesDown(maxDeposit)

\* The limits of an owner with this balance.
maxWithdraw(balance) ==
    IF ~isOperational THEN 0
    ELSE Min2(previewRedeem(balance), availableLiquidity)

maxRedeem(balance) ==
    IF ~isOperational THEN 0
    ELSE LET gross == (availableLiquidity * BPS) \div (BPS - fee.withdrawal)
         IN  Min2(balance, SharesDown(gross))

-----------------------------------------------------------------------------
Init ==
    /\ idle = 0 /\ nav = 0 /\ liquid = 0
    /\ dependent = FALSE /\ healthy = TRUE
    /\ shares = [h \in Holders |-> 0] /\ totalSupply = 0
    /\ \E r \in Recipients :
          fee = [management |-> InitialFees[1], performance |-> InitialFees[2],
                 withdrawal |-> InitialFees[3], recipient |-> r,
                 lastAccrual |-> 0, hwm |-> WAD \div VIRTUAL_SHARES, performanceAssets |-> 0]
    /\ depositCap = InitialCap
    /\ gates = [g \in GateNames |-> FALSE]
    /\ now = 1 /\ txs = 0
    /\ profit = 0 /\ emptied = FALSE

-----------------------------------------------------------------------------
(***************************************************************************)
(* The pieces a transaction is made of.                                    *)
(***************************************************************************)

\* _openPricing: the fee state after the accrual, and who holds what then.
Accrued ==
    IF ~isOperational THEN fee
    ELSE IF totalSupply = 0 THEN accrue(fee, 0, 0, now)
    ELSE accrue(fee, totalAssets + 1, totalSupply + VIRTUAL_SHARES, now)

SharesAfterFees == [shares EXCEPT ![fee.recipient] = @ + pendingFeeShares]

\* Value left to the shares beyond their part at the price of the window.
Gift(assetsAfter, supplyAfter) ==
    assetsAfter + 1 - ((totalAssets + 1) * (supplyAfter + VIRTUAL_SHARES)) \div PricedSupply

History(assetsAfter, supplyAfter) ==
    /\ profit' = profit + Gift(assetsAfter, supplyAfter)
    /\ emptied' = (emptied \/ (supplyAfter = 0 /\ assetsAfter > 0))

\* One more transaction.
Tx == txs < MaxTxs /\ txs' = txs + 1

\* Mutant: the balances are read before the fee shares are minted.
EnterStaleBalances(receiver, assets, minted) ==
    /\ minted > 0
    /\ fee' = Accrued
    /\ shares' = [shares EXCEPT ![receiver] = @ + minted]
    /\ totalSupply' = totalSupply + pendingFeeShares + minted
    /\ idle' = idle + assets
    /\ History(totalAssets + assets, totalSupply')
    /\ UNCHANGED <<strategyVars, adminVars, now>>

\* _deposit: the shares minted must not be zero; the cash stays idle.
Enter(receiver, assets, minted) ==
    /\ minted > 0
    /\ fee' = Accrued
    /\ shares' = [SharesAfterFees EXCEPT ![receiver] = @ + minted]
    /\ totalSupply' = totalSupply + pendingFeeShares + minted
    /\ idle' = idle + assets
    /\ History(totalAssets + assets, totalSupply')
    /\ UNCHANGED <<strategyVars, adminVars, now>>

\* _burn, which reverts on a balance that is too small; neither the balance nor
\* the supply of an ERC-20 goes below zero.
Burn(owner, burnt) ==
    /\ burnt <= SharesAfterFees[owner]
    /\ burnt <= totalSupply + pendingFeeShares
    /\ fee' = Accrued
    /\ shares' = [SharesAfterFees EXCEPT ![owner] = @ - burnt]
    /\ totalSupply' = totalSupply + pendingFeeShares - burnt

\* Mutant: the strategy hands out more than it has at hand.
DeliveredInFull(wanted) == Pos(wanted)

\* strategy.withdrawLiquid(wanted): returns what it has, up to wanted.
Delivered(wanted) == Min2(Pos(wanted), liquid)

\* _withdraw: what idle cash does not cover comes from the strategy's liquid
\* part, or the call reverts with InsufficientLiquidity.
Leave(owner, assets, burnt) ==
    /\ Burn(owner, burnt)
    /\ LET got == Delivered(assets - idle)
       IN  /\ idle + got >= assets
           /\ idle' = idle + got - assets
           /\ nav' = nav - got /\ liquid' = liquid - got
    /\ History(totalAssets - assets, totalSupply')
    /\ UNCHANGED <<dependent, healthy, adminVars, now>>

-----------------------------------------------------------------------------
(***************************************************************************)
(* Entry points.                                                           *)
(***************************************************************************)
Deposit(receiver, assets) ==
    /\ Tx
    /\ assets <= maxDeposit
    /\ Enter(receiver, assets, SharesDown(assets))

Mint(receiver, minted) ==
    /\ Tx
    /\ minted <= maxMint
    /\ Enter(receiver, AssetsUp(minted), minted)

Withdraw(owner, assets) ==
    /\ Tx
    /\ assets > 0 /\ assets <= maxWithdraw(SharesAfterFees[owner])
    /\ Leave(owner, assets, previewWithdraw(assets))

Redeem(owner, burnt) ==
    /\ Tx
    /\ burnt > 0 /\ burnt <= maxRedeem(SharesAfterFees[owner])
    /\ Leave(owner, previewRedeem(burnt), burnt)

\* redeemWithUnwind: idle cash, then the liquid part, then unwindFor, which
\* needs a running strategy and a valid price.  unwindFor delivers at most what
\* it is asked for; its costs reduce the delivery, so the NAV falls by at least
\* the delivery and at most by the request.
RedeemWithUnwind(owner, burnt) ==
    /\ Tx
    /\ burnt > 0 /\ isOperational
    /\ Burn(owner, burnt)
    /\ LET gross   == previewRedeem(burnt)
           got     == Delivered(gross - idle)
           missing == Pos(gross - idle - got)
       IN  \E delivered \in {0, missing \div 2, missing}, lost \in {0, 1} :
             /\ delivered + lost <= missing
             /\ got + delivered + lost <= nav
             /\ missing > 0 => healthy /\ ~gates["strategyPaused"]
             /\ LET paid == Min2(gross, idle + got + delivered)
                IN  /\ idle' = idle + got + delivered - paid
                    /\ nav' = nav - got - delivered - lost
                    /\ History(totalAssets - lost - paid, totalSupply')
             /\ liquid' = liquid - got
    /\ UNCHANGED <<dependent, healthy, adminVars, now>>

AccrueFees ==
    /\ Tx
    /\ isOperational
    /\ fee' = Accrued
    /\ shares' = SharesAfterFees
    /\ totalSupply' = totalSupply + pendingFeeShares
    /\ UNCHANGED <<idle, strategyVars, adminVars, now, profit, emptied>>

\* Called by the rebalance manager; the strategy parks the cash in its reserve.
PushToStrategy(amount) ==
    /\ Tx
    /\ amount <= idle
    /\ idle' = idle - amount
    /\ nav' = nav + amount /\ liquid' = liquid + amount
    /\ UNCHANGED <<dependent, healthy, shares, totalSupply, fee, adminVars, now, profit, emptied>>

\* ERC-20 transfer of shares.
Transfer(from, to, amount) ==
    /\ Tx
    /\ from # to /\ amount > 0 /\ amount <= shares[from]
    /\ shares' = [shares EXCEPT ![from] = @ - amount, ![to] = @ + amount]
    /\ UNCHANGED <<idle, strategyVars, totalSupply, fee, adminVars, now, profit, emptied>>

-----------------------------------------------------------------------------
(***************************************************************************)
(* Administration: none of these accrues fees first.                       *)
(***************************************************************************)
SetFees(rates) ==
    /\ Tx
    /\ fee' = setFees(fee, rates[1], rates[2], rates[3])
    /\ UNCHANGED <<idle, strategyVars, shares, totalSupply, adminVars, now, profit, emptied>>

SetFeeRecipient(r) ==
    /\ Tx
    /\ fee' = [fee EXCEPT !.recipient = r]
    /\ UNCHANGED <<idle, strategyVars, shares, totalSupply, adminVars, now, profit, emptied>>

SetDepositCap(cap) ==
    /\ Tx
    /\ depositCap' = cap
    /\ UNCHANGED <<idle, strategyVars, shares, totalSupply, fee, gates, now, profit, emptied>>

-----------------------------------------------------------------------------
(***************************************************************************)
(* Environment: the emergency controller, the strategy, the oracle, time.  *)
(***************************************************************************)
SetGates(g) ==
    /\ Tx
    /\ gates["isShutdown"] => g["isShutdown"]
    /\ g["isShutdown"] => g["depositsPaused"] /\ g["strategyPaused"]
    /\ gates' = g
    /\ UNCHANGED <<idle, strategyVars, shares, totalSupply, fee, depositCap, now, profit, emptied>>

\* The strategy trades and is marked to market.  Cash is all liquid or parked
\* in the lending pool, so less than the NAV may be available at once.
StrategyMove(move, available, positions) ==
    /\ Tx
    /\ nav + move >= 0
    /\ available <= nav + move
    /\ move # 0 => nav > 0 /\ positions
    /\ nav' = nav + move /\ liquid' = available /\ dependent' = positions
    /\ profit' = profit + Pos(move)
    /\ UNCHANGED <<idle, healthy, shares, totalSupply, fee, adminVars, now, emptied>>

\* The emergency unwind and a rebalance that raises cash pay into the vault.
ReturnToVault(amount) ==
    /\ Tx
    /\ amount > 0 /\ amount <= nav
    /\ idle' = idle + amount
    /\ nav' = nav - amount /\ liquid' = Min2(liquid, nav - amount)
    /\ UNCHANGED <<dependent, healthy, shares, totalSupply, fee, adminVars, now, profit, emptied>>

OracleFlips ==
    /\ Tx
    /\ healthy' = ~healthy
    /\ UNCHANGED <<idle, nav, liquid, dependent, shares, totalSupply, fee, adminVars, now, profit, emptied>>

Tick(dt) ==
    /\ Tx
    /\ now' = now + dt
    /\ UNCHANGED <<idle, strategyVars, shares, totalSupply, fee, adminVars, profit, emptied>>

-----------------------------------------------------------------------------
UserCall ==
    \/ \E h \in Holders, x \in Amounts :
          Deposit(h, x) \/ Mint(h, x) \/ Withdraw(h, x) \/ Redeem(h, x)
    \/ \E h \in Holders :
          Withdraw(h, maxWithdraw(shares[h])) \/ Redeem(h, maxRedeem(shares[h]))
    \/ \E h \in Holders : \E x \in Amounts \cup {shares[h]} : RedeemWithUnwind(h, x)
    \/ \E h, k \in Holders : Transfer(h, k, shares[h])
    \/ AccrueFees
    \/ \E x \in Amounts \cup {idle} : PushToStrategy(x)

AdminCall ==
    \/ \E rates \in FeeChoices : SetFees(rates)
    \/ \E r \in Recipients : SetFeeRecipient(r)
    \/ \E cap \in Caps : SetDepositCap(cap)

Environment ==
    \/ \E g \in [GateNames -> BOOLEAN] : SetGates(g)
    \/ \E move \in NavMoves, positions \in BOOLEAN :
          \E available \in {0, nav + move} : StrategyMove(move, available, positions)
    \/ ReturnToVault(nav)
    \/ OracleFlips
    \/ \E dt \in Ticks : Tick(dt)

Next == UserCall \/ AdminCall \/ Environment

Spec == Init /\ [][Next]_vars

-----------------------------------------------------------------------------
TypeOK ==
    /\ idle \in Nat /\ nav \in Nat /\ liquid \in 0 .. nav
    /\ dependent \in BOOLEAN /\ healthy \in BOOLEAN
    /\ shares \in [Holders -> Nat] /\ totalSupply \in Nat
    /\ fee \in FeeState
    /\ depositCap \in Caps /\ gates \in [GateNames -> BOOLEAN]
    /\ now \in Nat \ {0} /\ txs \in 0 .. MaxTxs
    /\ profit \in Nat /\ emptied \in BOOLEAN

\* Every share belongs to a holder: what fees mint, entries mint and exits burn
\* is what the total supply, and so every price, counts
\* (ProtocolInvariants.t.sol:89).
SupplyIsSumOfShares == totalSupply = SumFunction(shares)

\* maxWithdraw never over-promises: the owner has the shares that withdrawing it
\* burns, whatever the fee and the roundings of the three conversions, and the
\* cash is there (DeltaNeutralVault.maxWithdraw, previewWithdraw, previewRedeem).
MaxWithdrawIsPayable ==
    \A h \in Holders :
        /\ previewWithdraw(maxWithdraw(shares[h])) <= shares[h]
        /\ maxWithdraw(shares[h]) <= availableLiquidity

\* The same promise for maxRedeem: what redeeming it pays is available
\* (DeltaNeutralVault.sol:181, "shares whose net-of-fee redemption fits in the
\* available liquidity").
MaxRedeemIsPayable ==
    \A h \in Holders : previewRedeem(maxRedeem(shares[h])) <= availableLiquidity

\* Performance fees are a part of what the shares have earned: as long as the
\* vault was never emptied, however deposits, losses, exits and rate changes are
\* interleaved, the fees taken never exceed the cap's part of all gains
\* (FeeManager._compute and its high-water mark).
FeesWithinProfit == fee.performanceAssets * BPS <= MAX_PERFORMANCE_FEE_BPS * profit

PerformanceFeesNeedProfit == ~emptied => FeesWithinProfit

\* No call of a user ever lowers the price of a share for the others: deposits,
\* mints, withdrawals, redemptions, unwinds and accruals at most dilute by the
\* fees already pending (roundings and withdrawal fees stay in the vault).
PriceFalls ==
    (totalAssets' + 1) * PricedSupply < (totalAssets + 1) * (totalSupply' + VIRTUAL_SHARES)

PriceNeverFalls == [][PriceFalls => ~UserCall]_vars

\* "After a loss the HWM stays put": no accrual, and nothing else, lowers it.
HighWaterMarkNeverFalls == [][fee'.hwm >= fee.hwm]_vars

\* An accrual takes everything due: nothing is pending right after it, so
\* accruing twice in a block charges once.
FeesCrystalliseOnce == [][pendingFeeShares' > 0 => ~AccrueFees]_vars

\* An entry never takes the vault over its cap, whichever way it is rounded.
OverCap == totalSupply' > totalSupply /\ totalAssets' > totalAssets /\ totalAssets' > depositCap

CapHonoured == [][OverCap => ~UserCall]_vars

\* While positions are open and the oracle is unhealthy the NAV is not trusted:
\* no share is minted or burnt on it and no fee is crystallised.
NothingPricedWhileUntrusted ==
    [][dependent /\ ~healthy =>
          UNCHANGED <<totalSupply, fee.hwm, fee.performanceAssets, fee.lastAccrual>>]_vars
=============================================================================
