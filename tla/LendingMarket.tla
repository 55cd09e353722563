---------------------------- MODULE LendingMarket ----------------------------
(***************************************************************************)
(* One reserve of contracts/mocks/MockLendingProtocol.sol, with            *)
(* contracts/adapters/LendingAdapter.sol as one of its suppliers.          *)
(* Borrowers are a virtual debt, as in the source: the pool keeps every    *)
(* token it was given and mints the interest of its suppliers.             *)
(***************************************************************************)
EXTENDS FixedPoint

CONSTANTS
    Suppliers, Adapter,     \* accounts with a balance; the protocol's adapter
    YEAR,                   \* 365 days in the source
    Models, InitialModel,   \* rate models an owner sets; the one of initReserve
    Utilizations,           \* targets of setUtilization, in WAD
    Amounts,                \* tokens supplied or withdrawn, beside "everything"
    MaxCash,                \* bound on the tokens in the pool
    MaxTime, MaxTxs         \* bounds on the clock and on the transactions

\* _validateModel
ValidModel(x) ==
    /\ x.optimalUtilization \in 1 .. (WAD - 1)
    /\ x.reserveFactor \in 0 .. (WAD - 1)

RateModel == [baseRate : Nat, slope1 : Nat, slope2 : Nat, optimalUtilization : Nat, reserveFactor : Nat]

ASSUME LendingAssumption ==
    /\ Adapter \in Suppliers
    /\ YEAR \in Nat \ {0}
    /\ Models \subseteq RateModel /\ InitialModel \in Models /\ ValidModel(InitialModel)
    /\ Utilizations \subseteq Nat /\ Amounts \subseteq Nat
    /\ MaxCash \in Nat /\ MaxTime \in Nat /\ MaxTxs \in Nat

VARIABLES
    r,              \* the Reserve, with the tokens the pool holds as r.cash
    scaledBalanceOf,
    ledger,         \* LendingAdapter: principal, interest checkpointed, last balance
    now, txs,       \* block time, number of transactions
    net             \* history: tokens paid in minus tokens taken out, per supplier

vars == <<r, scaledBalanceOf, ledger, now, txs, net>>

Reserve == [liquidityIndex : Nat, totalScaled : Nat, totalDebt : Nat, lastUpdate : Nat,
            model : RateModel, cash : Nat]

-----------------------------------------------------------------------------
(***************************************************************************)
(* Rates.                                                                  *)
(***************************************************************************)
utilization(supplied, debt) ==
    IF supplied = 0 THEN 0 ELSE Min2((debt * WAD) \div supplied, WAD)

borrowRateAt(x, u) ==
    IF u <= x.optimalUtilization
    THEN x.baseRate + (x.slope1 * u) \div x.optimalUtilization
    ELSE LET excess == ((u - x.optimalUtilization) * WAD) \div (WAD - x.optimalUtilization)
         IN  x.baseRate + x.slope1 + (x.slope2 * excess) \div WAD

supplyRateAt(x, u) ==
    (((borrowRateAt(x, u) * u) \div WAD) * (WAD - x.reserveFactor)) \div WAD

-----------------------------------------------------------------------------
(***************************************************************************)
(* Accrual: linear interest over the elapsed time.                         *)
(***************************************************************************)
Underlying(scaled, index) == (scaled * index) \div WAD

Elapsed(v) == Pos(now - v.lastUpdate)

utilizationOf(v) == utilization(Underlying(v.totalScaled, v.liquidityIndex), v.totalDebt)

Grown(x, rate, dt) == (x * (WAD + (rate * dt) \div YEAR)) \div WAD

projectedIndex(v) ==
    Grown(v.liquidityIndex, supplyRateAt(v.model, utilizationOf(v)), Elapsed(v))

projectedDebt(v) ==
    Grown(v.totalDebt, borrowRateAt(v.model, utilizationOf(v)), Elapsed(v))

\* Mutant: the interest minted is rounded down.
mintedInterestFloor(v) ==
    Underlying(v.totalScaled, projectedIndex(v) - v.liquidityIndex)

mintedInterest(v) ==
    CeilDiv(v.totalScaled * (projectedIndex(v) - v.liquidityIndex), WAD)

accrue(v) ==
    IF v.lastUpdate = now THEN v
    ELSE [v EXCEPT !.liquidityIndex = projectedIndex(v), !.totalDebt = projectedDebt(v),
                   !.lastUpdate = now, !.cash = @ + mintedInterest(v)]

Accrued == accrue(r)

totalSupplied(v) == Underlying(v.totalScaled, v.liquidityIndex)

available(v) == Pos(totalSupplied(v) - v.totalDebt)

\* The views of the pool are those of the reserve after an accrual.
balanceOf(u) == Underlying(scaledBalanceOf[u], Accrued.liquidityIndex)

-----------------------------------------------------------------------------
(***************************************************************************)
(* Supply and withdrawal at the pool.                                      *)
(***************************************************************************)
scaledFor(v, amount) == (amount * WAD) \div v.liquidityIndex

scaledBurn(v, u, amount) == Min2(CeilDiv(amount * WAD, v.liquidityIndex), scaledBalanceOf[u])

poolSupply(u, amount) ==
    LET minted == scaledFor(Accrued, amount)
    IN  /\ amount > 0
        /\ Accrued.cash + amount <= MaxCash
        /\ r' = [Accrued EXCEPT !.cash = @ + amount, !.totalScaled = @ + minted]
        /\ scaledBalanceOf' = [scaledBalanceOf EXCEPT ![u] = @ + minted]
        /\ net' = [net EXCEPT ![u] = @ + amount]

\* The burn and the token transfer revert when they would go below zero.
CanWithdraw(v, u, amount) ==
    /\ amount > 0
    /\ amount <= Underlying(scaledBalanceOf[u], v.liquidityIndex)
    /\ amount <= available(v)
    /\ scaledBurn(v, u, amount) <= v.totalScaled
    /\ amount <= v.cash

poolWithdraw(u, amount) ==
    LET burnt == scaledBurn(Accrued, u, amount)
    IN  /\ CanWithdraw(Accrued, u, amount)
        /\ r' = [Accrued EXCEPT !.cash = @ - amount, !.totalScaled = @ - burnt]
        /\ scaledBalanceOf' = [scaledBalanceOf EXCEPT ![u] = @ - burnt]
        /\ net' = [net EXCEPT ![u] = @ - amount]

-----------------------------------------------------------------------------
(***************************************************************************)
(* The adapter's ledger.                                                   *)
(***************************************************************************)
\* _checkpoint: growth since the last balance is interest; a fall is not.
checkpointed == ledger.interest + Pos(balanceOf(Adapter) - ledger.lastBalance)

cumulativeInterest == checkpointed

\* Mutant: the liquidity is read before the debt of the elapsed time is added.
withdrawableStale == Min2(balanceOf(Adapter), available(r))

withdrawable == Min2(balanceOf(Adapter), available(Accrued))

balanceAfter == Underlying(scaledBalanceOf'[Adapter], r'.liquidityIndex)

\* Mutant: the last balance is not refreshed after a supply.
ledgerAfterSupplyStale(amount) ==
    [ledger EXCEPT !.principal = @ + amount, !.interest = checkpointed,
                   !.lastBalance = balanceOf(Adapter)]

ledgerAfterSupply(amount) ==
    [ledger EXCEPT !.principal = @ + amount, !.interest = checkpointed,
                   !.lastBalance = balanceAfter]

\* Mutant: a withdrawal is taken from the interest first.
ledgerAfterWithdrawalInterestFirst(amount) ==
    [ledger EXCEPT !.principal = Pos(@ - Pos(amount - checkpointed)), !.interest = checkpointed,
                   !.lastBalance = balanceAfter]

\* Mutant: a withdrawal is taken from the principal in full.
ledgerAfterWithdrawalInFull(amount) ==
    [ledger EXCEPT !.principal = @ - amount, !.interest = checkpointed, !.lastBalance = balanceAfter]

\* A withdrawal takes principal and interest in proportion.
ledgerAfterWithdrawal(amount) ==
    [ledger EXCEPT !.principal = @ - (@ * amount) \div balanceOf(Adapter),
                   !.interest = checkpointed, !.lastBalance = balanceAfter]

-----------------------------------------------------------------------------
(***************************************************************************)
(* Transactions.                                                           *)
(***************************************************************************)
Init ==
    /\ r = [liquidityIndex |-> WAD, totalScaled |-> 0, totalDebt |-> 0, lastUpdate |-> 0,
            model |-> InitialModel, cash |-> 0]
    /\ scaledBalanceOf = [u \in Suppliers |-> 0]
    /\ ledger = [principal |-> 0, interest |-> 0, lastBalance |-> 0]
    /\ now = 0 /\ txs = 0
    /\ net = [u \in Suppliers |-> 0]

Tx == txs < MaxTxs /\ txs' = txs + 1 /\ UNCHANGED now

\* Mutant: the elapsed time is priced with the new model.
SetRateModelRetroactive(x) ==
    /\ Tx
    /\ ValidModel(x)
    /\ r' = [r EXCEPT !.model = x]
    /\ UNCHANGED <<scaledBalanceOf, ledger, net>>

SetRateModel(x) ==
    /\ Tx
    /\ ValidModel(x)
    /\ r' = [Accrued EXCEPT !.model = x]
    /\ UNCHANGED <<scaledBalanceOf, ledger, net>>

SetUtilization(target) ==
    /\ Tx
    /\ target <= WAD
    /\ r' = [Accrued EXCEPT !.totalDebt = (totalSupplied(Accrued) * target) \div WAD]
    /\ UNCHANGED <<scaledBalanceOf, ledger, net>>

\* A supplier that is not the adapter.
Supply(u, amount) ==
    /\ Tx
    /\ u # Adapter
    /\ poolSupply(u, amount)
    /\ UNCHANGED ledger

Withdraw(u, amount) ==
    /\ Tx
    /\ u # Adapter
    /\ poolWithdraw(u, amount)
    /\ UNCHANGED ledger

AdapterSupply(amount) ==
    /\ Tx
    /\ poolSupply(Adapter, amount)
    /\ ledger' = ledgerAfterSupply(amount)

AdapterWithdraw(amount) ==
    /\ Tx
    /\ poolWithdraw(Adapter, amount)
    /\ ledger' = ledgerAfterWithdrawal(amount)

\* With nothing to withdraw the adapter's call still records its interest.
AdapterWithdrawNothing ==
    /\ Tx
    /\ ledger' = [ledger EXCEPT !.interest = checkpointed, !.lastBalance = balanceOf(Adapter)]
    /\ UNCHANGED <<r, scaledBalanceOf, net>>

Tick ==
    /\ now < MaxTime
    /\ now' = now + 1
    /\ UNCHANGED <<r, scaledBalanceOf, ledger, txs, net>>

Next ==
    \/ \E x \in Models : SetRateModel(x)
    \/ \E target \in Utilizations : SetUtilization(target)
    \/ \E u \in Suppliers, a \in Amounts : Supply(u, a) \/ Withdraw(u, a)
    \/ \E u \in Suppliers : Withdraw(u, balanceOf(u))
    \/ \E a \in Amounts : AdapterSupply(a) \/ AdapterWithdraw(a)
    \/ AdapterWithdraw(withdrawable)
    \/ AdapterWithdrawNothing
    \/ Tick

Spec == Init /\ [][Next]_vars

-----------------------------------------------------------------------------
\* The reserve, the scaled balances and the adapter's ledger never underflow.
TypeOK ==
    /\ r \in Reserve
    /\ r.liquidityIndex >= WAD /\ ValidModel(r.model)
    /\ scaledBalanceOf \in [Suppliers -> Nat]
    /\ ledger \in [principal : Nat, interest : Nat, lastBalance : Nat]
    /\ now \in Nat /\ r.lastUpdate <= now /\ txs \in Nat
    /\ net \in [Suppliers -> Int]

\* The pool holds at least what its suppliers own at the stored index, through
\* accruals, supplies and withdrawals of any size and rounding.
Solvency == totalSupplied(r) <= r.cash

\* What the adapter reports as withdrawable is paid by the pool if it is asked
\* for at that moment: the figure is computed on projected values, the
\* withdrawal on accrued ones.
WithdrawableIsPayable == withdrawable > 0 => CanWithdraw(Accrued, Adapter, withdrawable)

\* What the supplies and withdrawals so far may lose to rounding: one unit of
\* scaled balance and one token each.
RoundingLoss == txs * (CeilDiv(Accrued.liquidityIndex, WAD) + 1)

\* The interest the adapter reports is its earnings: what it paid in and did not
\* take out, plus that interest, is its balance but for the rounding of the
\* pool; interest is never counted twice over checkpoints, nor lost.
InterestExplainsBalance ==
    (net[Adapter] + cumulativeInterest) - balanceOf(Adapter) \in 0 .. RoundingLoss

\* The principal leaves in proportion with the balance it was paid for, so it
\* never exceeds that balance by more than rounding.
PrincipalWithinBalance == ledger.principal <= balanceOf(Adapter) + RoundingLoss

\* At one moment, no call of one account changes the balance of another, and
\* no supplier gets a balance it did not pay for.
CallsMoveOwnMoney ==
    [][now' = now => \A u \in Suppliers :
         IF net'[u] = net[u] THEN balanceOf(u)' = balanceOf(u)
         ELSE balanceOf(u)' - balanceOf(u) <= net'[u] - net[u]]_vars
=============================================================================
