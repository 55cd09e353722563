--------------------------- MODULE StrategyManager --------------------------
(***************************************************************************)
(* The strategy at work: the calls of the vault, of the rebalancer and of  *)
(* the guardian (StrategyManager.sol) over the books of StrategyBook, in    *)
(* any order with what happens outside: prices, interest, funding, venue    *)
(* liquidations and deleveraging, and venues and feeds that fail and come   *)
(* back.  A call that reverts changes nothing and is not a step.            *)
(***************************************************************************)
EXTENDS StrategyBook

CONSTANTS
    Capital,        \* what depositors bring
    Prices,         \* prices of WETH
    Exits,          \* gross amounts depositors take out
    Plans,          \* plans the rebalancer may execute
    Interests,      \* interest earned per period
    Fundings,       \* funding accrued per period
    Liquidity,      \* of each asset: the deposits of others less the debt
    Tolerance,      \* the guardian's bounds around the price
    MaxSlippage,    \* RiskManager.maxSlippageBps
    AdlShare,       \* share of the position a deleveraging takes
    MaxCalls, MaxMoves  \* bounds: calls, and changes outside

ASSUME StrategyAssumption ==
    /\ Capital \in Nat /\ MaxCalls \in Nat /\ MaxMoves \in Nat
    /\ Prices \subseteq Nat \ {0} /\ Prices # {}
    /\ \A s \in {Exits, Interests} : s \subseteq Nat
    /\ Fundings \subseteq Int /\ AdlShare \in Nat
    /\ Tolerance \in 0..BPS /\ MaxSlippage \in 0..BPS
    /\ Liquidity \subseteq [usdc : Int, weth : Int]
    /\ Plans \subseteq [longUsdDelta : Int, marginDelta : Int, hedgeRatioBps : Nat, slip : 0..BPS]

VARIABLES
    book,           \* the strategy's books
    env,            \* prices, and which venues answer
    calls, moves    \* how many of each there were
vars == <<book, env, calls, moves>>

nav == book.vault + strategyNav(book, env)

(* A pool has lent no more than it was given. *)
solvent(b, l) == b.usdc.bal + l.usdc >= 0 /\ b.lent.bal + l.weth >= 0

Init ==
    /\ book = EmptyBook(Capital)
    /\ \E p \in Prices, l \in {x \in Liquidity : solvent(EmptyBook(Capital), x)} :
           env = [price |-> p, mark |-> p, healthy |-> TRUE, feed |-> TRUE,
                  lending |-> TRUE, dex |-> TRUE, paused |-> FALSE, liquid |-> l]
    /\ calls = 0 /\ moves = 0

-----------------------------------------------------------------------------
(* Calls: one that does not revert, from a book that is not in one. *)

Call(b) ==
    /\ calls < MaxCalls /\ calls' = calls + 1
    /\ b.ok /\ book' = b
    /\ UNCHANGED <<env, moves>>

(* RebalanceManager.performUpkeep: the idle cash goes to the strategy first,
   and a plan that only sweeps ends there.  Which plan is its own matter. *)
upkeepAllowed == env.healthy /\ ~env.paused
swept == IF book.vault > 0 THEN onCapitalReceived(book, env, book.vault) ELSE book

SweepIdle == upkeepAllowed /\ book.vault > 0 /\ Call(swept)
Rebalance == upkeepAllowed /\ \E plan \in Plans : Call(executeRebalance(swept, env, plan))

(* Vault: what a payout takes from the strategy, and the payout itself. *)
PaidOut(b, x) == [b EXCEPT !.vault = @ - x]

isOperational == (wethHeld(book, env) > 0 \/ book.size # 0) => env.healthy

(* DeltaNeutralVault._withdraw: within what maxWithdraw reports *)
Withdraw ==
    /\ isOperational
    /\ \E x \in Exits :
          /\ x <= Min2(book.vault + availableLiquidity(book, env), nav)
          /\ LET b == IF book.vault < x THEN withdrawLiquid(book, env, x - book.vault) ELSE book
             IN  b.vault >= x /\ Call(PaidOut(b, x))

(* DeltaNeutralVault.redeemWithUnwind, after the shares are burnt: what the
   unwinding did not deliver is not paid. *)
afterUnwind(b, e, gross) ==
    LET need == gross - b.vault
        l == IF need > 0 THEN withdrawLiquid(b, e, need) ELSE b
    IN  IF need > 0 /\ l.vault < gross THEN [unwindFor(l, e, gross - l.vault, MaxSlippage) EXCEPT !.ok = @ /\ l.ok]
        ELSE l

RedeemWithUnwind ==
    /\ isOperational
    /\ \E x \in Exits :
          /\ x <= nav
          /\ LET b == afterUnwind(book, env, x) IN Call(PaidOut(b, Min2(x, b.vault)))

(* EmergencyController.emergencyUnwind: pauses the strategy and unwinds, within
   the guardian's bounds around the market. *)
Unwound(b, e) ==
    emergencyUnwind(b, e, (e.mark * (BPS - Tolerance)) \div BPS, (e.mark * (BPS + Tolerance)) \div BPS)

EmergencyUnwind ==
    /\ calls < MaxCalls /\ calls' = calls + 1
    /\ book' = Unwound(book, env)
    /\ env' = [env EXCEPT !.paused = TRUE]
    /\ UNCHANGED moves

(* The guardian calls again: not counted, nothing else of it is new. *)
GuardianRepeats ==
    /\ env.paused
    /\ book' = Unwound(book, env)
    /\ UNCHANGED <<env, calls, moves>>

-----------------------------------------------------------------------------
(* Outside *)

Move(b, e) ==
    /\ moves < MaxMoves /\ moves' = moves + 1
    /\ book' = b /\ env' = e
    /\ UNCHANGED calls

(* The oracle follows the market while it is healthy. *)
PriceMoves ==
    \E p \in Prices :
        p # env.mark /\ Move(book, [env EXCEPT !.mark = p, !.price = IF env.healthy THEN p ELSE @])

FeedFails == env.feed /\ Move(book, [env EXCEPT !.feed = FALSE])
OracleFails == env.healthy /\ Move(book, [env EXCEPT !.healthy = FALSE])
LendingFails == env.lending /\ Move(book, [env EXCEPT !.lending = FALSE])
DexFails == env.dex /\ Move(book, [env EXCEPT !.dex = FALSE])

FeedReturns == /\ ~env.feed /\ env' = [env EXCEPT !.feed = TRUE] /\ UNCHANGED <<book, calls, moves>>
OracleReturns ==
    /\ ~env.healthy
    /\ env' = [env EXCEPT !.healthy = TRUE, !.price = env.mark]
    /\ UNCHANGED <<book, calls, moves>>
LendingReturns == /\ ~env.lending /\ env' = [env EXCEPT !.lending = TRUE] /\ UNCHANGED <<book, calls, moves>>
LiquidityReturns ==
    /\ env.liquid.usdc < 0 \/ env.liquid.weth < 0
    /\ \E l \in Liquidity : l.usdc >= 0 /\ l.weth >= 0 /\ env' = [env EXCEPT !.liquid = l]
    /\ UNCHANGED <<book, calls, moves>>
DexReturns == /\ ~env.dex /\ env' = [env EXCEPT !.dex = TRUE] /\ UNCHANGED <<book, calls, moves>>

LiquidityMoves ==
    \E l \in Liquidity : l # env.liquid /\ solvent(book, l) /\ Move(book, [env EXCEPT !.liquid = l])

Interest ==
    \E i \in Interests :
        /\ book.usdc.bal + book.lent.bal > 0
        /\ Move([book EXCEPT !.usdc.bal = @ + (IF @ > 0 THEN i ELSE 0),
                             !.lent.bal = @ + (IF @ > 0 THEN i ELSE 0)], env)

(* Funding accrues, and somebody moves the venue's index. *)
Funding ==
    \E f \in Fundings :
        book.size # 0 /\ Move([book EXCEPT !.pending = @ + f, !.accruing = TRUE], env)
IndexMoves ==
    book.accruing /\ env.feed /\ Move([book EXCEPT !.accruing = FALSE], env)

Liquidation == Liquidated(book, env).ok /\ Move(Liquidated(book, env), env)
Deleveraging == Deleveraged(book, env, AdlShare).ok /\ Move(Deleveraged(book, env, AdlShare), env)

-----------------------------------------------------------------------------
Next ==
    \/ SweepIdle \/ Rebalance \/ Withdraw \/ RedeemWithUnwind
    \/ EmergencyUnwind \/ GuardianRepeats
    \/ PriceMoves \/ LiquidityMoves \/ Interest \/ Funding \/ IndexMoves \/ Liquidation \/ Deleveraging
    \/ FeedFails \/ OracleFails \/ LendingFails \/ DexFails
    \/ FeedReturns \/ OracleReturns \/ LendingReturns \/ DexReturns \/ LiquidityReturns

Spec == Init /\ [][Next]_vars

(* The guardian calls again until nothing is left, an outage ends, and debt is
   repaid.  The first conjunct is WF_vars(GuardianRepeats), with its ENABLED
   written out. *)
somethingToUnwind == env.paused /\ Unwound(book, env) # book
Fairness ==
    /\ []<>~somethingToUnwind \/ []<><<GuardianRepeats>>_vars
    /\ WF_vars(FeedReturns) /\ WF_vars(LendingReturns) /\ WF_vars(DexReturns)
    /\ WF_vars(LiquidityReturns)
FairSpec == Spec /\ Fairness

-----------------------------------------------------------------------------
(* Every amount that is unsigned in the code is one, and no call leaves USDC
   or WETH lying in the strategy but a sale of the emergency that failed. *)
Unsigned ==
    /\ \A l \in {book.usdc, book.lent} : l.bal >= 0 /\ l.last >= 0 /\ l.chk >= 0
    /\ \A x \in {book.vault, book.weth, book.basis, book.swapFees, book.entry, book.feesPaid,
                 book.penalties, book.badDebt, book.markEntry} : x >= 0
    /\ book.float = 0
    /\ book.weth > 0 => env.paused

TypeOK ==
    /\ book \in Book /\ book.ok
    /\ Unsigned
    /\ env.price \in Prices /\ env.mark \in Prices /\ env.liquid \in Liquidity
    /\ calls \in 0..MaxCalls /\ moves \in 0..MaxMoves

(* Whatever was traded, settled, liquidated, written off or left behind by a
   failed step, and whichever venue has to be read from its last checkpoint,
   the lines of the report add up to the change of the net asset value, to the
   last unit; but not while the feed is down and funding has eaten more than
   the margin. *)
residual == strategyNav(book, env) - book.netCapital - netPnl(attribution(book, env))
Reconciles == env.feed \/ book.margin >= 0 => residual = 0

(* What the vault reports as liquid is delivered in full by the call that
   pays it. *)
QuotedIsDelivered ==
    LET a == availableLiquidity(book, env)
        b == withdrawLiquid(book, env, a)
    IN  a > 0 => b.ok /\ b.vault = book.vault + a

(* Whichever steps failed when the strategy was unwound, repeating the call
   brings everything home once the venues answer. *)
Empty == book.size = 0 /\ book.margin <= 0 /\ book.weth = 0 /\ book.lent.bal = 0 /\ book.usdc.bal = 0
EmergencyEmptiesStrategy == env.paused ~> []Empty

(* An exit that unwinds is paid by the one who leaves: what stays is worth at
   least what it was less the gross amount (four units for the roundings of
   the unwinding).  Not so for a position the venue could liquidate: the share
   of its equity that leaves may be less than what its closing costs. *)
liquidatable == equity(book, env.mark) < marginReq(book.size, env.mark, MMR)
RemainingUndiluted ==
    \A x \in Exits :
        (LET b == afterUnwind(book, env, x)
         IN  ~liquidatable /\ RedeemWithUnwind /\ book' = PaidOut(b, Min2(x, b.vault)))
        => nav' >= nav - x - 4

(* With no WETH left there is no cost basis left that a later sale would be
   measured against. *)
BasisWithLong == wethHeld(book, env) = 0 => book.basis = 0
=============================================================================
