--------------------------- MODULE RebalanceManager ---------------------------
(***************************************************************************)
(* The rebalancer at work (RebalanceManager.sol): a keeper that upkeeps and *)
(* observes, a strategist that moves the targets, depositors, and a market  *)
(* that moves between any two of their transactions.  The trades are those  *)
(* of StrategyBook; a transaction that reverts changes nothing.             *)
(***************************************************************************)
EXTENDS RebalancePlan

CONSTANTS
    Capital,            \* what depositors brought first
    Deposits,           \* later deposits
    Prices, Gaps,       \* prices of WETH, and hours between two of them
    Fundings,           \* funding rates per eight hours, in FundingUnit
    Liquidity,          \* as in StrategyManager
    TargetSets, Bounds, \* targets the strategist may set, and their bounds
    MaxCalls, MaxMoves  \* bounds: transactions, and changes outside

Targets == [leverage : Nat \ {0}, hedgeRatio : Nat, reserve : 0..BPS, defensiveReserve : 0..BPS]

ASSUME RebalanceAssumption ==
    /\ Capital \in Nat /\ Deposits \subseteq Nat \ {0} /\ Gaps \subseteq Nat
    /\ Prices \subseteq Nat \ {0} /\ Fundings \subseteq Int
    /\ Liquidity \subseteq [usdc : Int, weth : Int]
    /\ TargetSets \subseteq Targets
    /\ Bounds \in [maxLeverage : Nat, hedgeRatio : SUBSET Nat, minReserve : Nat, maxReserve : 0..BPS]
    /\ MaxCalls \in Nat /\ MaxMoves \in Nat

VARIABLES
    book, env,          \* as in StrategyManager; env.funding is the rate now
    targets,
    obs,                \* [var, price, at]: ewmaVarianceWad and the last observation
    now, lastRebalanceAt,
    upkept,             \* what the upkeep did that just happened, if one did
    calls, moves
vars == <<book, env, targets, obs, now, lastRebalanceAt, upkept, calls, moves>>

\* Mutant: the reserve of a defensive market may be smaller than the usual one.
validTargetsLoose(t) ==
    /\ t.leverage \in LeverageFloor..Bounds.maxLeverage
    /\ t.hedgeRatio \in Bounds.hedgeRatio
    /\ t.reserve \in Bounds.minReserve..Bounds.maxReserve

(* _setTargets *)
validTargets(t) ==
    /\ t.leverage \in LeverageFloor..Bounds.maxLeverage
    /\ t.hedgeRatio \in Bounds.hedgeRatio
    /\ t.reserve \in Bounds.minReserve..Bounds.maxReserve
    /\ t.defensiveReserve \in t.reserve..BPS

solvent(b, l) == b.usdc.bal + l.usdc >= 0 /\ b.lent.bal + l.weth >= 0

(* The volatility is taken to be the reference until it is observed. *)
FirstObservation == [var |-> (((Params.volRef * Params.volRef) \div BPS) * VarUnit) \div BPS, price |-> 0, at |-> 0]

Init ==
    /\ book = EmptyBook(Capital)
    /\ \E p \in Prices, f \in Fundings, l \in {x \in Liquidity : solvent(EmptyBook(Capital), x)} :
           env = [price |-> p, mark |-> p, healthy |-> TRUE, feed |-> TRUE, lending |-> TRUE,
                  dex |-> TRUE, paused |-> FALSE, liquid |-> l, funding |-> f]
    /\ targets \in {t \in TargetSets : validTargets(t)}
    /\ obs = FirstObservation
    /\ now = Params.minInterval + 1 /\ lastRebalanceAt = 0
    /\ upkept = "no" /\ calls = 0 /\ moves = 0

-----------------------------------------------------------------------------
cooling == now < lastRebalanceAt + Params.minInterval

planWith(o) ==
    _plan(snapshot(book, env), targets, annualizedVolBps(o, env, now),
          withdrawable(book.usdc, env.liquid.usdc), cooling, env.paused)

(* checkUpkeep and previewRebalance *)
previewRebalance == planWith(obs)

(* performUpkeep: what executing a plan makes of the books. *)
PushToStrategy(b, e, x) == IF x > 0 THEN onCapitalReceived(b, e, x) ELSE b
Executed(b, e, plan) ==
    IF trades(plan)
    THEN executeRebalance(b, e, [longUsdDelta |-> plan.long, marginDelta |-> plan.margin,
                                 hedgeRatioBps |-> plan.h, slip |-> Params.maxSlippage])
    ELSE b
afterPlan(plan) == Executed(PushToStrategy(book, env, plan.sweep), env, plan)
passes(pre, post) == ~breached(metricsOf(pre), metricsOf(post))

(* The venue may liquidate the position before the rebalancer gets to it. *)
liquidatable == equity(book, env.mark) < marginReq(book.size, env.mark, MMR)

observed == observe(obs, env.price, now)

\* Mutant: an idle sweep counts as a rebalance.
StampedAlways(plan) == lastRebalanceAt' = now

\* Mutant: a trade that releases margin does not start the interval.
StampedDeposits(plan) == lastRebalanceAt' = IF trades(plan) /\ plan.margin >= 0 THEN now ELSE lastRebalanceAt

Stamped(plan) == lastRebalanceAt' = IF trades(plan) THEN now ELSE lastRebalanceAt

Upkept(plan, b) ==
    /\ plan.execute
    /\ b.ok /\ passes(snapshot(book, env), snapshot(b, env))
    /\ book' = b /\ Stamped(plan)
    /\ upkept' = IF ~trades(plan) THEN "swept" ELSE IF liquidatable THEN "rescued" ELSE "traded"

performUpkeep ==
    /\ calls < MaxCalls /\ calls' = calls + 1
    /\ env.healthy /\ ~env.paused
    /\ obs' = observed
    /\ \E plan \in {planWith(observed)} : \E b \in {afterPlan(plan)} : Upkept(plan, b)
    /\ UNCHANGED <<env, targets, now, moves>>

observeVolatility ==
    /\ env.healthy
    /\ obs' = observed /\ obs' # obs
    /\ UNCHANGED <<book, env, targets, now, lastRebalanceAt, upkept, calls, moves>>

setTargets ==
    /\ calls < MaxCalls /\ calls' = calls + 1
    /\ \E t \in TargetSets : t # targets /\ validTargets(t) /\ targets' = t
    /\ upkept' = "no"
    /\ UNCHANGED <<book, env, obs, now, lastRebalanceAt, moves>>

-----------------------------------------------------------------------------
Outside == moves < MaxMoves /\ moves' = moves + 1 /\ upkept' = "no"

Deposit ==
    /\ Outside
    /\ \E x \in Deposits : book' = [book EXCEPT !.vault = @ + x]
    /\ UNCHANGED <<env, targets, obs, now, lastRebalanceAt, calls>>

(* The oracle follows the market while it is healthy. *)
PriceMoves ==
    /\ Outside
    /\ \E p \in Prices, gap \in Gaps :
          /\ env' = [env EXCEPT !.mark = p, !.price = IF env.healthy THEN p ELSE @]
          /\ now' = now + gap
    /\ UNCHANGED <<book, targets, obs, lastRebalanceAt, calls>>

FundingMoves ==
    /\ Outside
    /\ \E f \in Fundings \ {env.funding} : env' = [env EXCEPT !.funding = f]
    /\ UNCHANGED <<book, targets, obs, now, lastRebalanceAt, calls>>

LiquidityMoves ==
    /\ Outside
    /\ \E l \in Liquidity \ {env.liquid} : solvent(book, l) /\ env' = [env EXCEPT !.liquid = l]
    /\ UNCHANGED <<book, targets, obs, now, lastRebalanceAt, calls>>

OracleFails ==
    /\ env.healthy /\ Outside
    /\ env' = [env EXCEPT !.healthy = FALSE]
    /\ UNCHANGED <<book, targets, obs, now, lastRebalanceAt, calls>>
OracleReturns ==
    /\ ~env.healthy
    /\ env' = [env EXCEPT !.healthy = TRUE, !.price = env.mark]
    /\ UNCHANGED <<book, targets, obs, now, lastRebalanceAt, calls, moves>>
    /\ upkept' = "no"

(* EmergencyController pauses and resumes the strategy. *)
Pauses ==
    /\ Outside
    /\ env' = [env EXCEPT !.paused = ~@]
    /\ UNCHANGED <<book, targets, obs, now, lastRebalanceAt, calls>>

Liquidation ==
    /\ Outside
    /\ Liquidated(book, env).ok /\ book' = Liquidated(book, env)
    /\ UNCHANGED <<env, targets, obs, now, lastRebalanceAt, calls>>

Next ==
    \/ performUpkeep \/ observeVolatility \/ setTargets
    \/ Deposit \/ PriceMoves \/ FundingMoves \/ LiquidityMoves
    \/ OracleFails \/ OracleReturns \/ Pauses \/ Liquidation

Spec == Init /\ [][Next]_vars

-----------------------------------------------------------------------------
TypeOK ==
    /\ book.ok /\ book.float = 0 /\ book.weth = 0
    /\ \A x \in {book.vault, book.usdc.bal, book.lent.bal, book.basis} : x \in Nat
    /\ env.price \in Prices /\ env.mark \in Prices /\ env.funding \in Fundings
    /\ targets \in TargetSets /\ targets.reserve <= targets.defensiveReserve
    /\ obs.var \in Nat /\ obs.price \in Prices \cup {0} /\ obs.at \in 0..now
    /\ lastRebalanceAt \in 0..now
    /\ upkept \in {"no", "swept", "traded", "rescued"}
    /\ calls \in 0..MaxCalls /\ moves \in 0..MaxMoves

(* What a keeper is shown is what its transaction will do: recording the
   volatility first does not change the plan. *)
PlanSurvivesObservation == env.healthy => planWith(observed) = previewRebalance

performs(b) == b.ok /\ passes(snapshot(book, env), snapshot(b, env))

goesThrough(plan) == plan.execute /\ ~liquidatable => performs(afterPlan(plan))

(* An upkeep that is due goes through when what the plan spends is covered by the reserve and by what the
   plan itself raises, fees included: then neither the venues' margin and
   slippage checks nor RiskManager stop it, whatever happened before. *)
funded(plan) ==
    Pos(plan.long) + Pos(plan.margin) + (IF plan.long < 0 THEN plan.cost ELSE 0)
    <= withdrawable(book.usdc, env.liquid.usdc) + book.vault + Pos(-plan.long) + Pos(-plan.margin)
FundedIsPerformed == \A plan \in {previewRebalance} : funded(plan) => goesThrough(plan)

(* Where the leverage band of a target ends, unless the volatility lowers it. *)
bandEnd(t) == (Max2(t.leverage, LeverageFloor) * (BPS + Params.leverageBand)) \div BPS

(* A book beyond the hard limit of leverage, or close to liquidation, is
   rebalanced at once: neither the interval nor the filters on cost and carry
   hold it back.  A target may be set so high that its band ends beyond the
   limit; then the leverage alone makes nothing due before the end of the band,
   only the warning of a liquidation does. *)
beyond(s) ==
    \/ _leverage(s) > Max2(Limits.leverage, bandEnd(targets))
    \/ s.perpSize # 0 /\ liquidationDistance(s) < Limits.liquidationWarn
UrgencyIsDue ==
    env.healthy /\ ~env.paused /\ snapshot(book, env).totalNav > 0 /\ beyond(snapshot(book, env))
    => \A plan \in {previewRebalance} : plan.execute /\ trades(plan)

(* Once an upkeep traded, nothing is due until something changes, the hour
   that has to pass included: the plan goes to the target, and the target is
   inside every band. *)
planLater ==
    _plan(snapshot(book, env), targets, annualizedVolBps(obs, env, now),
          withdrawable(book.usdc, env.liquid.usdc), FALSE, env.paused)
NoChurn == upkept = "traded" => ~planLater.execute

(* A target that the bounds admit can be held, at a number of rebalances a year
   (docs/strategy.md:107 and 124 have some ninety for 3x): right after the book
   was brought to its target the next plan is not urgent again.  It is, whatever
   the market does, if the target lies within the warning of a liquidation. *)
TargetCanBeHeld == upkept = "traded" => ~previewRebalance.urgent

(* A sweep of idle cash during the interval, or in place of a trade that was
   refused, touches neither leg and does not start the interval anew. *)
costs(b) == b.swapFees + b.swapSlippage + b.feesPaid + b.slippage
SweepsAreFree ==
    upkept' = "swept" /\ calls' # calls
    => /\ book'.size = book.size /\ book'.lent = book.lent /\ book'.margin = book.margin
       /\ costs(book') = costs(book) /\ lastRebalanceAt' = lastRebalanceAt

(* An allocation drift whose purchase does not pay for itself is not turned
   into a move of margin: that moves only with the long, for a leverage out of
   its band, for a first position, or when what there is of cash and of spare
   margin does not pay for the smallest purchase. *)
outOfBand(plan) == plan.triggers \cap {"LEVERAGE_HIGH", "LEVERAGE_LOW", "LIQUIDATION"} # {}
affordable(s, c, reserve) ==
    (Pos(cashFor(s, reserve, 0) + s.perpEquity - marginFor(s.longValue, c)) * c.lev) \div (c.lev + c.h)
contextNow == \* of the plan that is previewed
    LET vol == annualizedVolBps(obs, env, now)
    IN  context(snapshot(book, env), targets, vol, effectiveLeverageBps(targets, vol))
cannotBuy ==
    \A a \in {affordable(snapshot(book, env), contextNow, withdrawable(book.usdc, env.liquid.usdc))} :
        a = 0 \/ a < Params.minTrade
MarginMovesForAReason ==
    \A plan \in {previewRebalance} :
        plan.margin # 0 => plan.long # 0 \/ outOfBand(plan) \/ plan.urgent \/ book.size = 0 \/ cannotBuy

(* What the plan promised to cost is what it cost, but for the profit of the
   short that has to be turned into cash to release margin. *)
EstimateCoversCost ==
    calls' # calls /\ upkept' # "no"
    => \A plan \in {previewRebalance} :
          plan.margin >= 0 => costs(book') - costs(book) + Params.gasCost <= plan.cost + 4

(* Danger is acted upon at once, and no margin moves by itself. *)
ActsForAReason == UrgencyIsDue /\ MarginMovesForAReason
=============================================================================
