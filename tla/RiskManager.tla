----------------------------- MODULE RiskManager -----------------------------
(***************************************************************************)
(* RiskManager.sol over the rebalancer and the oracle: the level of every   *)
(* metric, the state that is persisted and announced, the peak of the share *)
(* price, and the circuit breaker; and what the risk page and the API make  *)
(* of them (backend/src/views.ts, frontend RiskView.tsx).                   *)
(*                                                                          *)
(* The rebalancer sees the market through the feeds: the strategy prices at *)
(* the oracle's answer, and the venues mark at that of the first feed as it *)
(* is (MockPerpetualMarket.markPrice).  An hour is a unit of time for both. *)
(* The vault takes no fees, nobody withdraws, and the guardian does not     *)
(* shut the system down; Vault and EmergencyController are about that.      *)
(***************************************************************************)
EXTENDS RebalanceManager, OracleManager

CONSTANTS
    Config,     \* of every metric its thresholds [warn, high, critical]
    OpenPlan,   \* the rebalance that opened the positions
    Delev,      \* share of the position a venue may close by itself, in basis points
    Hours       \* bound: hours

NORMAL == 0
WARNING == 1
HIGH_RISK == 2
EMERGENCY == 3

HigherIsWorse == {"LEVERAGE", "DELTA", "DRAWDOWN", "EXPOSURE"}
LowerIsWorse == {"LIQUIDATION", "COLLATERAL"}

_ascending(t) == t.warn <= t.high /\ t.high <= t.critical /\ t.warn > 0
_descending(t) == t.warn >= t.high /\ t.high >= t.critical

(* What _setConfig accepts, and that the planner reads the same configuration. *)
ValidConfig ==
    /\ \A m \in HigherIsWorse : _ascending(Config[m])
    /\ \A m \in LowerIsWorse : _descending(Config[m])
    /\ Config["LEVERAGE"].high <= 5 * BPS /\ Config["LIQUIDATION"].high >= BPS \div 20
    /\ Config["EXPOSURE"].critical <= BPS /\ Config["FUNDING"].high <= Config["FUNDING"].warn
    /\ Params.maxSlippage \in 1..(BPS \div 20)
    /\ Limits.leverage = Config["LEVERAGE"].high /\ Limits.delta = Config["DELTA"].high
    /\ Limits.liquidation = Config["LIQUIDATION"].high /\ Limits.collateral = Config["COLLATERAL"].high
    /\ Limits.liquidationWarn = Config["LIQUIDATION"].warn

RiskAssumption ==
    /\ DOMAIN Config = HigherIsWorse \cup LowerIsWorse \cup {"FUNDING"}
    /\ \A m \in HigherIsWorse \cup LowerIsWorse : Config[m] \in [warn : Nat, high : Nat, critical : 0..Infinite]
    /\ Config["FUNDING"] \in [warn : Int, high : Int]
    /\ ValidConfig
    /\ OpenPlan \in [longUsdDelta : Int, marginDelta : Int, hedgeRatioBps : Nat, slip : 0..BPS]
    /\ Delev \in 0..BPS /\ Hours \in Nat /\ MarketPrices \subseteq Prices
ASSUME RiskAssumption

VARIABLES
    shares,             \* of the vault, each worth a dollar at first
    peakSharePrice, currentState,
    depositsPaused,     \* of EmergencyController
    events,             \* RiskStateChanged: [previous, new, flags]
    checked             \* nothing that is assessed changed since the last checkpoint
riskState == <<peakSharePrice, currentState, depositsPaused, events>>
riskVars == <<oracleVars, vars, shares, riskState, checked>>

-----------------------------------------------------------------------------
(* What the rebalancer and the venues see of the feeds *)

mark == feed["primary"].answer
answering == feed["primary"].up /\ feed["primary"].form # "zero"

Seen(p, m, h, f) == [env EXCEPT !.price = p, !.mark = m, !.healthy = h, !.feed = f]
FeedsAreSeen ==
    \E priced \in {tryGetPrice'} :
        env' = Seen(IF usable(priced.status) THEN priced.price ELSE lastGood'.price,
                    mark', usable(priced.status), answering')

(* DeltaNeutralVault.sharePrice *)
PPS == 10000
totalAssets(b, e) == b.vault + valuation(b, e)
sharePriceOf(b, e) == ((totalAssets(b, e) + 1) * PPS) \div (shares + 1)
sharePrice == sharePriceOf(book, env)

-----------------------------------------------------------------------------
(* Assessment *)

_higherWorse(v, t) ==
    IF v >= t.critical THEN EMERGENCY ELSE IF v >= t.high THEN HIGH_RISK ELSE IF v >= t.warn THEN WARNING ELSE NORMAL
_lowerWorse(v, t) ==
    IF v <= t.critical THEN EMERGENCY ELSE IF v <= t.high THEN HIGH_RISK ELSE IF v <= t.warn THEN WARNING ELSE NORMAL

exposure(s) ==
    IF s.totalNav <= 0 THEN 0
    ELSE Max2(((s.reserve + s.longValue) * BPS) \div s.totalNav, (s.perpEquity * BPS) \div s.totalNav)

(* Leverage is infinite when there is no equity, the ratio and the distance
   when there is no position. *)
_fillMetrics(s, pps, peak) ==
    [LEVERAGE |-> _leverage(s), DELTA |-> absDeltaBps(s),
     DRAWDOWN |-> IF peak = 0 THEN 0 ELSE ((peak - pps) * BPS) \div peak,
     LIQUIDATION |-> liquidationDistance(s), COLLATERAL |-> collateralRatio(s),
     FUNDING |-> fundingAprBps(s.funding), EXPOSURE |-> exposure(s)]

fundingLevel(s, apr) ==
    IF s.perpSize = 0 THEN NORMAL
    ELSE IF apr < Config["FUNDING"].high THEN HIGH_RISK ELSE IF apr < Config["FUNDING"].warn THEN WARNING ELSE NORMAL

highRiskIf(condition) == IF condition THEN HIGH_RISK ELSE NORMAL

(* The concentration on a venue is a warning at most; positions that cannot be
   priced are a high risk by themselves. *)
levels(s, m) ==
    [LEVERAGE |-> _higherWorse(m.LEVERAGE, Config["LEVERAGE"]),
     DELTA |-> _higherWorse(m.DELTA, Config["DELTA"]),
     DRAWDOWN |-> _higherWorse(m.DRAWDOWN, Config["DRAWDOWN"]),
     LIQUIDATION |-> _lowerWorse(m.LIQUIDATION, Config["LIQUIDATION"]),
     COLLATERAL |-> _lowerWorse(m.COLLATERAL, Config["COLLATERAL"]),
     EXPOSURE |-> Min2(_higherWorse(m.EXPOSURE, Config["EXPOSURE"]), WARNING),
     FUNDING |-> fundingLevel(s, m.FUNDING),
     POSITION_SIZE |-> highRiskIf(s.shortNotional > Limits.notional),
     ORACLE |-> highRiskIf(~s.priceHealthy /\ (s.longQty > 0 \/ s.perpSize # 0))]

Worst(S) == CHOOSE x \in S : \A y \in S : y <= x
Report(ls, metrics) ==
    [state |-> Worst({ls[f] : f \in DOMAIN ls}), flags |-> {f \in DOMAIN ls : ls[f] > NORMAL}, metrics |-> metrics]
Assessed(s, metrics) == Report(levels(s, metrics), metrics)

\* Mutant: the metrics are at the oracle's price.
_assessAtPrice(b, e, pps) ==
    LET s == snapshot(b, [e EXCEPT !.mark = e.price])
    IN  Assessed(s, _fillMetrics(s, pps, Max2(peakSharePrice, pps)))

_assessAt(b, e, pps) == Assessed(snapshot(b, e), _fillMetrics(snapshot(b, e), pps, Max2(peakSharePrice, pps)))
assess == _assessAt(book, env, sharePrice)

-----------------------------------------------------------------------------
(* What the API and the page show: riskView *)

(* The badge of a metric; one that is infinite has no value, and no level. *)
badge(v, t, higherIsWorse) ==
    IF v = Infinite THEN NORMAL ELSE IF higherIsWorse THEN _higherWorse(v, t) ELSE _lowerWorse(v, t)
metricRows(m) ==
    [LEVERAGE |-> badge(m.LEVERAGE, Config["LEVERAGE"], TRUE), DELTA |-> badge(m.DELTA, Config["DELTA"], TRUE),
     DRAWDOWN |-> badge(m.DRAWDOWN, Config["DRAWDOWN"], TRUE),
     LIQUIDATION |-> badge(m.LIQUIDATION, Config["LIQUIDATION"], FALSE),
     COLLATERAL |-> badge(m.COLLATERAL, Config["COLLATERAL"], FALSE),
     FUNDING |-> fundingLevel([perpSize |-> book.size], m.FUNDING),
     EXPOSURE |-> Min2(badge(m.EXPOSURE, Config["EXPOSURE"], TRUE), WARNING)]

riskViewOf(report) ==
    [state |-> report.state, persistedState |-> currentState, flags |-> report.flags,
     metrics |-> metricRows(report.metrics), peakSharePrice |-> peakSharePrice,
     oracle |-> [status |-> tryGetPrice.status, price |-> tryGetPrice.price, lastGood |-> lastGood,
                 shutdown |-> shutdown],
     liquidation |-> [distanceBps |-> report.metrics.LIQUIDATION, leverage |-> report.metrics.LEVERAGE],
     limits |-> [maxSlippageBps |-> Params.maxSlippage, maxPositionNotional |-> Limits.notional],
     circuitBreakers |-> [depositsPaused |-> depositsPaused, strategyPaused |-> env.paused, shutdown |-> FALSE]]
riskView == riskViewOf(assess)

(* The page: the state now and at the last checkpoint, with a row for each
   metric; the badge of the oracle, and one more when it was shut down. *)
RiskStateCard(r) ==
    [current |-> r.state, lastCheckpoint |-> r.persistedState, chips |-> r.flags, peak |-> r.peakSharePrice,
     rows |-> r.metrics]
SideCards(r) ==
    [oracle |-> {IF r.oracle.status = "OK" THEN "normal" ELSE IF r.oracle.status = "FALLBACK" THEN "warn" ELSE "crit"}
                \cup (IF r.oracle.shutdown THEN {"crit"} ELSE {}),
     price |-> r.oracle.price, lastGood |-> r.oracle.lastGood, breakers |-> r.circuitBreakers,
     limits |-> r.limits, liquidation |-> r.liquidation]

(* The changes of the state as the API lists them, newest first; and the rows
   of the table on the page. *)
riskEvents == Reverse(events)
RiskEventsTable ==
    [i \in DOMAIN riskEvents |-> [from |-> riskEvents[i].previous, to |-> riskEvents[i].new, chips |-> riskEvents[i].flags]]

-----------------------------------------------------------------------------
(* Transactions *)

Transaction == calls < MaxCalls /\ calls' = calls + 1

\* Mutant: the breaker trips only when the state becomes an emergency.
BreakerOnChange(state) ==
    depositsPaused' = (depositsPaused \/ (state = EMERGENCY /\ currentState # EMERGENCY))

Breaker(state) == depositsPaused' = (depositsPaused \/ state = EMERGENCY)

Change(from, report) == [previous |-> from, new |-> report.state, flags |-> report.flags]

\* Mutant: the event is of the state that was just stored.
AnnouncedStored(report) ==
    IF report.state = currentState THEN events ELSE Append(events, Change(report.state, report))

\* Mutant: a change is announced before it is stored and after it.
AnnouncedTwice(report) ==
    IF report.state = currentState THEN events
    ELSE Append(Append(events, Change(currentState, report)), Change(report.state, report))

Announced(report) == IF report.state = currentState THEN events ELSE Append(events, Change(currentState, report))

\* Mutant: the state is stored only when it is worse.
StoredWorse(state) == Max2(state, currentState)

Stored(state) == state

(* _checkpoint, of the book b: the peak first, then the assessment with it. *)
CheckpointAt(pps, report) ==
    /\ peakSharePrice' = Max2(peakSharePrice, pps)
    /\ events' = Announced(report) /\ currentState' = Stored(report.state)
    /\ Breaker(report.state) /\ checked' = TRUE
_checkpoint(b) == CheckpointAt(sharePriceOf(b, env), _assessAt(b, env, sharePriceOf(b, env)))

(* By a keeper. *)
checkpoint ==
    /\ Transaction /\ _checkpoint(book)
    /\ UNCHANGED <<oracleVars, book, env, targets, obs, now, lastRebalanceAt, upkept, moves, shares>>

(* performUpkeep ends with checkpointWith, of the book it made. *)
Upkeep ==
    /\ performUpkeep
    /\ \E b \in {book'} : _checkpoint(b)
    /\ UNCHANGED <<oracleVars, shares>>

(* EmergencyController: a guardian pauses, and an admin undoes it.  Nothing else
   of these transactions is kept, and they are not counted. *)
Breakers == UNCHANGED <<oracleVars, vars, shares, peakSharePrice, currentState, events>>
pauseDeposits ==
    /\ ~depositsPaused
    /\ depositsPaused' = TRUE /\ Breakers /\ UNCHANGED checked
unpauseDeposits ==
    /\ depositsPaused
    /\ depositsPaused' = FALSE /\ Breakers /\ checked' = FALSE

-----------------------------------------------------------------------------
(* Changes outside: what is assessed is no longer what was checkpointed. *)

Unchecked == checked' = FALSE /\ UNCHANGED riskState

operational == (wethHeld(book, env) > 0 \/ book.size # 0) => env.healthy
sharesFor(x) == (x * (shares + 1)) \div (totalAssets(book, env) + 1)
Invest ==
    /\ ~depositsPaused /\ operational
    /\ Deposit /\ shares' = shares + sharesFor(book'.vault - book.vault)
    /\ Unchecked /\ UNCHANGED oracleVars

(* The venue closes a part of the position by itself. *)
Deleverages ==
    /\ Outside
    /\ Deleveraged(book, env, Delev).ok /\ book' = Deleveraged(book, env, Delev)
    /\ UNCHANGED <<env, targets, obs, now, lastRebalanceAt, calls>>

VenueMoves ==
    /\ FundingMoves \/ Liquidation \/ Deleverages
    /\ Unchecked /\ UNCHANGED <<oracleVars, shares>>

HourPasses == now < Hours /\ now' = now + Hour /\ TimePasses

(* A feed goes on with its rounds, fails or comes back, an hour passes, the
   guardian shuts the oracle down, or the keeper pokes it. *)
FeedsMove ==
    /\ \/ HourPasses
       \/ (HonestRound \/ FeedFails \/ setShutdown \/ poke) /\ UNCHANGED now
    /\ FeedsAreSeen /\ Unchecked
    /\ UNCHANGED <<book, targets, obs, lastRebalanceAt, upkept, calls, moves, shares>>

(* An interval after the keeper opened the positions with the first capital. *)
Opened(e) == executeRebalance(onCapitalReceived(EmptyBook(Capital), e, Capital), e, OpenPlan)
RiskInit ==
    /\ \E p \in MarketPrices : feed = [f \in Feeds |-> NewFeed(p)] /\ lastGood = [price |-> p, at |-> 0]
    /\ shutdown = FALSE /\ oracleMoves = 0
    /\ \E f \in Fundings, l \in Liquidity :
          /\ solvent(EmptyBook(Capital), l)
          /\ env = [price |-> mark, mark |-> mark, healthy |-> TRUE, feed |-> TRUE, lending |-> TRUE,
                    dex |-> TRUE, paused |-> FALSE, liquid |-> l, funding |-> f]
    /\ book = Opened(env) /\ book.ok /\ shares = Capital
    /\ targets \in {t \in TargetSets : validTargets(t)}
    /\ lastRebalanceAt = Params.minInterval + 1 /\ now = lastRebalanceAt + Params.minInterval
    /\ obs = [FirstObservation EXCEPT !.price = mark, !.at = lastRebalanceAt]
    /\ upkept = "no" /\ calls = 0 /\ moves = 0
    /\ peakSharePrice = sharePrice /\ currentState = assess.state
    /\ depositsPaused = (currentState = EMERGENCY) /\ checked = TRUE
    /\ events = IF currentState = NORMAL THEN <<>> ELSE <<Change(NORMAL, assess)>>

RiskNext ==
    \/ checkpoint \/ Upkeep \/ pauseDeposits \/ unpauseDeposits
    \/ Invest \/ VenueMoves \/ FeedsMove
RiskSpec == RiskInit /\ [][RiskNext]_riskVars

-----------------------------------------------------------------------------
RiskTypeOK ==
    /\ book.ok /\ shares \in Nat /\ peakSharePrice \in Nat
    /\ currentState \in NORMAL..EMERGENCY /\ depositsPaused \in BOOLEAN /\ checked \in BOOLEAN
    /\ env = Seen(getPriceOrLastGood, mark, healthy, answering)

(* "Current state" and "Last checkpoint" of the risk page are the same until
   something moves: a checkpoint is of the peak it has just raised, so that one
   right after it would change neither the state nor the peak. *)
CheckpointIsStable ==
    checked => \A card \in {RiskStateCard(riskView)} :
                  card.current = card.lastCheckpoint /\ card.peak = Max2(card.peak, sharePrice)

(* The risk events tell the states without a gap: each begins where the one
   before ended, the newest ends at the persisted state, and only a return to
   normal raises no flag. *)
EventsAreAChain ==
    \A table \in {RiskEventsTable} :
       /\ \A i \in DOMAIN table :
             /\ table[i].from # table[i].to
             /\ table[i].from = IF i = Len(table) THEN NORMAL ELSE table[i + 1].to
             /\ table[i].chips = {} <=> table[i].to = NORMAL
       /\ currentState = IF table = <<>> THEN NORMAL ELSE table[1].to

(* Whoever unpaused the deposits meanwhile, a checkpoint of an emergency leaves
   them paused. *)
EmergencyPausesDeposits == checked /\ currentState = EMERGENCY => depositsPaused

(* The checkpoints, the events and the breaker tell one story. *)
CheckpointsHold == CheckpointIsStable /\ EventsAreAChain /\ EmergencyPausesDeposits

(* Of what the page shows: *)

(* Before the venue may liquidate the short, the assessment is an emergency:
   none of the metrics may lag behind the venue's mark. *)
LiquidatableIsEmergency(view) == Liquidated(book, env).ok => view.state = EMERGENCY

(* A keeper that is urged to trade is never urged for a book the risk page
   calls normal. *)
UrgentIsWarned(view) == env.healthy /\ previewRebalance.urgent => view.state >= WARNING

(* Positions whose oracle the page marks as critical are a high risk on the
   same page: the feeds, the last good price and the books agree on it. *)
UnpricedIsShown(view) ==
    (wethHeld(book, env) > 0 \/ book.size # 0) /\ "crit" \in SideCards(view).oracle
    => RiskStateCard(view).current >= HIGH_RISK

(* An emergency of a short that is worth anything has a row of the page that is
   one, although an infinite leverage has no level there. *)
EmergencyIsExplained(view) ==
    notional(book.size, readMark(env)) > 0 /\ view.state = EMERGENCY
    => \E m \in DOMAIN view.metrics : RiskStateCard(view).rows[m] = EMERGENCY

(* What the venue may liquidate, the planner calls urgent or nobody can price,
   the assessment and the page know of. *)
DangerIsIn(view) ==
    /\ LiquidatableIsEmergency(view) /\ UrgentIsWarned(view)
    /\ UnpricedIsShown(view) /\ EmergencyIsExplained(view)
DangerIsAssessed == DangerIsIn(riskView)

(* What of the deployed configuration the assessment relies on: positions need
   margin, a short that is below what it needs is an emergency, and no bound
   from below is the number that stands for type(uint256).max. *)
SharpConfig ==
    /\ MMR > 0
    /\ Config["COLLATERAL"].critical >= BPS
    /\ \A m \in LowerIsWorse : Config[m].critical < Infinite

(* The metrics that are numbers are not the number that stands for
   type(uint256).max either, and the liquidation price was not divided by zero:
   the contract reverts then, and there is no assessment. *)
MetricsAreFinite ==
    \A m \in {assess.metrics} :
        /\ m.LIQUIDATION \in Int /\ m.DELTA # Infinite /\ m.DRAWDOWN # Infinite
        /\ snapshot(book, env).perpEquity # 0 => m.LEVERAGE # Infinite
=============================================================================
