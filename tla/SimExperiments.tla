--------------------------- MODULE SimExperiments ---------------------------
(***************************************************************************)
(* What the simulator's loop and model are used for: the scenario           *)
(* catalogue, and the search for the best parameters.                       *)
(*                                                                          *)
(* The catalogue (simulator/src/scenarios.ts) and the custom scenarios of   *)
(* the API: each is a price path with its conditions, simulated with the    *)
(* keeper and then, from the start, without.  Scenario F, a seeded random   *)
(* path, is left out: SimEngine chooses its paths freely.  The deposit and  *)
(* the strategy are constants, so that a request with its own deposit,      *)
(* leverage or reserve is another instance.                                 *)
(***************************************************************************)
EXTENDS SimEngine, FiniteSets

CONSTANTS
    Base,           \* baseMarket()
    StepHours,      \* hours from a point to the next
    Days,           \* length of a catalogue scenario
    CustomInputs,   \* requests for custom scenarios
    Shallow         \* venues of scenario H

VARIABLES
    scenario,       \* the scenario that is run
    results         \* the metrics of the runs that ended, with and without the keeper

scenarioVars == <<engineVars, scenario, results>>

DAY == 24

(* A request for a custom scenario.  What it says of the market is optional: a
   set of at most one; the depth of the venues is in percent of the usual one. *)
NoOverrides == [funding |-> {}, usdcUtilization |-> {}, wethUtilization |-> {}, liquidity |-> 100, outage |-> 0]
custom(movePct, moveDays, horizonDays, overrides) ==
    [movePct |-> movePct, moveDays |-> moveDays, horizonDays |-> horizonDays, over |-> overrides]
orElse(optional, usual) == IF optional = {} THEN usual ELSE CHOOSE x \in optional : TRUE

-----------------------------------------------------------------------------
(* Paths *)

(* a * (b/a)^(n/d), by halving the interval on a geometric scale: twelve times,
   which is finer than the unit of the price. *)
between(a, b, n, d) ==
    LET middle(s) == 2 * sqrt((s.a \div 2) * (s.b \div 2))
        halve(s, k) ==
          IF 2 * s.n < d THEN [s EXCEPT !.b = middle(s), !.n = 2 * @]
          ELSE [s EXCEPT !.a = middle(s), !.n = 2 * @ - d]
    IN  FoldLeft(halve, [a |-> a, b |-> b, n |-> n], [k \in 1..12 |-> k]).a

(* The price at an hour: constant before the first knot and after the last. *)
priceAt(knots, hour) ==
    LET last == Len(knots)
        k == CHOOSE j \in 2..last : hour <= knots[j].hour /\ \A i \in 2..(j - 1) : knots[i].hour < hour
    IN  IF knots = <<>> THEN Base.price
        ELSE IF hour <= knots[1].hour THEN knots[1].price
        ELSE IF hour >= knots[last].hour THEN knots[last].price
        ELSE between(knots[k-1].price, knots[k].price, hour - knots[k-1].hour, knots[k].hour - knots[k-1].hour)

(* What the scenario changes about the market at an hour. *)
mutate(s, pt, hour) ==
    CASE s.id = "C" /\ hour >= 2 * DAY ->
           [pt EXCEPT !.funding = IF hour < 12 * DAY THEN -5 ELSE 8]
      [] s.id = "D" /\ hour >= DAY -> [pt EXCEPT !.funding = -30]
      [] s.id = "E" /\ hour >= DAY -> [pt EXCEPT !.usdcUtilization = 1000, !.wethUtilization = 500]
      [] s.id = "G" -> [pt EXCEPT !.healthy = ~(hour >= 2 * DAY /\ hour < 5 * DAY)]
      [] s.id = "H" /\ hour >= DAY -> [pt EXCEPT !.venues = Shallow]
      [] s.id = "J" /\ hour >= DAY ->
           [pt EXCEPT !.funding = -50, !.usdcUtilization = 3000, !.wethUtilization = 2000]
      [] s.id = "CUSTOM" ->
           [pt EXCEPT !.funding = orElse(s.input.over.funding, @),
                      !.usdcUtilization = orElse(s.input.over.usdcUtilization, @),
                      !.wethUtilization = orElse(s.input.over.wethUtilization, @),
                      !.healthy = ~(s.input.over.outage > 0 /\ hour > 0 /\ hour <= s.input.over.outage * DAY)]
      [] OTHER -> pt

(* Base is of the usual venues; a custom scenario starts from its own. *)
scaled(v, percent) ==
    [v EXCEPT !.perpDepthUsd = Div(@, 100) * percent, !.dexDepthUsd = Div(@, 100) * percent]
baseOf(s) == [Base EXCEPT !.venues = scaled(@, s.input.over.liquidity)]
shockPath(s, hour) ==
    mutate(s, [baseOf(s) EXCEPT !.time = hour, !.price = priceAt(s.knots, hour)], hour)

-----------------------------------------------------------------------------
(* The catalogue *)

knot(day, price) == [hour |-> day * DAY, price |-> price]
shock(id, knots) == [id |-> id, days |-> Days, knots |-> knots, input |-> custom(0, 0, 0, NoOverrides)]

SCENARIOS ==
    {shock("A", <<knot(0, 30000), knot(5, 36000)>>),
     shock("B", <<knot(0, 30000), knot(5, 24000)>>),
     shock("C", <<knot(0, 30000), knot(10, 18000)>>),
     shock("D", <<>>),
     shock("E", <<>>),
     shock("G", <<knot(0, 30000), knot(2, 30000), knot(5, 34500)>>),
     shock("H", <<knot(0, 30000), knot(4, 25500)>>),
     shock("I", <<knot(0, 30000), knot(3, 48000)>>),
     shock("J", <<knot(0, 30000), knot(7, 21000)>>)}

\* Mutant: the horizon is taken as given, the length of the move aside.
horizonAsGiven(input) == Max2(input.horizonDays, 1)

horizon(input) == Max2(Max2(input.horizonDays, input.moveDays), 1)

customPrice(input) == 30000 + Div(30000 * input.movePct, 100)

runCustomScenario(input) ==
    [id |-> "CUSTOM", days |-> horizon(input), input |-> input,
     knots |-> <<knot(0, 30000),
                 [hour |-> Max2(input.moveDays * DAY, 1), price |-> customPrice(input)]>>]

-----------------------------------------------------------------------------
(* A scenario is run with the keeper, then without *)

(* Five of the eighteen metrics. *)
metrics(v, net) ==
    [vaultValue |-> v.nav, netPnl |-> net, maxAbsDelta |-> stats.maxAbsDelta, minLiq |-> stats.minLiq,
     liquidations |-> p.liquidations]

StartRun(m0) ==
    /\ m' = m0
    /\ \E o \in {Opened(m0)} :
          /\ p' = o.p /\ rebalanced' = o.rebalanced
          /\ stats' = [peak |-> valuation(o.p, m0).sharePrice, maxDd |-> 0, maxAbsDelta |-> 0,
                       minLiq |-> Null, maxLev |-> 0]
    /\ liquidated' = FALSE /\ pc' = "push" /\ steps' = 0
    /\ lastKeeper' = m0.time /\ lastFee' = m0.time
    /\ triggerCounts' = [t \in Trigger |-> 0]
    /\ costByTrigger' = [t \in Trigger |-> 0]

ScenarioInit ==
    /\ scenario \in SCENARIOS \cup {runCustomScenario(input) : input \in CustomInputs}
    /\ results = [on |-> <<>>, off |-> <<>>]
    /\ m = shockPath(scenario, 0)
    /\ rebalancing = TRUE
    /\ Begins

LastPoint == m.time = scenario.days * DAY

NextOfPath ==
    /\ ~LastPoint
    /\ Accrue(shockPath(scenario, m.time + StepHours))
    /\ UNCHANGED <<scenario, results>>

EndOn ==
    /\ pc = "accrue" /\ LastPoint /\ rebalancing
    /\ results' = [results EXCEPT !.on = <<metrics(valuation(p, m), strategyNetPnl(p, m))>>]
    /\ StartRun(shockPath(scenario, 0))
    /\ rebalancing' = FALSE
    /\ UNCHANGED scenario

EndOff ==
    /\ pc = "accrue" /\ LastPoint /\ ~rebalancing
    /\ results' = [results EXCEPT !.off = <<metrics(valuation(p, m), strategyNetPnl(p, m))>>]
    /\ UNCHANGED <<engineVars, scenario>>

ScenarioBody == Body /\ UNCHANGED <<scenario, results>>

runScenario == NextOfPath \/ ScenarioBody \/ EndOn \/ EndOff

ScenarioSpec == ScenarioInit /\ [][runScenario]_scenarioVars

-----------------------------------------------------------------------------
(* Properties *)

Completed(run) == results[run] # <<>>
Metrics(run) == results[run][1]

(* The types, and the order of the two runs. *)
ScenarioTypeOK ==
    /\ EngineTypeOK
    /\ m.time \in 0..(scenario.days * DAY)
    /\ rebalancing <=> ~Completed("on")
    /\ Completed("off") => Completed("on")

(* With the keeper every scenario of the catalogue is survived, at every point
   of its path: no liquidation, a delta below the limit and nine tenths of the
   deposit ("a short squeeze in three days ... with one, margin is rebuilt in
   time", scenarios.ts:162; analytics.test.ts:25,61). *)
CatalogueIsSurvived ==
    rebalancing /\ scenario \in SCENARIOS =>
        /\ p.liquidations = 0
        /\ stats.maxAbsDelta < cfg.deltaHigh
        /\ valuation(p, m).nav > Bps(tvl, 9000)

(* What the keeper is for: without it the squeeze liquidates the hedge and
   leaves the long leg open; with it the rally keeps its distance from
   liquidation and negative funding costs less (scenarios.ts:63,99,162). *)
KeeperIsWorthIt ==
    Completed("off") =>
        LET on == Metrics("on")
            off == Metrics("off")
        IN  CASE scenario.id = "I" -> off.liquidations > 0 /\ off.maxAbsDelta > 5000
              [] scenario.id = "A" -> /\ on.minLiq > off.minLiq
                                      /\ on.minLiq > Bps(cfg.liquidationWarn, 9000)
              [] scenario.id \in {"D", "J"} -> on.netPnl > off.netPnl
              [] OTHER -> TRUE

(* A custom scenario shows the whole of the move that was asked for, even when
   the horizon was shorter (scenarios.ts:259). *)
MoveIsComplete ==
    scenario.id = "CUSTOM" /\ LastPoint => m.price = customPrice(scenario.input)

(* A scenario's run: its types, what the keeper is for, and its whole path. *)
ScenariosHold == ScenarioTypeOK /\ CatalogueIsSurvived /\ KeeperIsWorthIt /\ MoveIsComplete

-----------------------------------------------------------------------------
(***************************************************************************)
(* The expected-APY estimate and the grid search over leverage and reserve  *)
(* (simulator/src/optimizer.ts).  Shares, rates and leverage are in bps, a  *)
(* volatility in percent, amounts in USD and prices in tenths of a USD.     *)
(***************************************************************************)
CONSTANTS
    Inputs,        \* base inputs: rates, volatility, live leverage and reserve
    deposits, strategyCfg, venues,
    Leverages, Reserves,   \* the grid, ascending
    minMove, maxRebalances, minScore   \* constraints

VARIABLES
    base,          \* the inputs of this search
    i,             \* points of the grid evaluated
    frontier,      \* what was found about each
    best           \* the best feasible point so far, at most one

optimizerVars == <<base, i, frontier, best>>

Price == 30000

-----------------------------------------------------------------------------
(* Risk of liquidation: the chance that the price touches +move within days
   falls with the distance in standard deviations, and is kept as that
   distance, in hundredths. *)

CeilOf(x, d) == Div(x + d - 1, d)

\* ln(1 + x), x in bps
logOnePlus(x) ==
    LET y == Div(x * BPS, 2 * BPS + x)
        y3 == Bps(Bps(y, y), y)
    IN  2 * (y + Div(y3, 3) + Div(Bps(Bps(y3, y), y), 5))

\* sqrt(days / 365) in bps
sqrtYears(days) == IF days = 1 THEN 523 ELSE 1385

touchScore(move, vol, days) ==
    IF move <= 0 THEN 0 ELSE Div(logOnePlus(move) * BPS, vol * sqrtYears(days))

-----------------------------------------------------------------------------
(* Cost of a trade, in bps of what is traded *)

spotCostBps(notional) ==
    IF notional <= 0 THEN 0
    ELSE Div((notional - usd(quoteBuyWeth(notional, Price, venues).qty, Price)) * BPS, notional)

perpCostBps(notional) ==
    IF notional <= 0 THEN 0
    ELSE Div(abs(perpExecPrice(-qtyOf(notional, Price), Price, venues) - Price) * BPS, Price)
         + venues.perpTakerFeeBps

-----------------------------------------------------------------------------
longShare(lev, res) == Div((BPS - res) * lev, lev + strategyCfg.hedgeRatioBps)

(* The move that fires a rebalance, up or down. *)
triggerUp(lev, long) ==
    Min2(Div(strategyCfg.allocationBandBps * BPS, long),
         Div(strategyCfg.leverageBandBps * BPS, BPS + Bps(lev, BPS + strategyCfg.leverageBandBps)))
triggerDown(lev, long) ==
    Min2(Div(strategyCfg.allocationBandBps * BPS, long),
         Div(strategyCfg.leverageBandBps * BPS, BPS + Bps(lev, BPS - strategyCfg.leverageBandBps)))

(* No less than the least volatility; and rounded up, so that the constraint on
   whole rebalances holds exactly when it does. *)
sigma(b) == Max2(b.vol, 1)
rebalancesPerYear(vol, up, down) == CeilOf(vol * vol * BPS, up * down)

(* The funding a year at which the basis trade earns what the reserve does. *)
fundingBreakevenApr(b, lev) ==
    LET h == strategyCfg.hedgeRatioBps
    IN  Div((Bps(b.usdcApr, BPS + Div(h * BPS, lev)) - b.wethApr) * BPS, h)

\* Mutant: the leverage stands for its inverse.
liquidationMoveInverse(lev) == Div((BPS + lev) * BPS, BPS + venues.maintenanceMarginBps) - BPS

\* The rise of the price that liquidates the short.
liquidationMove(lev) == Div((BPS + Div(BPS * BPS, lev)) * BPS, BPS + venues.maintenanceMarginBps) - BPS

(* Cost of one rebalance: the drift traded on both legs. *)
perRebalance(long, up, down) ==
    LET turnover == Bps(deposits, Bps(long, Div(up + down, 2)))
        h == strategyCfg.hedgeRatioBps
    IN  Bps(turnover, spotCostBps(turnover) + Bps(perpCostBps(Bps(turnover, h)), h))

entryCost(long) ==
    LET h == strategyCfg.hedgeRatioBps
    IN  Bps(long, spotCostBps(Bps(deposits, long)) + Bps(perpCostBps(Bps(Bps(deposits, long), h)), h))

performanceFee(preFee) == Bps(Max2(preFee - strategyCfg.managementFeeBps, 0), strategyCfg.performanceFeeBps)

netOf(gross, costs) == gross - costs - strategyCfg.managementFeeBps - performanceFee(gross - costs)

fundingApr(b) == Div(b.funding * 1095, 10)

grossApy(b, lev, res) ==
    LET long == longShare(lev, res)
    IN  Bps(res, b.usdcApr) + Bps(long, b.wethApr)
        + Bps(Bps(long, strategyCfg.hedgeRatioBps), fundingApr(b))

estimate(b, lev, res, long, up, down, n) ==
    [lev |-> lev, res |-> res, gross |-> grossApy(b, lev, res),
     netApy |-> netOf(grossApy(b, lev, res),
                      entryCost(long) + Div((n * (perRebalance(long, up, down) + strategyCfg.gasCostUsd)) * BPS, deposits)),
     rebalances |-> n, move |-> liquidationMove(lev), triggerUp |-> up, triggerDown |-> down,
     score |-> touchScore(liquidationMove(lev), sigma(b), 7),
     scoreOfADay |-> touchScore(liquidationMove(lev), sigma(b), 1),
     breakeven |-> fundingBreakevenApr(b, lev)]

estimateApy(b, lev, res) ==
    LET long == longShare(lev, res)
        up == triggerUp(lev, long)
        down == triggerDown(lev, long)
    IN  estimate(b, lev, res, long, up, down, rebalancesPerYear(sigma(b), up, down))

feasible(e) ==
    /\ e.move >= minMove
    /\ e.rebalances <= maxRebalances
    /\ e.score >= minScore
    /\ e.lev >= strategyCfg.minLeverageBps

-----------------------------------------------------------------------------
(* The search *)

Grid == [k \in 0..(Len(Leverages) * Len(Reserves) - 1) |->
           [lev |-> Leverages[(k \div Len(Reserves)) + 1], res |-> Reserves[(k % Len(Reserves)) + 1]]]

current == estimateApy(base, base.lev, base.res)

OptimizerInit == base \in Inputs /\ i = 0 /\ frontier = <<>> /\ best = {}

\* Mutant: any feasible point replaces the best.
betterThanLast(e) == feasible(e)

better(e) == feasible(e) /\ \A b \in best : e.netApy > b.netApy

\* Mutant: only feasible points are recorded.
EvaluateFeasible ==
    /\ i \in DOMAIN Grid
    /\ \E e \in {estimateApy(base, Grid[i].lev, Grid[i].res)} :
          /\ frontier' = IF feasible(e) THEN Append(frontier, e) ELSE frontier
          /\ best' = IF better(e) THEN {e} ELSE best
    /\ i' = i + 1
    /\ UNCHANGED base

Evaluate ==
    /\ i \in DOMAIN Grid
    /\ \E e \in {estimateApy(base, Grid[i].lev, Grid[i].res)} :
          /\ frontier' = Append(frontier, e)
          /\ best' = IF better(e) THEN {e} ELSE best
    /\ i' = i + 1
    /\ UNCHANGED base

Finished == i = Len(Leverages) * Len(Reserves)

(* What optimize returns: the best point or, when none is feasible, the live
   configuration; and the advice about it. *)
chosen == IF best = {} THEN current ELSE CHOOSE b \in best : TRUE
recommendation == IF fundingApr(base) < chosen.breakeven THEN "SHRINK" ELSE "TARGET"

(* The strategy page: the six best feasible points, what was picked, and its
   lead over the live configuration. *)
TopFeasible ==
    LET rows == SelectSeq([k \in DOMAIN frontier |-> k], LAMBDA k : feasible(frontier[k]))
        ahead(j, k) == frontier[j].netApy > frontier[k].netApy \/ (frontier[j].netApy = frontier[k].netApy /\ j < k)
        sorted == SortSeq(rows, ahead)
    IN  [n \in 1..Min2(6, Len(sorted)) |-> frontier[sorted[n]]]
OptimizerCard ==
    [top |-> TopFeasible, pick |-> chosen, recommendation |-> recommendation,
     vsLive |-> chosen.netApy - current.netApy, current |-> [lev |-> current.lev, netApy |-> current.netApy],
     feasibleCount |-> Cardinality({k \in DOMAIN frontier : feasible(frontier[k])}), all |-> Len(frontier)]
SearchEnds == Finished /\ UNCHANGED optimizerVars

OptimizerNext == Evaluate \/ SearchEnds
OptimizerSpec == OptimizerInit /\ [][OptimizerNext]_optimizerVars

-----------------------------------------------------------------------------
(* Properties *)

(* The types, and one row of the frontier for each point of the grid. *)
OptimizerTypeOK ==
    /\ base \in Inputs /\ i \in 0..(Len(Leverages) * Len(Reserves))
    /\ Len(frontier) = i
    /\ best \subseteq {frontier[k] : k \in 1..i} /\ Cardinality(best) <= 1

(* The best point is feasible and no feasible row of the frontier yields more
   ("maximising net APY within risk constraints", optimizer.ts:190). *)
BestOfFeasible ==
    LET rows == {frontier[k] : k \in {j \in 1..i : feasible(frontier[j])}}
    IN  /\ best = {} <=> rows = {}
        /\ \A b \in best : b \in rows /\ \A e \in rows : e.netApy <= b.netApy

(* More leverage is closer to liquidation, in price and in likelihood,
   whatever the volatility: a constraint that excludes a leverage excludes
   every higher one (optimizer.ts:141,168). *)
RiskGrowsWithLeverage ==
    \A j, k \in 1..i : frontier[j].lev < frontier[k].lev =>
        frontier[k].move < frontier[j].move /\ frontier[k].score <= frontier[j].score

(* "The basis earns less than the USDC reserve" (optimizer.ts:233): when the
   search advises to shrink it, a larger reserve earns no less before costs, at
   every leverage that has the breakeven of the chosen point or a higher one; when it does not, no
   more, at the chosen leverage.  Both but for the rounding. *)
AdviceIsSound ==
    Finished => \A j, k \in 1..i :
        LET less == frontier[j]
            more == frontier[k]
        IN  less.lev = more.lev /\ less.res < more.res =>
                /\ recommendation = "SHRINK" /\ less.breakeven >= chosen.breakeven => more.gross >= less.gross - 2
                /\ recommendation = "TARGET" /\ less.lev = chosen.lev => more.gross <= less.gross + 2

(* The table of the page and the pick beside it agree: the pick heads the table,
   the table is empty only when no point is feasible, and then the live
   configuration is shown as the pick. *)
PickHeadsTheTable ==
    Finished => \A card \in {OptimizerCard} :
        /\ card.top = <<>> <=> card.feasibleCount = 0
        /\ IF card.top = <<>> THEN card.vsLive = 0 ELSE card.pick = card.top[1]

(* The search finds the best feasible point of what it evaluated, and says what
   to do about it. *)
SearchHolds ==
    OptimizerTypeOK /\ BestOfFeasible /\ RiskGrowsWithLeverage /\ AdviceIsSound /\ PickHeadsTheTable
=============================================================================
