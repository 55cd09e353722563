-------------------------------- MODULE Views --------------------------------
(***************************************************************************)
(* What the API derives.  From the stored snapshots: the thinned series of  *)
(* a chart (backend/src/db/repo.ts), its trailing yields and summary        *)
(* (backend/src/performance.ts) and the yield of the headline metrics       *)
(* (backend/src/api/service.ts).  Snapshots are taken at irregular times,   *)
(* time is in days, a price is a small number, and a yield is the pair of   *)
(* prices and the time between them, which annualize() only raises to a     *)
(* power.                                                                   *)
(*                                                                          *)
(* And what it says about risk.  The contracts assess a snapshot of the     *)
(* book (core/RiskManager.sol) and plan on it (core/RebalanceManager.sol);  *)
(* the backend derives the levels again for its views                       *)
(* (backend/src/views.ts) and a third time for its alerts                   *)
(* (backend/src/alerts.ts, evaluateAlerts).  The three are checked against  *)
(* each other on the readings of the chain near their thresholds.           *)
(*                                                                          *)
(* A reading has the quantities the three look at.  Money is in USD, ratios *)
(* in bps, funding in hundredths of a bps of APR, so that what the          *)
(* contracts truncate is there.                                             *)
(***************************************************************************)
EXTENDS Integers, Sequences, FiniteSets, FiniteSetsExt, SequencesExt

CONSTANTS SharePrices, \* share prices
          Gaps,      \* days from one snapshot to the next
          MaxRows,   \* bound: snapshots
          Window,    \* the long trailing window, 30 days in the code
          MaxPoints, \* sizes a chart asks for, 1500 and 500 in the code
          DaysAsked  \* windows a client asks for; 0 for all

ASSUME HistoryAssumption ==
    /\ Window \in Nat \ {0} /\ MaxPoints \subseteq Nat \ {0} /\ DaysAsked \subseteq Nat
    /\ Gaps \subseteq Nat \ {0} /\ SharePrices \subseteq Nat \ {0}

VARIABLES snapshotRows, \* vault_snapshots in the order of their time
          today          \* time of the chain

historyVars == <<snapshotRows, today>>

HistoryInit == snapshotRows \in {<<[ts |-> Window, price |-> p]>> : p \in SharePrices} /\ today = Window

(* A snapshot is stored some time after the last one. *)
StoreSnapshot ==
    /\ Len(snapshotRows) < MaxRows
    /\ \E gap \in Gaps, p \in SharePrices :
         /\ snapshotRows' = Append(snapshotRows, [ts |-> Last(snapshotRows).ts + gap, price |-> p])
         /\ today' = Last(snapshotRows).ts + gap

(* The chain is ahead of the last snapshot. *)
Wait == today = Last(snapshotRows).ts /\ today' = today + 1 /\ UNCHANGED snapshotRows

HistoryNext == StoreSnapshot \/ Wait
HistorySpec == HistoryInit /\ [][HistoryNext]_historyVars

-----------------------------------------------------------------------------
(* repo.ts *)

ceilDiv(a, b) == (a + b - 1) \div b

rowsSince(from) == SelectSeq(snapshotRows, LAMBDA row : row.ts >= from)

\* Mutant: the last row is kept only when it falls on the step.
KeptOnStep(n, step) == {i \in 1..n : (i - 1) % step = 0}

(* The numbers of the rows that are kept, of n. *)
KeptRows(n, step) == {i \in 1..n : (i - 1) % step = 0 \/ i = n}

(* Ascending sequence of the rows with these numbers. *)
PickRows(seq, numbers) ==
    LET order == SetToSortSeq(numbers, LAMBDA i, j : i < j)
    IN  [k \in DOMAIN order |-> seq[order[k]]]

performanceSeries(from, maxPoints) ==
    LET all == rowsSince(from)
        step == Max({1, ceilDiv(Len(all), maxPoints)})
    IN  PickRows(all, KeptRows(Len(all), step))

(* The newest row at or before a time, if there is one. *)
Upto(ts) == SelectSeq(snapshotRows, LAMBDA row : row.ts <= ts)
NoRow == [ts |-> -1, price |-> 0]
sharePriceAt(ts) == IF Upto(ts) = <<>> THEN NoRow ELSE Last(Upto(ts))

-----------------------------------------------------------------------------
(* performance.ts *)

(* Prices and days of a yield; none for less than a day of history. *)
NoYield == [from |-> 0, to |-> 0, days |-> 0]
annualize(p0, p1, days) ==
    IF p0 <= 0 \/ days < 1 THEN NoYield ELSE [from |-> p0, to |-> p1, days |-> days]

\* Mutant: the middle is rounded down and the upper half keeps it.
searchBelow(points, ts) ==
    LET find[lo \in 1..Len(points), hi \in 1..Len(points)] ==
          IF lo >= hi THEN lo
          ELSE LET mid == (lo + hi) \div 2
               IN  IF points[mid].ts < ts THEN find[mid + 1, hi] ELSE find[lo, mid]
    IN  points[find[1, Len(points)]]

(* The bisection of priceAt. *)
search(points, ts) ==
    LET find[lo \in 1..Len(points), hi \in 1..Len(points)] ==
          IF lo >= hi THEN lo
          ELSE LET mid == (lo + hi + 1) \div 2
               IN  IF points[mid].ts <= ts THEN find[mid, hi] ELSE find[lo, mid - 1]
    IN  points[find[1, Len(points)]]

\* Mutant: the search also answers for a time before the first point.
priceAtAnyTime(points, ts) == IF points = <<>> THEN NoRow ELSE search(points, ts)

priceAt(points, ts) ==
    IF points = <<>> \/ points[1].ts > ts THEN NoRow ELSE search(points, ts)

withTrailingApy(points, window) ==
    [i \in DOMAIN points |->
        LET w == priceAt(points, points[i].ts - window)
        IN  [ts |-> points[i].ts, price |-> points[i].price,
             apy |-> IF w = NoRow THEN NoYield
                     ELSE annualize(w.price, points[i].price, points[i].ts - w.ts)]]

\* Mutant: the peak is the highest price of the whole series.
dropsFromHighest(points) ==
    LET peak == Max({points[i].price : i \in DOMAIN points})
    IN  {((peak - points[i].price) * 10000) \div peak : i \in DOMAIN points}

(* The falls from the highest price so far, in bps. *)
drops(points) ==
    LET peak(i) == Max({points[j].price : j \in 1..i})
    IN  {((peak(i) - points[i].price) * 10000) \div peak(i) : i \in DOMAIN points}

maxDrawdown(points) == Max({0} \cup drops(points))

(* The returns from day to day of summarize: pairs of prices, each from where
   the one before ended to the newest price of its day. *)
\* Mutant: every return is from the first price.
nextReturnOfFirst(acc, price) ==
    [prev |-> acc.prev, returns |-> Append(acc.returns, [from |-> acc.prev, to |-> price])]

nextReturn(acc, price) ==
    [prev |-> price, returns |-> Append(acc.returns, [from |-> acc.prev, to |-> price])]

daily(points) ==
    LET days == Last(points).ts - points[1].ts
    IN  FoldLeft(LAMBDA acc, n : nextReturn(acc, priceAt(points, points[1].ts + n).price),
                 [prev |-> points[1].price, returns |-> <<>>], [n \in 1..days |-> n]).returns

(* Whether there is a volatility: of five days at least. *)
summarize(points) ==
    IF points = <<>> THEN [from |-> 0, to |-> 0, yield |-> NoYield, maxDrawdown |-> 0, returns |-> <<>>, vol |-> FALSE]
    ELSE [from |-> points[1].ts, to |-> Last(points).ts,
          yield |-> annualize(points[1].price, Last(points).price, Last(points).ts - points[1].ts),
          maxDrawdown |-> maxDrawdown(points), returns |-> daily(points), vol |-> Len(daily(points)) >= 5]

-----------------------------------------------------------------------------
(* service.ts *)

(* performance(): the window and as much again before it as the trailing
   yields look back, thinned to a size that leaves the window its points. *)
performance(days, maxPoints) ==
    LET from == IF days = 0 THEN 0 ELSE today - days
        size == IF days = 0 THEN maxPoints ELSE maxPoints + ceilDiv(maxPoints * Window, days)
        series == performanceSeries(IF days = 0 THEN 0 ELSE from - Window, size)
    IN  SelectSeq(withTrailingApy(series, Window), LAMBDA p : p.ts >= from)

\* Mutant: the window always begins a month ago.
windowStartFixed == today - Window

(* metrics(): where the window of the headline yield begins. *)
windowStart == Max({snapshotRows[1].ts, today - Window})

netApy ==
    LET past == sharePriceAt(windowStart)
    IN  IF past = NoRow THEN NoYield
        ELSE annualize(past.price, Last(snapshotRows).price, today - past.ts)

-----------------------------------------------------------------------------
Series == {performanceSeries(from, n) : from \in {0, today - Window, today}, n \in MaxPoints}

HistoryTypeOK ==
    /\ today \in {Last(snapshotRows).ts, Last(snapshotRows).ts + 1}
    /\ \A i \in DOMAIN snapshotRows : snapshotRows[i].price \in SharePrices
    /\ \A days \in DaysAsked, n \in MaxPoints : \A i \in DOMAIN performance(days, n) :
         performance(days, n)[i].apy.days \in {0} \cup Window..today

(* A chart ends with the newest snapshot, whatever the size asked for, and is
   at most one point larger. *)
SeriesEndsNow ==
    \A days \in DaysAsked, n \in MaxPoints :
        /\ today = Last(snapshotRows).ts => Last(performanceSeries(today - days, n)) = Last(snapshotRows)
        /\ Len(performanceSeries(today - days, n)) <= n + 1

(* The bisection finds what the query over the table would: the newest of the
   points at or before the time. *)
PriceAtIsNewest ==
    \A points \in Series : \A ts \in 0..today :
        LET before == {i \in DOMAIN points : points[i].ts <= ts}
        IN  priceAt(points, ts) = IF before = {} THEN NoRow ELSE points[Max(before)]

(* Thinning a series may hide a fall of the price, it never makes one up or
   deepens it, and no rise is taken for a fall. *)
ThinningInventsNoDrawdown ==
    \A points \in Series :
        /\ maxDrawdown(points) <= maxDrawdown(snapshotRows)
        /\ (\A i \in 2..Len(points) : points[i - 1].price <= points[i].price) => maxDrawdown(points) = 0

(* The headline yield exists as soon as there is a day of history, and looks
   back the whole window as soon as there is that much. *)
HeadlineYield ==
    /\ netApy = NoYield <=> today - snapshotRows[1].ts < 1
    /\ today - snapshotRows[1].ts >= Window => netApy.days >= Window

(* The daily returns compound to the price of the last whole day: none is
   skipped or counted twice, and none knows a price of a later day, however
   irregular the snapshots and whatever was thinned. *)
DailyReturnsCompound ==
    \A points \in Series \ {<<>>} :
        LET all == summarize(points)
            returns == all.returns
        IN  /\ \A n \in DOMAIN returns :
                  /\ returns[n].from = IF n = 1 THEN points[1].price ELSE returns[n - 1].to
                  /\ \E i \in DOMAIN points :
                        /\ returns[n].to = points[i].price /\ points[i].ts <= all.from + n
                        /\ i < Len(points) => points[i + 1].ts > all.from + n
            /\ Len(returns) = all.to - all.from
            /\ returns # <<>> => Last(returns).to = Last(points).price /\ all.yield # NoYield

(* The series, yields and falls the API derives are those of the table. *)
SeriesAreTrue ==
    /\ HistoryTypeOK /\ SeriesEndsNow /\ PriceAtIsNewest /\ ThinningInventsNoDrawdown
    /\ HeadlineYield /\ DailyReturnsCompound

-----------------------------------------------------------------------------
(* Risk *)

CONSTANTS Thresholds,   \* RiskManager's thresholds
          Params,   \* RebalanceManager's delta band and reference volatility
          Calm,     \* a reading with every metric at rest
          Values,   \* per quantity: the other values it takes
          MaxMoved  \* bound: quantities that leave their calm value together

ConfigOK ==
    /\ \A m \in {"leverage", "delta", "drawdown", "exposure"} :
         0 < Thresholds[m].warn /\ Thresholds[m].warn <= Thresholds[m].high /\ Thresholds[m].high <= Thresholds[m].critical
    /\ \A m \in {"liquidation", "collateral"} :
         Thresholds[m].warn >= Thresholds[m].high /\ Thresholds[m].high >= Thresholds[m].critical
    /\ Thresholds.fundingHigh <= Thresholds.fundingWarn

(* Prices and values are positive; ratios of a book without value are not read. *)
Reading ==
    [notional : Nat, equity : Nat, distance : Nat, netDelta : Int, nav : Nat \ {0}, lent : Nat,
     peak : Nat \ {0}, pps : Nat, funding : Int, vol : Nat, oracle : {"OK", "FALLBACK", "STALE"},
     supplied : Nat, withdrawable : Nat, paused : SUBSET {"breaker.deposits", "breaker.strategy"},
     shutdown : BOOLEAN, plan : {"none", "execute", "urgent"}, lastRebalanceAt : Nat, now : Nat]

ThresholdTypes ==
    /\ \A m \in {"leverage", "delta", "drawdown", "exposure", "liquidation", "collateral"} :
         Thresholds[m] \in [warn : Int, high : Int, critical : Int]
    /\ Thresholds.fundingWarn \in Int /\ Thresholds.fundingHigh \in Int /\ Thresholds.maxNotional \in Int
    /\ Params \in [band : Nat, volRef : Nat]

ReadingsAreTyped ==
    /\ ConfigOK /\ ThresholdTypes
    /\ Calm \in Reading /\ DOMAIN Values = DOMAIN Calm
    /\ \A q \in DOMAIN Values : \A v \in Values[q] : [Calm EXCEPT ![q] = v] \in Reading

ASSUME ViewsAssumption == ReadingsAreTyped

VARIABLE reading  \* of the chain's state (RawState)

Quantities == DOMAIN Calm

ViewsInit == reading = Calm

(* Any quantity of the book changes. *)
Move ==
    \E q \in Quantities : \E v \in Values[q] :
        /\ reading' = [reading EXCEPT ![q] = v]
        /\ Cardinality({x \in Quantities : reading'[x] # Calm[x]}) <= MaxMoved

ViewsNext == Move
ViewsSpec == ViewsInit /\ [][ViewsNext]_reading

BPS == 10000
MaxUint == 1000000000
NORMAL == 0
WARNING == 1
HIGH_RISK == 2
EMERGENCY == 3
abs(x) == IF x < 0 THEN -x ELSE x

(* Integer division as Solidity has it, towards zero. *)
Trunc(x, d) == IF x < 0 THEN -((-x) \div d) ELSE x \div d

-----------------------------------------------------------------------------
(* The contracts *)

Short == reading.notional > 0
Healthy == reading.oracle \in {"OK", "FALLBACK"}

leverageBps ==
    IF ~Short THEN 0
    ELSE IF reading.equity = 0 THEN MaxUint ELSE (reading.notional * BPS) \div reading.equity
collateralRatioBps ==
    LET maintenance == reading.notional \div 20
    IN  IF maintenance = 0 THEN MaxUint ELSE (reading.equity * BPS) \div maintenance
liquidationDistanceBps == IF Short THEN reading.distance ELSE MaxUint
deltaBps == Trunc(reading.netDelta * BPS, reading.nav)
fundingAprBps == Trunc(reading.funding, 100)
exposureBps == Max({(reading.lent * BPS) \div reading.nav, (reading.equity * BPS) \div reading.nav})
drawdownBps == ((reading.peak - reading.pps) * BPS) \div reading.peak

_higherWorse(v, t) == Cardinality({l \in {"warn", "high", "critical"} : v >= t[l]})
_lowerWorse(v, t) == Cardinality({l \in {"warn", "high", "critical"} : v <= t[l]})

_fundingLevel ==
    IF ~Short THEN NORMAL
    ELSE IF fundingAprBps < Thresholds.fundingHigh THEN HIGH_RISK
    ELSE IF fundingAprBps < Thresholds.fundingWarn THEN WARNING ELSE NORMAL

(* Level per flag; a flag is set when its level is not NORMAL. *)
_assess ==
    [LEVERAGE |-> _higherWorse(leverageBps, Thresholds.leverage),
     DELTA |-> _higherWorse(abs(deltaBps), Thresholds.delta),
     DRAWDOWN |-> _higherWorse(drawdownBps, Thresholds.drawdown),
     LIQUIDATION |-> _lowerWorse(liquidationDistanceBps, Thresholds.liquidation),
     COLLATERAL |-> _lowerWorse(collateralRatioBps, Thresholds.collateral),
     EXPOSURE |-> Min({_higherWorse(exposureBps, Thresholds.exposure), WARNING}),
     FUNDING |-> _fundingLevel,
     POSITION_SIZE |-> IF reading.notional > Thresholds.maxNotional THEN HIGH_RISK ELSE NORMAL,
     ORACLE |-> IF ~Healthy /\ Short THEN HIGH_RISK ELSE NORMAL]

state == Max({_assess[f] : f \in DOMAIN _assess})
flags == {f \in DOMAIN _assess : _assess[f] > NORMAL}

scaledBand ==
    IF reading.vol <= Params.volRef THEN Params.band
    ELSE Max({(Params.band * Params.volRef) \div reading.vol, Params.band \div 4})

(* The two triggers that are about a band of the reading, not a target. *)
_triggers ==
    {t \in {"DELTA", "LIQUIDATION"} :
        IF t = "DELTA" THEN abs(deltaBps) > scaledBand
        ELSE Short /\ reading.distance < Thresholds.liquidation.warn}

-----------------------------------------------------------------------------
(* The views *)

Null == -1
finiteBps(b) == IF b = MaxUint THEN Null ELSE b

\* Mutant: a metric that lies on a threshold has not crossed it.
levelStrict(v, t, higherIsWorse) ==
    IF v = Null THEN NORMAL
    ELSE IF higherIsWorse THEN Cardinality({l \in {"warn", "high", "critical"} : v > t[l]})
    ELSE Cardinality({l \in {"warn", "high", "critical"} : v < t[l]})

(* A metric without a value is at rest. *)
level(v, t, higherIsWorse) ==
    IF v = Null THEN NORMAL ELSE IF higherIsWorse THEN _higherWorse(v, t) ELSE _lowerWorse(v, t)

(* The metrics of riskView: value and level. *)
metrics ==
    LET metric(v, t, higherIsWorse) == [value |-> v, level |-> level(v, t, higherIsWorse)] IN
    [LEVERAGE |-> metric(finiteBps(leverageBps), Thresholds.leverage, TRUE),
     DELTA |-> metric(abs(deltaBps), Thresholds.delta, TRUE),
     DRAWDOWN |-> metric(drawdownBps, Thresholds.drawdown, TRUE),
     LIQUIDATION |-> metric(finiteBps(liquidationDistanceBps), Thresholds.liquidation, FALSE),
     COLLATERAL |-> metric(finiteBps(collateralRatioBps), Thresholds.collateral, FALSE),
     FUNDING |-> [value |-> fundingAprBps,
                  level |-> Max({0} \cup {l \in {WARNING, HIGH_RISK} :
                     Short /\ fundingAprBps < IF l = WARNING THEN Thresholds.fundingWarn ELSE Thresholds.fundingHigh})],
     EXPOSURE |-> [value |-> exposureBps,
                   level |-> Min({level(exposureBps, Thresholds.exposure, TRUE), WARNING})]]

\* Mutant: the band is compared at the volatility of calm markets.
WithinBaseBand == abs(deltaBps) <= Params.band

(* deltaView: the band is a float, |deltaBps| * vol <= band * volRef without
   the division. *)
withinBand ==
    IF reading.vol <= Params.volRef THEN abs(deltaBps) <= Params.band
    ELSE \/ abs(deltaBps) * reading.vol <= Params.band * Params.volRef
         \/ abs(deltaBps) * 4 <= Params.band

(* Math.round of that band, as it is displayed and alerted on. *)
effectiveBandBps ==
    LET round(n, d) == (2 * n + d) \div (2 * d)
    IN  IF reading.vol <= Params.volRef THEN Params.band
        ELSE Max({round(Params.band * Params.volRef, reading.vol), round(Params.band, 4)})

-----------------------------------------------------------------------------
(* evaluateAlerts: key and severity of what is raised *)

W == "WARNING"
C == "CRITICAL"
Severity(critical) == IF critical THEN C ELSE W

StaleAfter == 6 * 3600

\* Mutant: the warning stays beside the critical alert.
liquidationAlertBoth ==
    LET below(limit) == metrics.LIQUIDATION.value # Null /\ metrics.LIQUIDATION.value < limit IN
    (IF below(Thresholds.liquidation.warn) THEN {<<"liquidation.distance", W>>} ELSE {}) \cup
    (IF below(Thresholds.liquidation.high) THEN {<<"liquidation.distance", C>>} ELSE {})

\* Mutant: the warning starts where the liquidation is urgent already.
liquidationAlertLate ==
    IF metrics.LIQUIDATION.value # Null /\ metrics.LIQUIDATION.value < Thresholds.liquidation.high
    THEN {<<"liquidation.distance", C>>} ELSE {}

liquidationAlert ==
    IF metrics.LIQUIDATION.value # Null /\ metrics.LIQUIDATION.value < Thresholds.liquidation.warn
    THEN {<<"liquidation.distance", Severity(metrics.LIQUIDATION.value < Thresholds.liquidation.high)>>}
    ELSE {}

\* Mutant: the drawdown alert has one severity.
marketAlertsMild ==
    (IF abs(deltaBps) > effectiveBandBps
     THEN {<<"delta.band", Severity(abs(deltaBps) > Thresholds.delta.high)>>} ELSE {}) \cup
    (IF drawdownBps >= Thresholds.drawdown.warn THEN {<<"drawdown", W>>} ELSE {})

marketAlerts ==
    (IF abs(deltaBps) > effectiveBandBps
     THEN {<<"delta.band", Severity(abs(deltaBps) > Thresholds.delta.high)>>} ELSE {}) \cup
    (IF Short /\ metrics.FUNDING.value < 0
     THEN {<<"funding.negative", Severity(metrics.FUNDING.value < Thresholds.fundingHigh)>>} ELSE {}) \cup
    (IF metrics.DRAWDOWN.value >= Thresholds.drawdown.warn
     THEN {<<"drawdown", Severity(metrics.DRAWDOWN.value >= Thresholds.drawdown.high)>>} ELSE {})

systemAlerts ==
    (IF state # NORMAL THEN {<<"risk.state", Severity(state # WARNING)>>} ELSE {}) \cup
    (IF reading.oracle # "OK" THEN {<<"oracle.health", Severity(reading.oracle # "FALLBACK")>>} ELSE {}) \cup
    (IF reading.supplied > 0 /\ 2 * reading.withdrawable < reading.supplied
     THEN {<<"liquidity.reserve", Severity(10 * reading.withdrawable < reading.supplied)>>} ELSE {}) \cup
    (IF reading.shutdown THEN {<<"breaker.shutdown", C>>}
     ELSE {<<b, C>> : b \in reading.paused})

keeperAlerts ==
    IF reading.plan = "urgent" THEN {<<"keeper.urgent", C>>}
    ELSE IF reading.plan = "execute" /\ reading.lastRebalanceAt > 0 /\ reading.now - reading.lastRebalanceAt > StaleAfter
         THEN {<<"keeper.stale", W>>} ELSE {}

evaluateAlerts == liquidationAlert \cup marketAlerts \cup systemAlerts \cup keeperAlerts

Alerted(key) == \E s \in {W, C} : <<key, s>> \in evaluateAlerts

-----------------------------------------------------------------------------
ViewsTypeOK ==
    /\ \A q \in Quantities : reading[q] \in Values[q] \cup {Calm[q]}
    /\ \A m \in DOMAIN metrics : metrics[m].level \in NORMAL..EMERGENCY
    /\ \A a, b \in evaluateAlerts : a[1] = b[1] => a = b

(* "The portfolio state is the worst metric's level" (risk-management.md:9):
   the levels the backend derives, with the two flags that have no metric,
   lead to the state the contract reports, also at the thresholds and with
   values that are infinite on chain and null in the view. *)
StateIsWorstMetric ==
    state = Max({metrics[m].level : m \in DOMAIN metrics}
                \cup {_assess.POSITION_SIZE, _assess.ORACLE})

(* The delta view, computed with floats, calls the delta within its band
   exactly when the contract's integer band does not trigger a rebalance. *)
WithinBandIsNoTrigger == withinBand <=> "DELTA" \notin _triggers

(* The liquidation alert is raised exactly when the planner has its trigger:
   no urgent rebalance goes unannounced, no alert announces one that is not
   due. *)
LiquidationAlertIsTrigger ==
    Alerted("liquidation.distance") <=> "LIQUIDATION" \in _triggers

(* What is an emergency on chain has a critical alert of its own, not only
   the one about the overall state. *)
EmergenciesAreCritical ==
    \A x \in {<<"LIQUIDATION", "liquidation.distance">>, <<"DELTA", "delta.band">>,
              <<"DRAWDOWN", "drawdown">>} :
        _assess[x[1]] = EMERGENCY => <<x[2], C>> \in evaluateAlerts

(* What the agreement needs of the thresholds, beyond what _setConfig asks for:
   an alert is critical below or above a limit, the state an emergency at it;
   and a limit is not the number that stands for a metric without a value. *)
SharpThresholds ==
    /\ Thresholds.liquidation.critical < Thresholds.liquidation.high
    /\ Thresholds.delta.high < Thresholds.delta.critical /\ Params.band < Thresholds.delta.critical
    /\ Thresholds.collateral.critical >= BPS
    /\ \A m \in {"liquidation", "collateral"} : Thresholds[m].warn < MaxUint

(* The maintenance margin of a short, a twentieth of it, is not rounded away. *)
ShortsHaveMargin == \A v \in Values.notional \cup {Calm.notional} : v = 0 \/ v >= 20

(* The API says about risk what the contracts say. *)
ViewsAgree ==
    /\ ViewsTypeOK /\ StateIsWorstMetric /\ WithinBandIsNoTrigger
    /\ LiquidationAlertIsTrigger /\ EmergenciesAreCritical
=============================================================================
