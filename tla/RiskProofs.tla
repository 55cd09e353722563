----------------------------- MODULE RiskProofs -----------------------------
(***************************************************************************)
(* Theorems about the rebalancer and its pages, the oracle and the risk     *)
(* manager, for every market, book, target, threshold and bound.            *)
(*                                                                          *)
(* The rebalancer's invariant is that its books stay in order whichever     *)
(* plan it executes; a page's, that each row was recorded by the plan it    *)
(* tells; the oracle's, where a faulty answer may come from; the risk       *)
(* manager's, that a checkpoint assesses what it leaves behind.  Of danger, *)
(* the books and the feeds have to agree, so that MarketInv joins them.     *)
(***************************************************************************)
EXTENDS RiskManager, Dashboard, BookProofs, SequenceTheorems, TLAPS

-----------------------------------------------------------------------------
(***************************************************************************)
(* What a plan reads is some number, and what it asks for is one, whatever *)
(* the books, the targets and the market are.                              *)
(***************************************************************************)
Observation == [var : Int, price : Nat, at : Int]

LEMMA PlannerTypes ==
    /\ BPS \in Nat \ {0} /\ LeverageFloor \in Nat \ {0}
    /\ Params.minInterval \in Nat /\ Params.volRef \in Nat \ {0} /\ Params.minTrade \in Nat
    /\ Params.leverageBand \in Nat /\ Params.leverageBand < BPS /\ Params.allocationBand \in Nat
    /\ Params.maxSlippage \in 0..BPS
    /\ Limits.leverage \in Nat /\ Limits.delta \in Nat
  <1>1. BPS \in Nat \ {0}
    BY Ratios
  <1>2. Params.leverageBand \in 1..(BPS - 1) /\ Params.allocationBand \in 1..BPS
    BY PlanAssumption DEF PlanAssumption
  <1>3. /\ Params.minInterval \in Nat /\ Params.volRef \in Nat \ {0} /\ Params.minTrade \in Nat
        /\ Params.maxSlippage \in 0..BPS
    BY PlanAssumption DEF PlanAssumption
  <1>4. Limits.leverage \in Nat /\ Limits.delta \in Nat /\ LeverageFloor \in Nat \ {0}
    BY PlanAssumption DEF PlanAssumption
  <1> QED BY <1>1, <1>2, <1>3, <1>4

LEMMA BitNat == ASSUME NEW x \in Int, NEW r \in Nat, NEW bit \in Nat \ {0} PROVE withBit(x, r, bit) \in Nat
  BY DEF withBit

LEMMA BitsNat == ASSUME NEW x \in Int, NEW r \in Nat, NEW bit \in Nat \ {0} PROVE withBits(x, r, bit) \in Nat
  <1> DEFINE r8 == withBit(x, r, 8 * bit)
             r4 == withBit(x, r8, 4 * bit)
             r2 == withBit(x, r4, 2 * bit)
  <1>1. 8 * bit \in Nat \ {0} /\ 4 * bit \in Nat \ {0} /\ 2 * bit \in Nat \ {0}
    OBVIOUS
  <1>2. withBits(x, r, bit) = withBit(x, r2, bit)
    BY DEF withBits
  <1>3. r8 \in Nat
    BY <1>1, BitNat
  <1> HIDE DEF r8
  <1>4. r4 \in Nat
    BY <1>1, <1>3, BitNat
  <1> HIDE DEF r4
  <1>5. r2 \in Nat
    BY <1>1, <1>4, BitNat
  <1> HIDE DEF r2
  <1> QED BY <1>2, <1>5, BitNat

LEMMA SqrtNat == ASSUME NEW x \in Int PROVE sqrt(x) \in Nat
  <1> DEFINE r12 == withBits(x, 0, 4096)
             r8 == withBits(x, r12, 256)
             r4 == withBits(x, r8, 16)
  <1>1. sqrt(x) = withBits(x, r4, 1)
    BY DEF sqrt
  <1>2. r12 \in Nat
    BY BitsNat
  <1> HIDE DEF r12
  <1>3. r8 \in Nat
    BY <1>2, BitsNat
  <1> HIDE DEF r8
  <1>4. r4 \in Nat
    BY <1>3, BitsNat
  <1> HIDE DEF r4
  <1>5. withBits(x, r4, 1) \in Nat
    BY <1>4, BitsNat
  <1> QED BY <1>1, <1>5

LEMMA VarianceInt ==
    ASSUME NEW o \in Observation, NEW price \in Nat, NEW t \in Int PROVE projectedVariance(o, price, t) \in Int
  <1> DEFINE dt == t - o.at
             move == (abs(price - o.price) * VarUnit) \div o.price
             squared == (move * move) \div VarUnit
             sample == (squared * YearHours) \div dt
  <1>1. o.var \in Int /\ o.price \in Nat /\ o.at \in Int /\ dt \in Int
    BY DEF Observation
  <1>2. CASE o.price = 0 \/ price = 0 \/ dt < Hour
    BY <1>1, <1>2 DEF projectedVariance
  <1>3. CASE ~(o.price = 0 \/ price = 0 \/ dt < Hour)
    <2>1. o.price \in Nat \ {0} /\ dt \in Nat \ {0}
      BY <1>1, <1>3 DEF Hour
    <2>2. move \in Int
      BY <1>1, <2>1, AbsInt, MulDivInt DEF VarUnit
    <2> HIDE DEF move
    <2>3. squared \in Int
      BY <2>2, MulDivInt DEF VarUnit
    <2> HIDE DEF squared
    <2>4. sample \in Int
      BY <2>1, <2>3, MulDivInt DEF YearHours
    <2> HIDE DEF sample, dt
    <2>5. (o.var * 94) \div 100 + (sample * 6) \div 100 \in Int
      BY <1>1, <2>4
    <2> QED BY <1>3, <2>5 DEF projectedVariance, sample, squared, move, dt
  <1> QED BY <1>2, <1>3

LEMMA VolNat ==
    ASSUME NEW o \in Observation, NEW e, e.price \in Nat, NEW t \in Int PROVE annualizedVolBps(o, e, t) \in Nat
  <1> DEFINE v == projectedVariance(o, IF e.healthy THEN e.price ELSE 0, t)
  <1>1. v \in Int
    BY VarianceInt
  <1>2. sqrt(v * VarUnit) \in Nat
    <2> HIDE DEF v
    <2>1. v * VarUnit \in Int
      BY <1>1 DEF VarUnit
    <2> QED BY <2>1, SqrtNat
  <1> DEFINE q == sqrt(v * VarUnit)
  <1>3. annualizedVolBps(o, e, t) = (q * BPS) \div VarUnit
    BY DEF annualizedVolBps
  <1> HIDE DEF q
  <1>4. q \in Nat
    BY <1>2 DEF q
  <1>5. BPS \in Nat /\ VarUnit \in Nat \ {0}
    BY PlannerTypes DEF VarUnit
  <1>6. (q * BPS) \div VarUnit \in Nat
    BY <1>4, <1>5, MulDivNat
  <1> QED BY <1>3, <1>6

\* Volatility scales the leverage down only, to the floor.
LEMMA LeverageBounds ==
    ASSUME NEW t \in Targets, NEW vol \in Nat
    PROVE  /\ effectiveLeverageBps(t, vol) \in Nat \ {0}
           /\ effectiveLeverageBps(t, vol) <= Max2(t.leverage, LeverageFloor)
  <1> DEFINE scaled == (t.leverage * Params.volRef) \div vol
  <1>1. t.leverage \in Nat \ {0} /\ LeverageFloor \in Nat \ {0} /\ Params.volRef \in Nat \ {0}
    BY PlannerTypes DEF Targets
  <1>2. vol > Params.volRef => scaled \in Nat /\ scaled <= t.leverage
    <2> SUFFICES ASSUME vol > Params.volRef PROVE scaled \in Nat /\ scaled <= t.leverage
      OBVIOUS
    <2>1. vol \in Nat \ {0}
      BY <1>1
    <2>2. t.leverage * Params.volRef \in Nat /\ t.leverage * Params.volRef <= t.leverage * vol
      BY <1>1, <2>1, MulNat, MulMono
    <2> QED BY <1>1, <2>1, <2>2, DivAtMost, DivNat
  <1> HIDE DEF scaled
  <1>3. effectiveLeverageBps(t, vol) = Max2(IF vol > Params.volRef THEN scaled ELSE t.leverage, LeverageFloor)
    BY DEF effectiveLeverageBps, scaled
  <1> QED BY <1>1, <1>2, <1>3 DEF Max2

\* What the planner uses of a snapshot, and of a context.
SnapshotNumbers(s) ==
    /\ s.totalNav \in Int /\ s.vaultIdle \in Int /\ s.strategyFloat \in Int /\ s.longValue \in Int
    /\ s.perpSize \in Int /\ s.shortNotional \in Nat /\ s.perpEquity \in Nat
    /\ s.maintenanceMargin \in Int
ContextNumbers(c) == c.targetLong \in Int /\ c.lev \in Nat \ {0} /\ c.h \in Nat

LEMMA ReadTypes ==
    ASSUME NEW b, Balanced(b), NEW e, Env(e)
    PROVE  /\ readBalance(b.usdc, e) \in Int /\ longValue(b, e) \in Int /\ rawEquity(b, e) \in Int
           /\ readMark(e) \in Nat \ {0}
  <1>1. readBalance(b.usdc, e) \in Int
    BY BalancedTypes DEF readBalance
  <1>2. longValue(b, e) \in Int
    BY HeldInt, EnvTypes, QType, MulDivInt DEF longValue
  <1>3. readMark(e) \in Nat \ {0}
    BY EnvTypes DEF readMark
  <1>4. rawEquity(b, e) \in Int
    <2>1. equity(b, e.mark) \in Int /\ pnl(b.size, b.entry, e.price) \in Int
      BY EquityInt
    <2>2. readPending(b, e) \in Int /\ Pos(b.margin) \in Int
      BY BalancedTypes, PosInt DEF readPending
    <2> QED BY <2>1, <2>2 DEF rawEquity
  <1> QED BY <1>1, <1>2, <1>3, <1>4

LEMMA SnapshotTypes ==
    ASSUME NEW b, Balanced(b), NEW e, Env(e)
    PROVE  LET s == snapshot(b, e)
           IN  /\ SnapshotNumbers(s)
               /\ s.vaultIdle = b.vault /\ s.perpSize = b.size /\ s.markPrice = readMark(e) /\ s.price = e.price
               /\ s.priceHealthy = e.healthy /\ s.perpEquity = Pos(rawEquity(b, e))
               /\ s.maintenanceMargin = marginReq(b.size, readMark(e), MMR)
               /\ s.shortNotional = notional(b.size, readMark(e)) /\ s.longQty = wethHeld(b, e)
  <1>1. /\ b.vault \in Int /\ b.float \in Int /\ b.size \in Int
        /\ readBalance(b.usdc, e) \in Int /\ longValue(b, e) \in Int /\ rawEquity(b, e) \in Int
        /\ readMark(e) \in Nat \ {0}
    BY BalancedTypes, ReadTypes
  <1>2. Pos(rawEquity(b, e)) \in Nat
    BY <1>1, PosInt
  <1>3. strategyNav(b, e) \in Int
    BY <1>1, <1>2 DEF strategyNav
  <1>4. marginReq(b.size, readMark(e), MMR) \in Int /\ notional(b.size, readMark(e)) \in Nat
    <2>1. MMR \in Int /\ readMark(e) \in Int /\ readMark(e) \in Nat
      BY <1>1, Ratios
    <2>2. marginReq(b.size, readMark(e), MMR) \in Int
      BY <1>1, <2>1, MarginReqInt
    <2>3. notional(b.size, readMark(e)) \in Nat
      BY <1>1, <2>1, NotionalNat
    <2> QED BY <2>2, <2>3
  <1> QED BY <1>1, <1>2, <1>3, <1>4 DEF snapshot, SnapshotNumbers

LEMMA ContextTypes ==
    ASSUME NEW s, SnapshotNumbers(s), NEW t \in Targets, NEW vol \in Nat
    PROVE  LET c == context(s, t, vol, effectiveLeverageBps(t, vol))
           IN  /\ ContextNumbers(c) /\ c.h = t.hedgeRatio /\ c.lev = effectiveLeverageBps(t, vol)
               /\ c.curLev = _leverage(s) /\ c.absDelta = absDeltaBps(s) /\ c.liqDist = liquidationDistance(s)
  <1> DEFINE lev == effectiveLeverageBps(t, vol)
             kept == (s.totalNav * (BPS - reserveBps(s, t))) \div BPS
  <1>1. lev \in Nat \ {0} /\ t.hedgeRatio \in Nat /\ lev + t.hedgeRatio \in Nat \ {0}
    <2>1. lev \in Nat \ {0} /\ t.hedgeRatio \in Nat
      BY LeverageBounds DEF Targets
    <2> HIDE DEF lev
    <2> QED BY <2>1
  <1> HIDE DEF lev
  <1>2. reserveBps(s, t) \in Int
    <2>1. t.reserve \in 0..BPS /\ t.defensiveReserve \in 0..BPS /\ BPS \in Nat
      BY PlannerTypes DEF Targets
    <2> QED BY <2>1 DEF reserveBps, Max2
  <1>3. kept \in Int
    BY <1>2, PlannerTypes, MulDivInt DEF SnapshotNumbers
  <1>4. (kept * lev) \div (lev + t.hedgeRatio) \in Int
    <2> HIDE DEF kept
    <2> QED BY <1>1, <1>3, MulDivInt
  <1> QED BY <1>1, <1>4 DEF context, ContextNumbers, lev

-----------------------------------------------------------------------------
(* The plan before the filters, and the forms it may have after them.       *)

TriggerNames ==
    {"DELTA", "LEVERAGE_HIGH", "LEVERAGE_LOW", "ALLOCATION", "FUNDING_DEFENSIVE", "IDLE", "LIQUIDATION"}
IsPlan(p) ==
    \E x : p \in [execute : BOOLEAN, urgent : BOOLEAN, triggers : SUBSET TriggerNames, sweep : Int,
                  long : Int, margin : Int, cost : {x}, h : Nat]

fired(s, c) == triggersOf(fires(s, c))
Drawn(s, c) ==
    [NoPlan EXCEPT !.execute = TRUE, !.triggers = fired(s, c), !.h = c.h, !.sweep = s.vaultIdle,
                   !.urgent = isUrgent(c, fired(s, c))]
Base(s, c, reserve) == Costed(s, _sizeTrades(s, c, Drawn(s, c), reserve))

(* How the long of the plan is found, and its margin. *)
longOf(s, c, reserve) ==
    LET dL == wantedLong(s, c, fired(s, c), isUrgent(c, fired(s, c)))
    IN  longWithin(s, c, dL, cashFor(s, reserve, dL))
marginOf(s, c, reserve) ==
    _sizeMargin(s, c, fired(s, c), isUrgent(c, fired(s, c)), s.longValue + longOf(s, c, reserve))

LEMMA WorthwhileInt == ASSUME NEW d \in Int PROVE worthwhile(d) \in Int
  BY DEF worthwhile

LEMMA MarginForInt == ASSUME NEW x \in Int, NEW c, ContextNumbers(c) PROVE marginFor(x, c) \in Int
  <1> DEFINE hedged == (x * c.h) \div BPS
  <1>1. c.h \in Int /\ c.lev \in Nat \ {0}
    BY DEF ContextNumbers
  <1>2. hedged \in Int
    BY <1>1, PlannerTypes, MulDivInt
  <1> HIDE DEF hedged
  <1>3. (hedged * BPS) \div c.lev \in Int
    BY <1>1, <1>2, PlannerTypes, MulDivInt
  <1> QED BY <1>3 DEF marginFor, hedged

LEMMA AffordableNat ==
    ASSUME NEW s, SnapshotNumbers(s), NEW c, ContextNumbers(c), NEW cash \in Int
    PROVE  (Pos(cash + s.perpEquity - marginFor(s.longValue, c)) * c.lev) \div (c.lev + c.h) \in Nat
  <1>1. s.longValue \in Int /\ s.perpEquity \in Int /\ c.lev \in Nat \ {0} /\ c.h \in Nat
    BY DEF SnapshotNumbers, ContextNumbers
  <1>2. cash + s.perpEquity - marginFor(s.longValue, c) \in Int
    BY <1>1, MarginForInt
  <1>3. Pos(cash + s.perpEquity - marginFor(s.longValue, c)) \in Nat
    BY <1>2, PosInt
  <1>4. c.lev \in Nat /\ c.lev + c.h \in Nat \ {0}
    BY <1>1
  <1> QED BY <1>3, <1>4, MulDivNat

LEMMA SizesInt ==
    ASSUME NEW s, SnapshotNumbers(s), NEW c, ContextNumbers(c), NEW reserve \in Int
    PROVE  longOf(s, c, reserve) \in Int /\ marginOf(s, c, reserve) \in Int
  <1> DEFINE urgent == isUrgent(c, fired(s, c))
             dL == wantedLong(s, c, fired(s, c), urgent)
             cash == cashFor(s, reserve, dL)
             most == (Pos(cash + s.perpEquity - marginFor(s.longValue, c)) * c.lev) \div (c.lev + c.h)
             long == longWithin(s, c, dL, cash)
  <1>1. /\ s.longValue \in Int /\ s.perpEquity \in Int /\ s.strategyFloat \in Int /\ s.vaultIdle \in Int
        /\ c.targetLong \in Int
    BY DEF SnapshotNumbers, ContextNumbers
  <1>2. dL \in Int
    <2>1. c.targetLong - s.longValue \in Int
      BY <1>1
    <2> QED BY <2>1, WorthwhileInt DEF wantedLong
  <1> HIDE DEF dL
  <1>3. cash \in Int
    <2>1. Pos(-dL) \in Int
      BY <1>2, PosInt
    <2> QED BY <1>1, <2>1 DEF cashFor
  <1> HIDE DEF cash
  <1>4. worthwhile(most) \in Int
    BY <1>3, AffordableNat, WorthwhileInt
  <1>5. long \in Int
    <2> HIDE DEF most
    <2>1. long \in {dL, worthwhile(most)}
      BY DEF longWithin, most
    <2> QED BY <1>2, <1>4, <2>1
  <1>6. longOf(s, c, reserve) = long
    BY DEF longOf, dL, cash
  <1> HIDE DEF long
  <1>7. marginOf(s, c, reserve) \in Int
    <2>1. marginFor(s.longValue + long, c) \in Int
      BY <1>1, <1>5, MarginForInt
    <2>2. worthwhile(marginFor(s.longValue + long, c) - s.perpEquity) \in Int
      BY <1>1, <2>1, WorthwhileInt
    <2> QED BY <1>6, <2>2 DEF marginOf, _sizeMargin
  <1> QED BY <1>5, <1>6, <1>7

LEMMA DrawnForm ==
    ASSUME NEW s, SnapshotNumbers(s), NEW c, ContextNumbers(c)
    PROVE  LET d == Drawn(s, c)
           IN  /\ IsPlan(d) /\ d.execute /\ d.urgent = isUrgent(c, fired(s, c)) /\ d.triggers = fired(s, c)
               /\ d.sweep = s.vaultIdle /\ d.h = c.h
  <1>1. fired(s, c) \in SUBSET TriggerNames
    <2> DEFINE f == fires(s, c)
    <2>1. DOMAIN f = TriggerNames
      BY DEF fires, TriggerNames
    <2> HIDE DEF f
    <2>2. triggersOf(f) \subseteq DOMAIN f
      BY DEF triggersOf
    <2> QED BY <2>1, <2>2 DEF fired, f
  <1>2. isUrgent(c, fired(s, c)) \in BOOLEAN
    BY Zenon DEF isUrgent
  <1>3. s.vaultIdle \in Int /\ c.h \in Nat
    BY DEF SnapshotNumbers, ContextNumbers
  <1> DEFINE T == fired(s, c)
             u == isUrgent(c, T)
  <1>4. Drawn(s, c) = [NoPlan EXCEPT !.execute = TRUE, !.triggers = T, !.h = c.h, !.sweep = s.vaultIdle, !.urgent = u]
    BY DEF Drawn
  <1> HIDE DEF T, u
  <1>5. Drawn(s, c) = [execute |-> TRUE, urgent |-> u, triggers |-> T,
                       sweep |-> s.vaultIdle, long |-> 0, margin |-> 0, cost |-> 0, h |-> c.h]
    BY <1>4 DEF NoPlan
  <1>6. T \in SUBSET TriggerNames /\ u \in BOOLEAN
    BY <1>1, <1>2 DEF T, u
  <1>7. Drawn(s, c) \in [execute : BOOLEAN, urgent : BOOLEAN, triggers : SUBSET TriggerNames, sweep : Int,
                         long : Int, margin : Int, cost : {0}, h : Nat]
    BY <1>3, <1>5, <1>6
  <1>8. IsPlan(Drawn(s, c))
    BY <1>7 DEF IsPlan
  <1> QED BY <1>5, <1>8 DEF T, u

\* Changes of fields that keep the form of a plan.
LEMMA CostedForm ==
    ASSUME NEW s, NEW p, IsPlan(p)
    PROVE  LET q == Costed(s, p)
           IN  /\ IsPlan(q) /\ q.execute = p.execute /\ q.urgent = p.urgent /\ q.triggers = p.triggers
               /\ q.sweep = p.sweep /\ q.long = p.long /\ q.margin = p.margin /\ q.h = p.h
  <1> DEFINE x == _estimateCost(s, p)
  <1>1. Costed(s, p) = [p EXCEPT !.cost = x]
    BY DEF Costed
  <1> HIDE DEF x
  <1>2. PICK y : p \in [execute : BOOLEAN, urgent : BOOLEAN, triggers : SUBSET TriggerNames, sweep : Int,
                        long : Int, margin : Int, cost : {y}, h : Nat]
    BY DEF IsPlan
  <1>3. [p EXCEPT !.cost = x] \in [execute : BOOLEAN, urgent : BOOLEAN, triggers : SUBSET TriggerNames, sweep : Int,
                                   long : Int, margin : Int, cost : {x}, h : Nat]
    BY <1>2
  <1>4. IsPlan([p EXCEPT !.cost = x])
    BY <1>3 DEF IsPlan
  <1> QED BY <1>1, <1>2, <1>4

Resized(p, l, m) == [p EXCEPT !.long = l, !.margin = m]
LEMMA ResizedForm ==
    ASSUME NEW p, IsPlan(p), NEW l \in Int, NEW m \in Int
    PROVE  LET q == Resized(p, l, m)
           IN  /\ IsPlan(q) /\ q.execute = p.execute /\ q.urgent = p.urgent /\ q.triggers = p.triggers
               /\ q.sweep = p.sweep /\ q.long = l /\ q.margin = m /\ q.h = p.h
  BY DEF IsPlan, Resized

LEMMA SweepOnlyForm ==
    ASSUME NEW p, IsPlan(p)
    PROVE  LET q == _sweepOnly(p)
           IN  /\ IsPlan(q) /\ q.urgent = p.urgent /\ q.triggers \subseteq {"IDLE"} /\ q.sweep = p.sweep
               /\ q.long = 0 /\ q.margin = 0 /\ q.h = p.h
  <1> DEFINE T == p.triggers \cap {"IDLE"}
             x == "IDLE" \in p.triggers
             flat == [execute |-> x, urgent |-> p.urgent, triggers |-> T, sweep |-> p.sweep,
                      long |-> 0, margin |-> 0, cost |-> 0, h |-> p.h]
  <1>1. /\ p.urgent \in BOOLEAN /\ p.sweep \in Int /\ p.h \in Nat /\ p.triggers \in SUBSET TriggerNames
        /\ p = [execute |-> p.execute, urgent |-> p.urgent, triggers |-> p.triggers, sweep |-> p.sweep,
                long |-> p.long, margin |-> p.margin, cost |-> p.cost, h |-> p.h]
    BY DEF IsPlan
  <1>2. _sweepOnly(p) = [p EXCEPT !.long = 0, !.margin = 0, !.cost = 0, !.triggers = T, !.execute = x]
    BY DEF _sweepOnly
  <1>3. T \in SUBSET TriggerNames /\ T \subseteq {"IDLE"} /\ x \in BOOLEAN
    BY <1>1
  <1> HIDE DEF T, x
  <1>4. _sweepOnly(p) = flat
    BY <1>1, <1>2
  <1>5. flat \in [execute : BOOLEAN, urgent : BOOLEAN, triggers : SUBSET TriggerNames, sweep : Int,
                  long : Int, margin : Int, cost : {0}, h : Nat]
    BY <1>1, <1>3
  <1>6. IsPlan(flat)
    BY <1>5 DEF IsPlan
  <1> QED BY <1>3, <1>4, <1>6

LEMMA BaseForm ==
    ASSUME NEW s, SnapshotNumbers(s), NEW c, ContextNumbers(c), NEW reserve \in Int
    PROVE  LET p == Base(s, c, reserve)
           IN  /\ IsPlan(p) /\ p.execute /\ p.urgent = isUrgent(c, fired(s, c)) /\ p.triggers = fired(s, c)
               /\ p.sweep = s.vaultIdle /\ p.h = c.h /\ p.long = longOf(s, c, reserve)
               /\ p.margin # 0 => marginOf(s, c, reserve) # 0
  <1> DEFINE d == Drawn(s, c)
             urgent == isUrgent(c, fired(s, c))
             dL == wantedLong(s, c, fired(s, c), urgent)
             cash == cashFor(s, reserve, dL)
             long == longOf(s, c, reserve)
             margin == marginOf(s, c, reserve)
             paid == IF margin > 0 THEN Min2(margin, Pos(cash - Pos(long))) ELSE margin
             sized == Resized(d, long, paid)
  <1>1. /\ IsPlan(d) /\ d.execute /\ d.urgent = urgent /\ d.triggers = fired(s, c)
        /\ d.sweep = s.vaultIdle /\ d.h = c.h
    BY DrawnForm
  <1> HIDE DEF d, urgent
  <1>2. long \in Int /\ margin \in Int
    BY SizesInt
  <1>3. _sizeTrades(s, c, d, reserve) = sized
    BY <1>1 DEF _sizeTrades, SizedWanted, SizedWithin, SizedFor, Sized, longOf, marginOf, urgent, Resized
  <1> HIDE DEF long, margin
  <1>4. cash \in Int
    <2>1. dL \in Int
      <3>1. c.targetLong - s.longValue \in Int
        BY DEF SnapshotNumbers, ContextNumbers
      <3> QED BY <3>1, WorthwhileInt DEF wantedLong
    <2> HIDE DEF dL
    <2>2. Pos(-dL) \in Int
      BY <2>1, PosInt
    <2> QED BY <2>2 DEF cashFor, SnapshotNumbers
  <1> HIDE DEF cash
  <1>5. paid \in Int /\ (margin = 0 => paid = 0)
    <2>1. Pos(cash - Pos(long)) \in Int
      BY <1>2, <1>4, PosInt
    <2> QED BY <1>2, <2>1, MinInt
  <1> HIDE DEF paid
  <1>6. /\ IsPlan(sized) /\ sized.execute /\ sized.urgent = urgent /\ sized.triggers = fired(s, c)
        /\ sized.sweep = s.vaultIdle /\ sized.h = c.h /\ sized.long = long /\ sized.margin = paid
    <2>1. LET q == Resized(d, long, paid)
          IN  /\ IsPlan(q) /\ q.execute = d.execute /\ q.urgent = d.urgent /\ q.triggers = d.triggers
              /\ q.sweep = d.sweep /\ q.long = long /\ q.margin = paid /\ q.h = d.h
      BY <1>1, <1>2, <1>5, ResizedForm
    <2> QED BY <1>1, <2>1
  <1> HIDE DEF sized
  <1>7. Base(s, c, reserve) = Costed(s, sized)
    BY <1>3 DEF Base, d
  <1>8. LET q == Costed(s, sized)
        IN  /\ IsPlan(q) /\ q.execute = sized.execute /\ q.urgent = sized.urgent /\ q.triggers = sized.triggers
            /\ q.sweep = sized.sweep /\ q.long = sized.long /\ q.margin = sized.margin /\ q.h = sized.h
    BY <1>6, CostedForm
  <1> QED BY <1>5, <1>6, <1>7, <1>8 DEF long, margin, urgent

LeverageTriggers == {"LEVERAGE_HIGH", "LEVERAGE_LOW", "LIQUIDATION"}

(* What is left of a plan when nothing urges it and it is too early, too dear
   or does not pay for itself. *)
SweepForm(p) == p.long = 0 /\ p.margin = 0 /\ p.triggers \subseteq {"IDLE"}
ReleverForm(p, triggers) ==
    /\ p.long = 0 /\ p.triggers = triggers
    /\ p.margin # 0 => triggers \cap LeverageTriggers # {}

LEMMA RefusedForm ==
    ASSUME NEW s, SnapshotNumbers(s), NEW c, ContextNumbers(c), NEW p, IsPlan(p)
    PROVE  LET q == RiskParts(Costed(s, ReleverRefused(s, c, p)))
           IN  /\ IsPlan(q) /\ q.urgent = p.urgent /\ q.sweep = p.sweep /\ q.h = p.h
               /\ SweepForm(q) \/ ReleverForm(q, p.triggers)
  <1> DEFINE size == _sizeMargin(s, c, p.triggers, p.urgent, s.longValue)
             m == IF p.triggers \cap LeverageTriggers # {} THEN size ELSE 0
             r == Resized(p, 0, m)
             q == Costed(s, r)
  <1>1. m \in Int /\ (m # 0 => p.triggers \cap LeverageTriggers # {})
    <2>1. s.longValue \in Int /\ s.perpEquity \in Int
      BY DEF SnapshotNumbers
    <2>2. marginFor(s.longValue, c) - s.perpEquity \in Int
      BY <2>1, MarginForInt
    <2>3. worthwhile(marginFor(s.longValue, c) - s.perpEquity) \in Int
      BY <2>2, WorthwhileInt
    <2>4. size \in Int
      BY <2>3 DEF _sizeMargin
    <2> HIDE DEF size
    <2> QED BY <2>4
  <1>2. ReleverRefused(s, c, p) = r
    BY DEF ReleverRefused, LeverageTriggers, Resized
  <1> HIDE DEF m
  <1>3. IsPlan(r) /\ r.urgent = p.urgent /\ r.triggers = p.triggers /\ r.sweep = p.sweep /\ r.long = 0 /\ r.margin = m /\ r.h = p.h
    BY <1>1, ResizedForm
  <1> HIDE DEF r
  <1>4. IsPlan(q) /\ q.urgent = p.urgent /\ q.triggers = p.triggers /\ q.sweep = p.sweep /\ q.long = 0 /\ q.margin = m /\ q.h = p.h
    BY <1>3, CostedForm
  <1> HIDE DEF q
  <1>5. CASE RiskParts(q) = q
    <2>1. ReleverForm(q, p.triggers)
      BY <1>1, <1>4 DEF ReleverForm
    <2> QED BY <1>2, <1>4, <1>5, <2>1 DEF q
  <1>6. CASE RiskParts(q) = _sweepOnly(q)
    <2>1. LET z == _sweepOnly(q)
          IN  /\ IsPlan(z) /\ z.urgent = q.urgent /\ z.triggers \subseteq {"IDLE"} /\ z.sweep = q.sweep
              /\ z.long = 0 /\ z.margin = 0 /\ z.h = q.h
      BY <1>4, SweepOnlyForm
    <2> QED BY <1>2, <1>4, <1>6, <2>1 DEF q, SweepForm
  <1> QED BY <1>5, <1>6 DEF RiskParts

LEMMA PlanForms ==
    ASSUME NEW s, SnapshotNumbers(s), NEW c, ContextNumbers(c), NEW reserve \in Int, NEW wait \in BOOLEAN
    PROVE  LET p == PlanIn(s, c, reserve, wait)
               T == fired(s, c)
               urgent == isUrgent(c, T)
           IN  \/ T = {} /\ p = NoPlan
               \/ /\ T # {} /\ IsPlan(p) /\ p.urgent = urgent /\ p.sweep = s.vaultIdle /\ p.h = c.h
                  /\ \/ ~urgent /\ SweepForm(p)
                     \/ (wait => urgent) /\ p = Base(s, c, reserve)
                     \/ ~wait /\ ~urgent /\ ReleverForm(p, T)
  <1> DEFINE T == fired(s, c)
             urgent == isUrgent(c, T)
             d == Drawn(s, c)
             base == Base(s, c, reserve)
             p == PlanIn(s, c, reserve, wait)
  <1>1. /\ IsPlan(d) /\ d.urgent = urgent /\ d.triggers = T /\ d.sweep = s.vaultIdle /\ d.h = c.h
    BY DrawnForm
  <1>2. IsPlan(base) /\ base.urgent = urgent /\ base.triggers = T /\ base.sweep = s.vaultIdle /\ base.h = c.h
    BY BaseForm
  <1>3. p = IF T = {} THEN NoPlan ELSE Planned(s, c, d, reserve, wait)
    BY DEF PlanIn, PlanFor, Drawn, fired
  <1>4. Planned(s, c, d, reserve, wait) =
            IF wait /\ ~urgent THEN _sweepOnly(d) ELSE Filtered(s, c, base)
    BY <1>1 DEF Planned, Base
  <1>5. urgent \in BOOLEAN
    BY Zenon DEF isUrgent
  <1> HIDE DEF T, urgent, d, base, p
  <1>6. CASE T = {}
    BY <1>3, <1>6 DEF p, T
  <1>7. CASE T # {} /\ wait /\ ~urgent
    <2>1. p = _sweepOnly(d)
      BY <1>3, <1>4, <1>7
    <2>2. LET z == _sweepOnly(d)
          IN  /\ IsPlan(z) /\ z.urgent = d.urgent /\ z.triggers \subseteq {"IDLE"} /\ z.sweep = d.sweep
              /\ z.long = 0 /\ z.margin = 0 /\ z.h = d.h
      BY <1>1, SweepOnlyForm
    <2>3. IsPlan(p) /\ p.urgent = urgent /\ p.sweep = s.vaultIdle /\ p.h = c.h /\ SweepForm(p)
      BY <1>1, <2>1, <2>2 DEF SweepForm
    <2> QED BY <1>7, <2>3 DEF p, T, urgent
  <1>8. CASE T # {} /\ (wait => urgent)
    <2>1. p = Filtered(s, c, base)
      BY <1>3, <1>4, <1>8
    <2>2. CASE p = base
      BY <1>2, <1>8, <2>2 DEF p, T, urgent, base
    <2>3. CASE ~urgent /\ p = _sweepOnly(base)
      <3>1. LET z == _sweepOnly(base)
            IN  /\ IsPlan(z) /\ z.urgent = base.urgent /\ z.triggers \subseteq {"IDLE"} /\ z.sweep = base.sweep
                /\ z.long = 0 /\ z.margin = 0 /\ z.h = base.h
        BY <1>2, SweepOnlyForm
      <3>2. IsPlan(p) /\ p.urgent = urgent /\ p.sweep = s.vaultIdle /\ p.h = c.h /\ SweepForm(p)
        BY <1>2, <2>3, <3>1 DEF SweepForm
      <3> QED BY <1>8, <2>3, <3>2 DEF p, T, urgent
    <2>4. CASE ~urgent /\ p = RiskParts(Costed(s, ReleverRefused(s, c, base)))
      <3> DEFINE q == RiskParts(Costed(s, ReleverRefused(s, c, base)))
      <3>1. /\ IsPlan(q) /\ q.urgent = base.urgent /\ q.sweep = base.sweep /\ q.h = base.h
            /\ SweepForm(q) \/ ReleverForm(q, base.triggers)
        BY <1>2, RefusedForm
      <3> HIDE DEF q
      <3>2. p = q
        BY <2>4 DEF q
      <3>3. ~wait
        BY <1>8, <2>4
      <3>4. IsPlan(p) /\ p.urgent = urgent /\ p.sweep = s.vaultIdle /\ p.h = c.h /\ (SweepForm(p) \/ ReleverForm(p, T))
        BY <1>2, <3>1, <3>2
      <3> QED BY <1>8, <2>4, <3>3, <3>4 DEF p, T, urgent
    <2>5. \/ p = base
          \/ ~urgent /\ p = _sweepOnly(base)
          \/ ~urgent /\ p = RiskParts(Costed(s, ReleverRefused(s, c, base)))
      BY <1>2, <1>5, <2>1, Zenon DEF Filtered
    <2> QED BY <2>2, <2>3, <2>4, <2>5
  <1> QED BY <1>5, <1>6, <1>7, <1>8

LEMMA NoPlanForm == IsPlan(NoPlan) /\ NoPlan.sweep = 0 /\ ~NoPlan.execute /\ ~NoPlan.urgent /\ NoPlan.margin = 0
  <1>1. NoPlan \in [execute : BOOLEAN, urgent : BOOLEAN, triggers : SUBSET TriggerNames, sweep : Int,
                    long : Int, margin : Int, cost : {0}, h : Nat]
    BY DEF NoPlan
  <1>2. IsPlan(NoPlan)
    BY <1>1 DEF IsPlan
  <1> QED BY <1>2 DEF NoPlan

(* The context of the plan for the books b. *)
contextOf(b, e, t, vol) == context(snapshot(b, e), t, vol, effectiveLeverageBps(t, vol))

LEMMA PlanCases ==
    ASSUME NEW b, Balanced(b), NEW e, Env(e), NEW t \in Targets, NEW vol \in Nat, NEW reserve \in Int,
           NEW wait \in BOOLEAN, NEW paused
    PROVE  LET s == snapshot(b, e)
               c == contextOf(b, e, t, vol)
               p == _plan(s, t, vol, reserve, wait, paused)
           IN  /\ IsPlan(p) /\ p.sweep \in {0, b.vault}
               /\ SnapshotNumbers(s) /\ ContextNumbers(c)
               /\ p = IF ~e.healthy \/ s.totalNav <= 0 \/ paused THEN NoPlan ELSE PlanIn(s, c, reserve, wait)
  <1> DEFINE s == snapshot(b, e)
             c == contextOf(b, e, t, vol)
             p == _plan(s, t, vol, reserve, wait, paused)
             q == PlanIn(s, c, reserve, wait)
  <1>1. SnapshotNumbers(s) /\ s.vaultIdle = b.vault /\ s.priceHealthy = e.healthy
    BY SnapshotTypes
  <1>2. ContextNumbers(c)
    BY <1>1, ContextTypes DEF contextOf
  <1>3. p = IF ~e.healthy \/ s.totalNav <= 0 \/ paused THEN NoPlan ELSE q
    BY <1>1 DEF _plan, PlanAt, contextOf
  <1> HIDE DEF s, c
  <1>4. q = NoPlan \/ (IsPlan(q) /\ q.sweep = s.vaultIdle)
    BY <1>1, <1>2, PlanForms
  <1> HIDE DEF p, q
  <1>5. IsPlan(p) /\ p.sweep \in {0, b.vault}
    BY <1>1, <1>3, <1>4, NoPlanForm
  <1> QED BY <1>1, <1>2, <1>3, <1>5 DEF p, q, s, c

-----------------------------------------------------------------------------
(***************************************************************************)
(* The rebalancer keeps its books in order whichever plan it executes, for  *)
(* every market, target and parameter.                                      *)
(***************************************************************************)
EnvRecord ==
    [price : Nat \ {0}, mark : Nat \ {0}, healthy : BOOLEAN, feed : BOOLEAN, lending : BOOLEAN,
     dex : BOOLEAN, paused : BOOLEAN, liquid : [usdc : Int, weth : Int], funding : Int]

RebInv ==
    /\ Balanced(book) /\ env \in EnvRecord
    /\ targets \in TargetSets
    /\ obs \in Observation /\ now \in Nat /\ lastRebalanceAt \in Nat

LEMMA EnvRecordEnv == ASSUME NEW e \in EnvRecord PROVE Env(e)
  BY DEF EnvRecord, Env

LEMMA RebTypes ==
    ASSUME RebInv
    PROVE  /\ Balanced(book) /\ Env(env) /\ env \in EnvRecord /\ targets \in Targets
           /\ env.price \in Nat /\ env.healthy \in BOOLEAN /\ now \in Int
           /\ withdrawable(book.usdc, env.liquid.usdc) \in Int /\ cooling \in BOOLEAN
  <1>1. Balanced(book) /\ Env(env) /\ env \in EnvRecord /\ targets \in Targets
    BY EnvRecordEnv, RebalanceAssumption DEF RebInv
  <1>2. env.price \in Nat /\ env.healthy \in BOOLEAN
    BY <1>1 DEF EnvRecord
  <1>3. withdrawable(book.usdc, env.liquid.usdc) \in Int
    BY <1>1, BalancedTypes, EnvTypes, WithdrawableInt
  <1>4. cooling \in BOOLEAN
    BY PlannerTypes DEF cooling, RebInv
  <1> QED BY <1>1, <1>2, <1>3, <1>4 DEF RebInv

LEMMA ObservedType ==
    ASSUME NEW o \in Observation, NEW price \in Nat, NEW t \in Int PROVE observe(o, price, t) \in Observation
  <1>1. projectedVariance(o, price, t) \in Int
    BY VarianceInt
  <1> QED BY <1>1 DEF observe, Observation

LEMMA PlanWithForm ==
    ASSUME RebInv, NEW o \in Observation
    PROVE  LET s == snapshot(book, env)
               c == contextOf(book, env, targets, annualizedVolBps(o, env, now))
               p == planWith(o)
           IN  /\ IsPlan(p) /\ p.sweep \in {0, book.vault}
               /\ SnapshotNumbers(s) /\ ContextNumbers(c)
               /\ p = IF ~env.healthy \/ s.totalNav <= 0 \/ env.paused THEN NoPlan
                      ELSE PlanIn(s, c, withdrawable(book.usdc, env.liquid.usdc), cooling)
  <1> DEFINE vol == annualizedVolBps(o, env, now)
             w == withdrawable(book.usdc, env.liquid.usdc)
  <1>1. vol \in Nat
    BY RebTypes, VolNat
  <1>2. planWith(o) = _plan(snapshot(book, env), targets, vol, w, cooling, env.paused)
    BY DEF planWith
  <1> HIDE DEF vol, w
  <1>3. w \in Int
    BY RebTypes DEF w
  <1> QED BY <1>1, <1>2, <1>3, RebTypes, PlanCases DEF vol, w

LEMMA ExecutedBalanced ==
    ASSUME RebInv, NEW p, IsPlan(p) PROVE Balanced(afterPlan(p))
  <1> DEFINE b == PushToStrategy(book, env, p.sweep)
             asked == [longUsdDelta |-> p.long, marginDelta |-> p.margin, hedgeRatioBps |-> p.h,
                       slip |-> Params.maxSlippage]
  <1>1. p.sweep \in Int /\ p.long \in Int /\ p.margin \in Int /\ p.h \in Nat
    BY DEF IsPlan
  <1>2. Balanced(b)
    BY <1>1, RebTypes, ReceivedCall DEF PushToStrategy
  <1>3. asked \in Plan
    BY <1>1, PlannerTypes DEF Plan
  <1>4. afterPlan(p) = IF trades(p) THEN executeRebalance(b, env, asked) ELSE b
    BY DEF afterPlan, Executed
  <1> HIDE DEF asked, b
  <1>5. Balanced(executeRebalance(b, env, asked))
    BY <1>2, <1>3, RebTypes, RebalanceCall
  <1> QED BY <1>2, <1>4, <1>5

LEMMA UpkeepKeeps == ASSUME RebInv, performUpkeep PROVE RebInv'
  <1>1. observed \in Observation
    BY RebTypes, ObservedType DEF observed, RebInv
  <1>2. PICK plan \in {planWith(observed)} : \E b \in {afterPlan(plan)} : Upkept(plan, b)
    BY DEF performUpkeep
  <1>3. IsPlan(plan)
    BY <1>1, <1>2, PlanWithForm
  <1>4. Upkept(plan, afterPlan(plan))
    BY <1>2
  <1>5. Balanced(book')
    BY <1>3, <1>4, ExecutedBalanced DEF Upkept
  <1>6. lastRebalanceAt' \in Nat
    BY <1>4 DEF Upkept, Stamped, RebInv
  <1>7. obs' = observed /\ UNCHANGED <<env, targets, now>>
    BY DEF performUpkeep
  <1> QED BY <1>1, <1>5, <1>6, <1>7 DEF RebInv

LEMMA ObserveKeeps == ASSUME RebInv, observeVolatility PROVE RebInv'
  <1>1. observed \in Observation
    BY RebTypes, ObservedType DEF observed, RebInv
  <1> QED BY <1>1 DEF observeVolatility, RebInv

LEMMA DepositKeeps == ASSUME RebInv, Deposit PROVE RebInv'
  <1>1. PICK x \in Deposits : book' = [book EXCEPT !.vault = book.vault + x]
    BY DEF Deposit
  <1>2. book.vault + x \in Int
    BY RebTypes, BalancedTypes, RebalanceAssumption
  <1>3. Balanced(book')
    BY <1>1, <1>2, RebTypes, VaultBalanced
  <1> QED BY <1>3 DEF Deposit, RebInv

LEMMA LiquidationKeeps == ASSUME RebInv, Liquidation PROVE RebInv'
  <1>1. Balanced(book')
    BY RebTypes, LiquidatedBalanced DEF Liquidation
  <1> QED BY <1>1 DEF Liquidation, RebInv

LEMMA MarketKeeps ==
    ASSUME RebInv, PriceMoves \/ FundingMoves \/ LiquidityMoves \/ OracleFails \/ OracleReturns \/ Pauses
    PROVE  RebInv'
  <1>1. Prices \subseteq Nat \ {0} /\ Gaps \subseteq Nat /\ Fundings \subseteq Int /\ Liquidity \subseteq [usdc : Int, weth : Int]
    BY RebalanceAssumption
  <1>2. CASE PriceMoves
    <2>1. PICK p \in Prices, gap \in Gaps :
             /\ env' = [env EXCEPT !.mark = p, !.price = IF env.healthy THEN p ELSE @]
             /\ now' = now + gap
      BY <1>2 DEF PriceMoves
    <2>2. p \in Nat \ {0} /\ gap \in Nat
      BY <1>1
    <2>3. env' \in EnvRecord
      BY <2>1, <2>2 DEF EnvRecord, RebInv
    <2>4. now' \in Nat
      BY <2>1, <2>2 DEF RebInv
    <2> QED BY <1>2, <2>3, <2>4 DEF PriceMoves, RebInv
  <1>3. CASE FundingMoves
    BY <1>1, <1>3 DEF FundingMoves, EnvRecord, RebInv
  <1>4. CASE LiquidityMoves
    BY <1>1, <1>4 DEF LiquidityMoves, EnvRecord, RebInv
  <1>5. CASE OracleFails \/ OracleReturns
    BY <1>5 DEF OracleFails, OracleReturns, EnvRecord, RebInv
  <1>6. CASE Pauses
    BY <1>6 DEF Pauses, EnvRecord, RebInv
  <1> QED BY <1>2, <1>3, <1>4, <1>5, <1>6

LEMMA RebNext == ASSUME RebInv, [Next]_vars PROVE RebInv'
  <1>1. CASE setTargets
    BY <1>1 DEF setTargets, RebInv
  <1>2. CASE UNCHANGED vars
    BY <1>2 DEF vars, RebInv
  <1> QED BY <1>1, <1>2, UpkeepKeeps, ObserveKeeps, DepositKeeps, LiquidationKeeps, MarketKeeps DEF Next

LEMMA FirstType == FirstObservation \in Observation
  <1>1. Params.volRef \in Int /\ BPS \in Nat \ {0}
    BY PlannerTypes
  <1>2. (Params.volRef * Params.volRef) \div BPS \in Int
    BY <1>1, MulDivInt
  <1>3. (((Params.volRef * Params.volRef) \div BPS) * VarUnit) \div BPS \in Int
    BY <1>1, <1>2, MulDivInt DEF VarUnit
  <1> QED BY <1>3 DEF FirstObservation, Observation

LEMMA RebInit == Init => RebInv
  <1> SUFFICES ASSUME Init PROVE RebInv
    OBVIOUS
  <1>1. Balanced(book)
    BY RebalanceAssumption, EmptyBalanced DEF Init
  <1>2. PICK p \in Prices, f \in Fundings, l \in Liquidity :
           env = [price |-> p, mark |-> p, healthy |-> TRUE, feed |-> TRUE, lending |-> TRUE,
                  dex |-> TRUE, paused |-> FALSE, liquid |-> l, funding |-> f]
    BY DEF Init
  <1>3. p \in Nat \ {0} /\ f \in Int /\ l \in [usdc : Int, weth : Int]
    BY RebalanceAssumption
  <1>4. env \in EnvRecord
    BY <1>2, <1>3 DEF EnvRecord
  <1>5. now \in Nat /\ lastRebalanceAt \in Nat
    BY PlannerTypes DEF Init
  <1> QED BY <1>1, <1>4, <1>5, FirstType DEF Init, RebInv

-----------------------------------------------------------------------------
(***************************************************************************)
(* When the rebalancer acts: danger is not held back, and margin does not  *)
(* move by itself.                                                         *)
(***************************************************************************)
LEMMA FiredTriggers ==
    ASSUME NEW s, NEW c
    PROVE  /\ "LEVERAGE_HIGH" \in fired(s, c) <=> leverageHigh(s, c)
           /\ "LEVERAGE_LOW" \in fired(s, c) <=> leverageLow(s, c)
           /\ "ALLOCATION" \in fired(s, c) <=> drifted(s, c)
           /\ "LIQUIDATION" \in fired(s, c) <=> s.perpSize # 0 /\ c.liqDist < Limits.liquidationWarn
  <1> DEFINE f == fires(s, c)
  <1>1. /\ DOMAIN f = TriggerNames
        /\ f.LEVERAGE_HIGH = leverageHigh(s, c) /\ f.LEVERAGE_LOW = leverageLow(s, c)
        /\ f.ALLOCATION = drifted(s, c)
        /\ f.LIQUIDATION = (s.perpSize # 0 /\ c.liqDist < Limits.liquidationWarn)
    BY DEF fires, TriggerNames
  <1>2. \A x \in TriggerNames : x \in fired(s, c) <=> f[x]
    <2> HIDE DEF f
    <2>1. fired(s, c) = {x \in TriggerNames : f[x]}
      BY <1>1 DEF fired, triggersOf, f
    <2> QED BY <2>1
  <1> HIDE DEF f
  <1>3. /\ f["LEVERAGE_HIGH"] <=> leverageHigh(s, c)
        /\ f["LEVERAGE_LOW"] <=> leverageLow(s, c)
        /\ f["ALLOCATION"] <=> drifted(s, c)
        /\ f["LIQUIDATION"] <=> (s.perpSize # 0 /\ c.liqDist < Limits.liquidationWarn)
    BY <1>1, Zenon
  <1> QED BY <1>2, <1>3 DEF TriggerNames

LEMMA LeverageNat == ASSUME NEW s, SnapshotNumbers(s) PROVE _leverage(s) \in Nat
  <1>1. s.shortNotional \in Nat /\ s.perpEquity \in Nat /\ BPS \in Nat
    BY PlannerTypes DEF SnapshotNumbers
  <1>2. s.perpEquity # 0 => (s.shortNotional * BPS) \div s.perpEquity \in Nat
    BY <1>1, MulDivNat
  <1> QED BY <1>2 DEF _leverage, Infinite

LEMMA DivMono == ASSUME NEW a \in Nat, NEW b \in Nat, NEW d \in Nat \ {0}, a <= b PROVE a \div d <= b \div d
  OBVIOUS

\* A leverage beyond the hard limit and the band of the target fires its trigger.
LEMMA BandBelowLimit ==
    ASSUME NEW s, SnapshotNumbers(s), NEW t \in TargetSets, NEW vol \in Nat,
           _leverage(s) > Max2(Limits.leverage, bandEnd(t))
    PROVE  leverageHigh(s, context(s, t, vol, effectiveLeverageBps(t, vol)))
  <1> DEFINE lev == effectiveLeverageBps(t, vol)
             c == context(s, t, vol, lev)
             most == Max2(t.leverage, LeverageFloor)
             band == BPS + Params.leverageBand
  <1>1. t \in Targets
    BY RebalanceAssumption
  <1>2. lev \in Nat \ {0} /\ lev <= most
    BY <1>1, LeverageBounds
  <1>3. most \in Nat
    BY <1>1, PlannerTypes DEF Targets, Max2
  <1>4. band \in Nat /\ BPS \in Nat \ {0} /\ Limits.leverage \in Nat
    BY PlannerTypes
  <1>5. /\ _leverage(s) > Max2(Limits.leverage, (most * band) \div BPS)
        /\ (most * band) \div BPS \in Nat
    BY <1>3, <1>4, MulNat, DivNat DEF bandEnd
  <1>6. c.lev = lev /\ c.curLev = _leverage(s)
    BY <1>1, ContextTypes
  <1> HIDE DEF lev, most, band, c
  <1>7. (lev * band) \div BPS \in Nat /\ (lev * band) \div BPS <= (most * band) \div BPS
    <2>1. lev * band \in Nat /\ most * band \in Nat /\ lev * band <= most * band
      BY <1>2, <1>3, <1>4, MulNat, MulMono
    <2> QED BY <1>4, <2>1, DivMono, DivNat
  <1>8. _leverage(s) > Limits.leverage /\ _leverage(s) > (most * band) \div BPS
    BY <1>4, <1>5, LeverageNat DEF Max2
  <1>9. _leverage(s) > (lev * band) \div BPS
    BY <1>5, <1>7, <1>8, LeverageNat
  <1>10. s.perpSize # 0
    BY <1>4, <1>8 DEF _leverage
  <1> QED BY <1>6, <1>9, <1>10 DEF leverageHigh, band, c, lev

LEMMA UrgencyHolds == ASSUME RebInv PROVE UrgencyIsDue
  <1> DEFINE s == snapshot(book, env)
             vol == annualizedVolBps(obs, env, now)
             c == contextOf(book, env, targets, vol)
             w == withdrawable(book.usdc, env.liquid.usdc)
             p == planWith(obs)
             T == fired(s, c)
  <1> SUFFICES ASSUME env.healthy, ~env.paused, s.totalNav > 0, beyond(s)
               PROVE  p.execute /\ trades(p)
    BY DEF UrgencyIsDue, previewRebalance
  <1>1. vol \in Nat /\ targets \in TargetSets /\ targets \in Targets
    BY RebTypes, VolNat DEF RebInv
  <1>2. SnapshotNumbers(s) /\ ContextNumbers(c) /\ w \in Int /\ cooling \in BOOLEAN
    BY RebTypes, PlanWithForm DEF RebInv
  <1>3. p = PlanIn(s, c, w, cooling)
    <2>1. ~(s.totalNav <= 0)
      BY <1>2 DEF SnapshotNumbers
    <2> QED BY <2>1, PlanWithForm DEF RebInv
  <1>4. c.curLev = _leverage(s) /\ c.liqDist = liquidationDistance(s)
    BY <1>1, <1>2, ContextTypes DEF contextOf
  <1>5. isUrgent(c, T) /\ ("LEVERAGE_HIGH" \in T \/ "LIQUIDATION" \in T)
    <2>1. CASE _leverage(s) > Max2(Limits.leverage, bandEnd(targets))
      <3>1. leverageHigh(s, c)
        BY <1>1, <1>2, <2>1, BandBelowLimit DEF contextOf
      <3>2. isUrgent(c, T)
        <4>1. bandEnd(targets) \in Nat /\ Limits.leverage \in Nat
          <5>1. /\ Max2(targets.leverage, LeverageFloor) \in Nat /\ BPS + Params.leverageBand \in Nat
                /\ BPS \in Nat \ {0} /\ Limits.leverage \in Nat
            BY <1>1, PlannerTypes DEF Targets, Max2
          <5> QED BY <5>1, MulNat, DivNat DEF bandEnd
        <4>2. _leverage(s) > Limits.leverage
          BY <1>2, <2>1, <4>1, LeverageNat DEF Max2
        <4> QED BY <1>4, <4>2 DEF isUrgent
      <3> QED BY <3>1, <3>2, FiredTriggers
    <2>2. CASE s.perpSize # 0 /\ liquidationDistance(s) < Limits.liquidationWarn
      <3>1. "LIQUIDATION" \in T
        BY <1>4, <2>2, FiredTriggers
      <3> QED BY <3>1 DEF isUrgent
    <2> QED BY <2>1, <2>2 DEF beyond
  <1> HIDE DEF s, c, w, p, T
  <1>6. p = Base(s, c, w)
    BY <1>2, <1>3, <1>5, PlanForms DEF T
  <1>7. p.execute /\ p.triggers = T
    BY <1>2, <1>6, BaseForm DEF T
  <1>8. trades(p)
    BY <1>5, <1>7 DEF trades
  <1> QED BY <1>7, <1>8

\* Of a plan that trades margin alone, with nothing wrong with the leverage.
LEMMA MarginAlone ==
    ASSUME NEW s, SnapshotNumbers(s), NEW c, ContextNumbers(c), NEW reserve \in Int,
           s.totalNav > 0, ~isUrgent(c, fired(s, c)), fired(s, c) \cap LeverageTriggers = {},
           longOf(s, c, reserve) = 0, marginOf(s, c, reserve) # 0, s.perpSize # 0
    PROVE  LET a == affordable(s, c, reserve) IN a = 0 \/ a < Params.minTrade
  <1> DEFINE T == fired(s, c)
             drift == c.targetLong - s.longValue
             dL == wantedLong(s, c, T, isUrgent(c, T))
             cash == cashFor(s, reserve, dL)
             a == affordable(s, c, reserve)
  <1>1. "ALLOCATION" \in T
    <2>1. resizes(s, T, isUrgent(c, T), s.longValue + longOf(s, c, reserve))
      BY DEF marginOf, _sizeMargin
    <2> QED BY <2>1 DEF resizes, LeverageTriggers
  <1>2. drift \in Int /\ Params.minTrade \in Nat /\ s.totalNav \in Nat
    BY PlannerTypes DEF SnapshotNumbers, ContextNumbers
  <1>3. abs(drift) >= Params.minTrade /\ drift # 0
    <2>1. drifted(s, c)
      BY <1>1, FiredTriggers
    <2>2. (s.totalNav * Params.allocationBand) \div BPS \in Nat
      BY <1>2, PlannerTypes, MulDivNat
    <2>3. abs(drift) > (s.totalNav * Params.allocationBand) \div BPS /\ abs(drift) >= Params.minTrade
      BY <2>1 DEF drifted
    <2>4. abs(drift) > 0
      <3> HIDE DEF drift
      <3>1. abs(drift) \in Nat
        BY <1>2, AbsInt
      <3> QED BY <2>2, <2>3, <3>1
    <2> QED BY <2>3, <2>4 DEF abs
  <1>4. dL = drift
    BY <1>1, <1>3 DEF wantedLong, worthwhile
  <1> HIDE DEF T, dL, drift
  <1>5. longWithin(s, c, dL, cash) = 0
    BY DEF longOf, dL, T
  <1>6. dL > 0 /\ worthwhile((Pos(cash + s.perpEquity - marginFor(s.longValue, c)) * c.lev) \div (c.lev + c.h)) = 0
    BY <1>2, <1>3, <1>4, <1>5 DEF longWithin
  <1>7. cash = cashFor(s, reserve, 0)
    BY <1>2, <1>4, <1>6 DEF cashFor, Pos
  <1>8. worthwhile(a) = 0
    BY <1>6, <1>7 DEF affordable
  <1>9. a \in Nat
    <2>1. cashFor(s, reserve, 0) \in Int
      BY DEF cashFor, Pos, SnapshotNumbers
    <2> QED BY <2>1, AffordableNat DEF affordable
  <1> HIDE DEF a
  <1>10. a = 0 \/ a < Params.minTrade
    BY <1>2, <1>8, <1>9 DEF worthwhile, abs
  <1> QED BY <1>10 DEF a

LEMMA MarginHolds == ASSUME RebInv PROVE MarginMovesForAReason
  <1> DEFINE s == snapshot(book, env)
             vol == annualizedVolBps(obs, env, now)
             c == contextOf(book, env, targets, vol)
             w == withdrawable(book.usdc, env.liquid.usdc)
             p == planWith(obs)
             T == fired(s, c)
  <1>0. p = previewRebalance
    BY DEF previewRebalance
  <1> HIDE DEF p
  <1> SUFFICES ASSUME p.margin # 0, p.long = 0, ~outOfBand(p), ~p.urgent, book.size # 0
               PROVE  cannotBuy
    BY <1>0 DEF MarginMovesForAReason
  <1> USE DEF p
  <1>1. SnapshotNumbers(s) /\ ContextNumbers(c) /\ w \in Int /\ cooling \in BOOLEAN
    BY RebTypes, PlanWithForm DEF RebInv
  <1>2. s.perpSize = book.size
    BY RebTypes, SnapshotTypes
  <1>3. p = PlanIn(s, c, w, cooling) /\ s.totalNav > 0
    <2>1. p = IF ~env.healthy \/ s.totalNav <= 0 \/ env.paused THEN NoPlan ELSE PlanIn(s, c, w, cooling)
      BY PlanWithForm DEF RebInv
    <2>2. p # NoPlan
      BY NoPlanForm
    <2> QED BY <1>1, <2>1, <2>2 DEF SnapshotNumbers
  <1>4. cannotBuy <=> LET a == affordable(s, c, w) IN a = 0 \/ a < Params.minTrade
    BY DEF cannotBuy, contextNow, contextOf
  <1> HIDE DEF s, c, w, p, T
  <1>5. /\ T # {} /\ IsPlan(p) /\ p.urgent = isUrgent(c, T)
        /\ \/ ~isUrgent(c, T) /\ SweepForm(p)
           \/ p = Base(s, c, w)
           \/ ReleverForm(p, T)
    BY <1>1, <1>3, PlanForms, NoPlanForm DEF T
  <1>6. ~SweepForm(p)
    BY DEF SweepForm
  <1>7. ~ReleverForm(p, T)
    BY DEF ReleverForm, outOfBand, LeverageTriggers
  <1>8. p = Base(s, c, w) /\ p.triggers = T /\ longOf(s, c, w) = 0 /\ marginOf(s, c, w) # 0
    BY <1>1, <1>5, <1>6, <1>7, BaseForm DEF T
  <1>9. T \cap LeverageTriggers = {}
    BY <1>8 DEF outOfBand, LeverageTriggers
  <1> QED BY <1>1, <1>2, <1>3, <1>4, <1>5, <1>8, <1>9, MarginAlone DEF T

-----------------------------------------------------------------------------
(***************************************************************************)
(* What the dashboard tells of the rebalancer.                              *)
(***************************************************************************)

LEMMA DashboardNextIsNext == DashboardNext => Next
  BY DEF DashboardNext, Rebalances, Others, Next

LEMMA DashboardKeeps == RebInv /\ [DashboardNext]_allVars => RebInv'
  <1> SUFFICES ASSUME RebInv, [DashboardNext]_allVars PROVE RebInv'
    OBVIOUS
  <1>1. [Next]_vars
    BY DashboardNextIsNext DEF allVars
  <1> QED BY <1>1, RebNext

LEMMA DashboardStarts == DashboardInit => RebInv
  BY RebInit DEF DashboardInit

\* Whatever the market, the targets, the limits and the parameters: a book that
\* is close to liquidation, or whose leverage is beyond the hard limit and the
\* band of its target, is traded at once, and no plan moves margin by itself
\* without a reason.
THEOREM ActsForAReasonHolds == DashboardSpec => []ActsForAReason
  <1>1. RebInv => ActsForAReason
    BY UrgencyHolds, MarginHolds DEF ActsForAReason
  <1> QED BY DashboardStarts, DashboardKeeps, <1>1, PTL DEF DashboardSpec

-----------------------------------------------------------------------------
\* A plan that trades and is not urgent is not made during the interval.
LEMMA TradesKeepTheInterval ==
    ASSUME RebInv, NEW o \in Observation,
           planWith(o).execute, trades(planWith(o)), ~planWith(o).urgent
    PROVE  ~cooling
  <1> DEFINE s == snapshot(book, env)
             c == contextOf(book, env, targets, annualizedVolBps(o, env, now))
             w == withdrawable(book.usdc, env.liquid.usdc)
             p == planWith(o)
             T == fired(s, c)
  <1>1. SnapshotNumbers(s) /\ ContextNumbers(c) /\ w \in Int /\ cooling \in BOOLEAN
    BY RebTypes, PlanWithForm
  <1>2. p = IF ~env.healthy \/ s.totalNav <= 0 \/ env.paused THEN NoPlan ELSE PlanIn(s, c, w, cooling)
    BY PlanWithForm
  <1>3. p.execute /\ trades(p) /\ ~p.urgent
    OBVIOUS
  <1> HIDE DEF s, c, w, p, T
  <1>4. p # NoPlan /\ p = PlanIn(s, c, w, cooling)
    BY <1>2, <1>3, NoPlanForm
  <1>5. /\ p.urgent = isUrgent(c, T)
        /\ \/ SweepForm(p)
           \/ cooling => isUrgent(c, T)
           \/ ~cooling
    BY <1>1, <1>4, PlanForms DEF T
  <1>6. ~SweepForm(p)
    BY <1>3 DEF SweepForm, trades
  <1> QED BY <1>1, <1>3, <1>5, <1>6

(* The records are a sequence, of whatever they tell; the times of those that
   traded are told by lastRebalanceAt, which is the newest of them. *)
HistoryInv ==
    /\ RebInv
    /\ lastRebalanceAt <= now
    /\ \E S : records \in Seq(S)
    /\ \A i \in DOMAIN records : traded(i) => records[i].ts \in Nat /\ records[i].ts <= lastRebalanceAt
    /\ \/ lastRebalanceAt = 0 /\ \A i \in DOMAIN records : ~traded(i)
       \/ \E i \in DOMAIN records :
             /\ traded(i) /\ records[i].ts = lastRebalanceAt
             /\ \A j \in DOMAIN records : traded(j) => j <= i
    /\ CadenceIsKept

(* What a sequence becomes with one more. *)
LEMMA Appended ==
    ASSUME NEW S, NEW q \in Seq(S), NEW x
    PROVE  /\ Append(q, x) \in Seq(S \cup {x}) /\ Len(q) \in Nat /\ DOMAIN q = 1..Len(q)
           /\ Len(Append(q, x)) = Len(q) + 1 /\ DOMAIN Append(q, x) = 1..(Len(q) + 1)
           /\ \A i \in 1..Len(q) : Append(q, x)[i] = q[i]
           /\ Append(q, x)[Len(q) + 1] = x
  <1>1. q \in Seq(S \cup {x})
    <2>1. Len(q) \in Nat /\ q \in [1..Len(q) -> S]
      OBVIOUS
    <2>2. q \in [1..Len(q) -> S \cup {x}]
      BY <2>1
    <2> QED BY <2>1, <2>2, SeqDef
  <1> QED BY <1>1, AppendProperties

(* An upkeep: the plan, the books it makes, and the record of it. *)
LEMMA UpkeepRecords ==
    ASSUME RebInv, Rebalances
    PROVE  LET p == planWith(observed)
           IN  /\ observed \in Observation /\ IsPlan(p) /\ p.execute
               /\ Upkept(p, afterPlan(p))
               /\ records' = Append(records, _record(p, afterPlan(p), snapshot(book, env), snapshot(afterPlan(p), env)))
  <1> DEFINE p == planWith(observed)
  <1>1. observed \in Observation
    BY RebTypes, ObservedType DEF observed, RebInv
  <1>2. IsPlan(p)
    BY <1>1, PlanWithForm
  <1>3. Upkept(p, afterPlan(p))
    BY DEF Rebalances, performUpkeep
  <1>4. p.execute
    BY <1>3 DEF Upkept
  <1>5. records' = Append(records, _record(p, afterPlan(p), snapshot(book, env), snapshot(afterPlan(p), env)))
    <2> HIDE DEF p
    <2>1. \E plan \in {p} : \E b \in {afterPlan(plan)} :
             records' = Append(records, _record(plan, b, snapshot(book, env), snapshot(b, env)))
      BY DEF Rebalances, p
    <2> QED BY <2>1
  <1> QED BY <1>1, <1>2, <1>3, <1>4, <1>5

LEMMA RecordFields ==
    ASSUME NEW p, NEW b, NEW pre, NEW post
    PROVE  LET r == _record(p, b, pre, post)
           IN  /\ r.ts = now /\ r.traded = trades(p) /\ r.urgent = p.urgent /\ r.triggers = p.triggers
               /\ r.longUsdDelta = p.long /\ r.marginDelta = p.margin /\ r.estimatedCost = p.cost
  BY DEF _record

LEMMA HistoryGrows == ASSUME HistoryInv, Rebalances PROVE HistoryInv'
  <1> DEFINE p == planWith(observed)
             r == _record(p, afterPlan(p), snapshot(book, env), snapshot(afterPlan(p), env))
             n == Len(records)
  <1>1. RebInv /\ RebInv'
    BY UpkeepKeeps DEF HistoryInv, Rebalances
  <1>2. /\ observed \in Observation /\ p.execute /\ records' = Append(records, r)
        /\ lastRebalanceAt' = IF trades(p) THEN now ELSE lastRebalanceAt
    BY <1>1, UpkeepRecords DEF Upkept, Stamped
  <1>3. now' = now /\ now \in Nat /\ lastRebalanceAt \in Nat /\ lastRebalanceAt <= now
    BY <1>1 DEF Rebalances, performUpkeep, HistoryInv, RebInv
  <1>4. trades(p) /\ ~p.urgent => ~cooling
    BY <1>1, <1>2, TradesKeepTheInterval
  <1>5. r.ts = now /\ r.traded = trades(p) /\ r.urgent = p.urgent
    BY RecordFields
  <1>6. PICK S : records \in Seq(S)
    BY DEF HistoryInv
  <1>7. trades(p) \in BOOLEAN
    BY Zenon DEF trades
  <1> HIDE DEF p, r
  <1>8. /\ records' \in Seq(S \cup {r}) /\ n \in Nat /\ DOMAIN records = 1..n
        /\ DOMAIN records' = 1..(n + 1)
        /\ \A i \in 1..n : records'[i] = records[i]
        /\ records'[n + 1] = r
    BY <1>2, <1>6, Appended
  <1>9. Params.minInterval \in Nat
    BY PlannerTypes
  <1> HIDE DEF n
  <1>10. lastRebalanceAt' <= now'
    BY <1>2, <1>3
  <1>11. \A i \in DOMAIN records' : records'[i].traded => records'[i].ts \in Nat /\ records'[i].ts <= lastRebalanceAt'
    <2>1. \A i \in 1..n : records'[i].traded => records'[i].ts \in Nat /\ records'[i].ts <= lastRebalanceAt
      BY <1>8 DEF HistoryInv, traded
    <2>2. lastRebalanceAt <= lastRebalanceAt' /\ lastRebalanceAt' \in Nat
      BY <1>2, <1>3
    <2>3. records'[n + 1].traded => records'[n + 1].ts \in Nat /\ records'[n + 1].ts <= lastRebalanceAt'
      BY <1>2, <1>3, <1>5, <1>8 DEF traded
    <2> QED BY <1>3, <1>8, <2>1, <2>2, <2>3
  <1>12. CadenceIsKept'
    <2> SUFFICES ASSUME NEW i \in DOMAIN records', NEW j \in DOMAIN records', i < j,
                        records'[i].traded, records'[j].traded, ~records'[j].urgent
                 PROVE  records'[j].ts >= records'[i].ts + Params.minInterval
      BY DEF CadenceIsKept, traded
    <2>1. CASE j \in 1..n
      <3>1. i \in 1..n
        BY <1>8, <2>1
      <3>2. records'[i] = records[i] /\ records'[j] = records[j]
        BY <1>8, <2>1, <3>1
      <3>3. traded(i) /\ traded(j) /\ ~records[j].urgent
        BY <3>2 DEF traded
      <3> QED BY <1>8, <2>1, <3>1, <3>2, <3>3 DEF HistoryInv, CadenceIsKept
    <2>2. CASE j = n + 1
      <3>1. i \in 1..n /\ records'[i] = records[i] /\ records'[j] = r
        BY <1>8, <2>2
      <3>2. records[i].ts \in Nat /\ records[i].ts <= lastRebalanceAt
        BY <1>8, <3>1 DEF HistoryInv, traded
      <3>3. trades(p) /\ ~p.urgent
        BY <1>5, <3>1 DEF traded
      <3>4. now >= lastRebalanceAt + Params.minInterval
        BY <1>3, <1>4, <1>9, <3>3 DEF cooling
      <3> QED BY <1>3, <1>5, <1>9, <3>1, <3>2, <3>4
    <2> QED BY <1>8, <2>1, <2>2
  <1>13. \/ lastRebalanceAt' = 0 /\ \A i \in DOMAIN records' : ~records'[i].traded
         \/ \E i \in DOMAIN records' :
               /\ records'[i].traded /\ records'[i].ts = lastRebalanceAt'
               /\ \A j \in DOMAIN records' : records'[j].traded => j <= i
    <2>1. CASE trades(p)
      <3>1. records'[n + 1].traded /\ records'[n + 1].ts = lastRebalanceAt'
        BY <1>2, <1>5, <1>8, <2>1 DEF traded
      <3>2. n + 1 \in DOMAIN records' /\ \A j \in DOMAIN records' : j <= n + 1
        BY <1>8
      <3> QED BY <3>1, <3>2
    <2>2. CASE ~trades(p)
      <3>1. ~records'[n + 1].traded /\ lastRebalanceAt' = lastRebalanceAt
        BY <1>2, <1>5, <1>8, <2>2 DEF traded
      <3>2. \A i \in 1..n : (records'[i].traded <=> traded(i)) /\ records'[i] = records[i]
        BY <1>8 DEF traded
      <3>3. CASE lastRebalanceAt = 0 /\ \A i \in DOMAIN records : ~traded(i)
        BY <1>8, <3>1, <3>2, <3>3
      <3>4. CASE \E i \in DOMAIN records :
                    /\ traded(i) /\ records[i].ts = lastRebalanceAt
                    /\ \A j \in DOMAIN records : traded(j) => j <= i
        <4>1. PICK i \in 1..n : /\ traded(i) /\ records[i].ts = lastRebalanceAt
                                /\ \A j \in 1..n : traded(j) => j <= i
          BY <1>8, <3>4
        <4>2. i \in DOMAIN records' /\ records'[i].traded /\ records'[i].ts = lastRebalanceAt'
          BY <1>8, <3>1, <3>2, <4>1
        <4>3. \A j \in DOMAIN records' : records'[j].traded => j <= i
          BY <1>8, <3>1, <3>2, <4>1
        <4> QED BY <4>2, <4>3
      <3> QED BY <3>3, <3>4 DEF HistoryInv
    <2> QED BY <1>7, <2>1, <2>2
  <1> QED BY <1>1, <1>8, <1>10, <1>11, <1>12, <1>13 DEF HistoryInv, traded

LEMMA HistoryNext == HistoryInv /\ [DashboardNext]_allVars => HistoryInv'
  <1> SUFFICES ASSUME HistoryInv, [DashboardNext]_allVars PROVE HistoryInv'
    OBVIOUS
  <1>1. RebInv'
    BY DashboardKeeps DEF HistoryInv
  <1>2. CASE Others \/ UNCHANGED allVars
    <2>1. records' = records /\ lastRebalanceAt' = lastRebalanceAt
      BY <1>2 DEF Others, allVars, vars, observeVolatility, setTargets, Deposit, PriceMoves, FundingMoves,
                  LiquidityMoves, OracleFails, OracleReturns, Pauses, Liquidation
    <2>2. now' = now \/ \E gap \in Gaps : now' = now + gap
      BY <1>2 DEF Others, allVars, vars, observeVolatility, setTargets, Deposit, PriceMoves, FundingMoves,
                  LiquidityMoves, OracleFails, OracleReturns, Pauses, Liquidation
    <2>3. lastRebalanceAt' <= now'
      BY <2>1, <2>2, RebalanceAssumption DEF HistoryInv, RebInv
    <2> QED BY <1>1, <2>1, <2>3 DEF HistoryInv, CadenceIsKept, traded
  <1> QED BY <1>2, HistoryGrows DEF DashboardNext

LEMMA HistoryStarts == DashboardInit => HistoryInv
  <1> SUFFICES ASSUME DashboardInit PROVE HistoryInv
    OBVIOUS
  <1>1. RebInv
    BY DashboardStarts
  <1>2. records = <<>> /\ records \in Seq({}) /\ DOMAIN records = {}
    BY DEF DashboardInit
  <1>3. lastRebalanceAt = 0 /\ lastRebalanceAt <= now
    BY <1>1 DEF DashboardInit, Init, RebInv
  <1> QED BY <1>1, <1>2, <1>3 DEF HistoryInv, CadenceIsKept

LEMMA NewestIsLast == ASSUME HistoryInv PROVE LastRebalanceIsATrade
  <1> DEFINE Newest(i) == traded(i) /\ \A j \in DOMAIN records : traded(j) => j <= i
  <1>1. RebalancePlanCard(strategyView).last = lastRebalanceAt
    BY DEF RebalancePlanCard, strategyView
  <1>2. DOMAIN records \subseteq Nat
    <2>1. PICK S : records \in Seq(S)
      BY DEF HistoryInv
    <2>2. DOMAIN records = 1..Len(records) /\ Len(records) \in Nat
      BY <2>1
    <2> QED BY <2>2
  <1>3. CASE lastRebalanceAt = 0 /\ \A i \in DOMAIN records : ~traded(i)
    BY <1>1, <1>3 DEF LastRebalanceIsATrade
  <1>4. CASE \E i \in DOMAIN records : Newest(i) /\ records[i].ts = lastRebalanceAt
    <2>1. PICK i \in DOMAIN records : Newest(i) /\ records[i].ts = lastRebalanceAt
      BY <1>4
    <2> DEFINE k == CHOOSE x \in DOMAIN records : Newest(x)
    <2>2. k \in DOMAIN records /\ Newest(k)
      BY <2>1, Zenon
    <2>3. k = i
      <3> HIDE DEF k
      <3>1. k <= i /\ i <= k /\ k \in Nat /\ i \in Nat
        BY <1>2, <2>1, <2>2
      <3> QED BY <3>1
    <2>4. traded(i)
      BY <2>1
    <2> QED BY <1>1, <2>1, <2>3, <2>4, Zenon DEF LastRebalanceIsATrade
  <1> QED BY <1>3, <1>4 DEF HistoryInv

\* However sweeps, observations, new targets and market moves are interleaved,
\* the trades of the history are the interval apart unless urged, and the newest
\* of them is the last rebalance the overview shows.
THEOREM HistoryIsTrueHolds == DashboardSpec => []HistoryIsTrue
  <1>1. HistoryInv => HistoryIsTrue
    BY NewestIsLast DEF HistoryIsTrue, HistoryInv
  <1> QED BY HistoryStarts, HistoryNext, <1>1, PTL DEF DashboardSpec

-----------------------------------------------------------------------------
\* Recording the volatility does not move it: what is projected from an
\* observation of this moment is what was recorded with it.
LEMMA ObservationKeepsVol ==
    ASSUME RebInv, env.healthy PROVE planWith(observed) = planWith(obs)
  <1>1. obs.at \in Int /\ obs.price \in Nat /\ now \in Int /\ env.price \in Nat /\ now - now < Hour
    BY RebTypes DEF Observation, Hour, RebInv
  <1>2. projectedVariance(observed, env.price, now) = projectedVariance(obs, env.price, now)
    <2>1. CASE obs.price # 0 /\ now - obs.at < Hour
      BY <2>1 DEF observed, observe
    <2>2. CASE ~(obs.price # 0 /\ now - obs.at < Hour)
      <3> DEFINE v == projectedVariance(obs, env.price, now)
                 o == [var |-> v, price |-> env.price, at |-> now]
      <3>1. observed = o
        BY <2>2 DEF observed, observe
      <3>2. o.at = now /\ o.var = v
        OBVIOUS
      <3> HIDE DEF o, v
      <3>3. projectedVariance(o, env.price, now) = o.var
        BY <1>1, <3>2 DEF projectedVariance
      <3> QED BY <3>1, <3>2, <3>3 DEF v
    <2> QED BY <2>1, <2>2
  <1>3. annualizedVolBps(observed, env, now) = annualizedVolBps(obs, env, now)
    BY <1>2 DEF annualizedVolBps
  <1> QED BY <1>3 DEF planWith

\* The newest row of the page is of the last record.
LEMMA NewestRow ==
    ASSUME NEW S, NEW q \in Seq(S), NEW x, records' = Append(q, x)
    PROVE  LET table == HistoryTable(rebalanceHistory')
           IN  table[1] = HistoryRow(x) /\ Len(table) = Min2(Len(q) + 1, HistoryLimit)
  <1> DEFINE n == Len(q) + 1
             m == Min2(n, HistoryLimit)
             rev == rebalanceHistory'
             table == HistoryTable(rev)
  <1>1. Len(records') = n /\ n \in Nat \ {0} /\ records'[n] = x
    BY Appended
  <1> HIDE DEF n
  <1>2. m \in Nat \ {0}
    BY <1>1, DashboardAssumption DEF Min2
  <1>3. rev = [i \in 1..m |-> records'[(n - i) + 1]]
    BY <1>1 DEF rebalanceHistory
  <1> HIDE DEF m, rev
  <1>4. DOMAIN rev = 1..m /\ rev[1] = x
    BY <1>1, <1>2, <1>3
  <1>5. table = [i \in 1..m |-> HistoryRow(rev[i])]
    BY <1>4 DEF HistoryTable
  <1>6. table[1] = HistoryRow(x)
    BY <1>2, <1>4, <1>5
  <1>7. Len(table) = m
    <2> DEFINE T == {HistoryRow(rev[i]) : i \in 1..m}
    <2>1. table \in [1..m -> T]
      BY <1>5
    <2> HIDE DEF table, T
    <2>2. table \in Seq(T) /\ DOMAIN table = 1..m
      BY <1>2, <2>1, SeqDef
    <2> QED BY <1>2, <2>2, LenProperties
  <1> QED BY <1>6, <1>7 DEF table, rev, m, n

LEMMA RowTellsThePlan ==
    ASSUME HistoryInv, Rebalances PROVE HistoryTellsThePlan
  <1> DEFINE p == planWith(observed)
             r == _record(p, afterPlan(p), snapshot(book, env), snapshot(afterPlan(p), env))
             card == NextPlanCard(strategyView)
             table == HistoryTable(rebalanceHistory')
  <1>1. records' = Append(records, r) /\ p.execute /\ RebInv
    BY UpkeepRecords DEF HistoryInv
  <1>2. p = previewRebalance
    BY <1>1, ObservationKeepsVol DEF Rebalances, performUpkeep, previewRebalance
  <1>3. /\ r.urgent = p.urgent /\ r.triggers = p.triggers
        /\ r.longUsdDelta = p.long /\ r.marginDelta = p.margin /\ r.estimatedCost = p.cost
    BY RecordFields
  <1>4. PICK S : records \in Seq(S)
    BY DEF HistoryInv
  <1> HIDE DEF p, r
  <1>5. table[1] = HistoryRow(r) /\ Len(table) = Min2(Len(records) + 1, HistoryLimit)
    BY <1>1, <1>4, NewestRow
  <1>6. /\ card.badge = badgeOf(planView(p)) /\ card.triggers = p.triggers
        /\ card.long = p.long /\ card.margin = p.margin /\ card.cost = p.cost
        /\ card.rebalances = Len(records)
    BY <1>2 DEF NextPlanCard, strategyView, planView
  <1>7. badgeOf(planView(p)) = IF p.urgent THEN "Urgent" ELSE "Execute"
    BY <1>1 DEF badgeOf, planView
  <1>8. /\ HistoryRow(r).badge = (IF p.urgent THEN "Urgent" ELSE "Execute") /\ HistoryRow(r).triggers = p.triggers
        /\ HistoryRow(r).long = p.long /\ HistoryRow(r).margin = p.margin /\ HistoryRow(r).cost = p.cost
    BY <1>3 DEF HistoryRow
  <1> HIDE DEF card, table
  <1>9. /\ table[1].badge = card.badge /\ table[1].triggers = card.triggers
        /\ table[1].long = card.long /\ table[1].margin = card.margin /\ table[1].cost = card.cost
        /\ Len(table) = Min2(card.rebalances + 1, HistoryLimit)
    BY <1>5, <1>6, <1>7, <1>8
  <1> QED BY <1>9 DEF HistoryTellsThePlan, card, table

LEMMA SweptBook ==
    ASSUME NEW b \in Book, NEW e, NEW x
    PROVE  LET c == onCapitalReceived(b, e, x)
           IN  c.size = b.size /\ c.lent = b.lent /\ c.margin = b.margin /\ costs(c) = costs(b)
  <1> DEFINE a == [b EXCEPT !.vault = @ - x, !.float = @ + x, !.netCapital = @ + x, !.ok = @ /\ x <= b.vault]
             c == ParkFloat(a, e)
  <1>1. /\ a.size = b.size /\ a.lent = b.lent /\ a.margin = b.margin /\ a.swapFees = b.swapFees
        /\ a.swapSlippage = b.swapSlippage /\ a.feesPaid = b.feesPaid /\ a.slippage = b.slippage
        /\ DOMAIN a = DOMAIN b
    BY DEF Book
  <1>2. DOMAIN b = {"vault", "float", "weth", "usdc", "lent", "netCapital", "basis", "spotRealized", "swapFees",
                    "swapSlippage", "size", "entry", "margin", "pending", "accruing", "realized", "funding",
                    "feesPaid", "penalties", "badDebt", "markEntry", "slippage", "ok"}
    BY DEF Book
  <1> HIDE DEF a
  <1>3. /\ c.size = a.size /\ c.lent = a.lent /\ c.margin = a.margin /\ c.swapFees = a.swapFees
        /\ c.swapSlippage = a.swapSlippage /\ c.feesPaid = a.feesPaid /\ c.slippage = a.slippage
    BY <1>1, <1>2 DEF ParkFloat, SupplyUsdc
  <1> QED BY <1>1, <1>3 DEF onCapitalReceived, a, costs

LEMMA SweepIsFree == ASSUME RebInv, Rebalances PROVE SweepsAreFree
  <1> DEFINE p == planWith(observed)
  <1> SUFFICES ASSUME upkept' = "swept"
               PROVE  /\ book'.size = book.size /\ book'.lent = book.lent /\ book'.margin = book.margin
                      /\ costs(book') = costs(book) /\ lastRebalanceAt' = lastRebalanceAt
    BY DEF SweepsAreFree
  <1>1. Upkept(p, afterPlan(p))
    BY UpkeepRecords
  <1> HIDE DEF p
  <1>2. ~trades(p)
    BY <1>1 DEF Upkept
  <1>3. book' = PushToStrategy(book, env, p.sweep) /\ lastRebalanceAt' = lastRebalanceAt
    BY <1>1, <1>2 DEF Upkept, Stamped, afterPlan, Executed
  <1>4. book \in Book
    BY DEF RebInv, Balanced
  <1>5. book' = book \/ book' = onCapitalReceived(book, env, p.sweep)
    BY <1>3 DEF PushToStrategy
  <1> QED BY <1>3, <1>4, <1>5, SweptBook

\* What the strategy page shows as the next plan is what an upkeep does, tells
\* and records, in every market and for every parameter.
THEOREM UpkeepAsShownHolds == DashboardSpec => UpkeepAsShown
  <1>1. ASSUME HistoryInv, [DashboardNext]_allVars
        PROVE  [PlanSurvivesObservation /\ HistoryTellsThePlan /\ SweepsAreFree]_allVars
    <2>1. PlanSurvivesObservation
      BY <1>1, ObservationKeepsVol DEF PlanSurvivesObservation, previewRebalance, HistoryInv
    <2>2. CASE Rebalances
      BY <1>1, <2>1, <2>2, RowTellsThePlan, SweepIsFree DEF HistoryInv
    <2>3. CASE Others
      <3>1. HistoryTellsThePlan
        BY <2>3 DEF Others, HistoryTellsThePlan
      <3>2. SweepsAreFree
        BY <2>3 DEF Others, SweepsAreFree, observeVolatility, setTargets, Deposit, PriceMoves, FundingMoves,
                    LiquidityMoves, OracleFails, OracleReturns, Pauses, Liquidation, Outside
      <3> QED BY <2>1, <3>1, <3>2
    <2> QED BY <1>1, <2>2, <2>3 DEF DashboardNext
  <1>2. HistoryInv /\ [DashboardNext]_allVars
            => [PlanSurvivesObservation /\ HistoryTellsThePlan /\ SweepsAreFree]_allVars
    BY <1>1
  <1> QED BY HistoryStarts, HistoryNext, <1>2, PTL DEF DashboardSpec, UpkeepAsShown

-----------------------------------------------------------------------------
(***************************************************************************)
(* The realised costs of the history.  What a fold computes of a sequence  *)
(* of any length is an induction; here it follows the behaviour: a row is  *)
(* added at a time, and the invariant says of the fold's equation that it  *)
(* has a solution and that every solution ends in the costs of the books.  *)
(***************************************************************************)

Highest(u) == CHOOSE i \in u : \A j \in u : i >= j
HasHighest(n) == \A u \in SUBSET (1..n) : u # {} => \E i \in u : \A j \in u : i >= j

\* The fold's equation over n numbers, starting from start: it has a solution,
\* and every solution adds up to the same along the first k of the numbers.
Adds(g, v, n, start) ==
    [u \in SUBSET (1..n) |-> IF u = {} THEN start ELSE g[u \ {Highest(u)}] + v[Highest(u)]]
AddsUpTo(v, n, sum) ==
    \A start \in Int : /\ \E g \in [SUBSET (1..n) -> Int] : g = Adds(g, v, n, start)
                       /\ \A g : g = Adds(g, v, n, start)
                                => g[1..n] = start + sum /\ \A k \in 0..n : g[1..k] \in Int

LEMMA HighestIs ==
    ASSUME NEW u \in SUBSET Int, NEW k \in u, \A j \in u : k >= j PROVE Highest(u) = k
  <1>1. \A i \in u : (\A j \in u : i >= j) => i = k
    OBVIOUS
  <1> QED BY <1>1 DEF Highest

LEMMA HighestOf ==
    ASSUME NEW n \in Nat, HasHighest(n), NEW u \in SUBSET (1..n), u # {}
    PROVE  Highest(u) \in u /\ \A j \in u : Highest(u) >= j
  BY DEF HasHighest, Highest

LEMMA HighestOfMore == ASSUME NEW n \in Nat, HasHighest(n) PROVE HasHighest(n + 1)
  <1> SUFFICES ASSUME NEW u \in SUBSET (1..(n + 1)), u # {} PROVE \E i \in u : \A j \in u : i >= j
    BY DEF HasHighest
  <1>1. CASE n + 1 \in u
    <2>1. \A j \in u : n + 1 >= j
      OBVIOUS
    <2> QED BY <1>1, <2>1
  <1>2. CASE n + 1 \notin u
    <2>1. u \in SUBSET (1..n)
      BY <1>2
    <2> QED BY <2>1 DEF HasHighest
  <1> QED BY <1>1, <1>2

\* A number in front of the others: the fold starts from the sum with it.
LEMMA OneMore ==
    ASSUME NEW n \in Nat, NEW v, \A i \in 1..n : v[i] \in Int, NEW x \in Int,
           NEW w, w[1] = x, \A i \in 1..n : w[i + 1] = v[i],
           NEW sum \in Int, HasHighest(n), AddsUpTo(v, n, sum)
    PROVE  AddsUpTo(w, n + 1, sum + x)
  <1> SUFFICES ASSUME NEW start \in Int
               PROVE  /\ \E g \in [SUBSET (1..(n + 1)) -> Int] : g = Adds(g, w, n + 1, start)
                      /\ \A g : g = Adds(g, w, n + 1, start)
                               => /\ g[1..(n + 1)] = start + (sum + x)
                                  /\ \A k \in 0..(n + 1) : g[1..k] \in Int
    BY DEF AddsUpTo
  <1>0. HasHighest(n + 1)
    BY HighestOfMore
  <1>1. \E g \in [SUBSET (1..(n + 1)) -> Int] : g = Adds(g, w, n + 1, start)
    <2>1. PICK g \in [SUBSET (1..n) -> Int] : g = Adds(g, v, n, start)
      BY DEF AddsUpTo
    <2> DEFINE Down(u) == {i \in 1..n : i + 1 \in u}
               W == [u \in SUBSET (1..(n + 1)) |-> (IF 1 \in u THEN x ELSE 0) + g[Down(u)]]
    <2>2. \A u \in SUBSET (1..(n + 1)) : Down(u) \in SUBSET (1..n)
      OBVIOUS
    <2>3. \A t \in SUBSET (1..n) : g[t] \in Int
      OBVIOUS
    <2>4. W \in [SUBSET (1..(n + 1)) -> Int]
      BY <2>2, <2>3
    <2>5. \A t \in SUBSET (1..n) : g[t] = IF t = {} THEN start ELSE g[t \ {Highest(t)}] + v[Highest(t)]
      <3> DEFINE F(t) == IF t = {} THEN start ELSE g[t \ {Highest(t)}] + v[Highest(t)]
      <3>1. g = [t \in SUBSET (1..n) |-> F(t)]
        BY <2>1 DEF Adds
      <3> HIDE DEF F
      <3>2. \A t \in SUBSET (1..n) : g[t] = F(t)
        BY <3>1
      <3> QED BY <3>2 DEF F
    <2>6. \A u \in SUBSET (1..(n + 1)) :
             W[u] = IF u = {} THEN start ELSE W[u \ {Highest(u)}] + w[Highest(u)]
      <3> SUFFICES ASSUME NEW u \in SUBSET (1..(n + 1))
                   PROVE  W[u] = IF u = {} THEN start ELSE W[u \ {Highest(u)}] + w[Highest(u)]
        OBVIOUS
      <3>1. CASE u = {}
        <4>1. Down(u) = {} /\ 1 \notin u
          BY <3>1
        <4>2. g[{}] = start
          BY <2>5
        <4>3. W[u] = 0 + g[{}]
          BY <4>1
        <4> HIDE DEF W
        <4> QED BY <3>1, <4>2, <4>3
      <3>2. CASE u # {}
        <4> DEFINE k == Highest(u)
        <4>1. k \in u /\ \A j \in u : k >= j
          BY <1>0, <3>2, HighestOf
        <4>2. k \in 1..(n + 1) /\ u \ {k} \in SUBSET (1..(n + 1))
          BY <4>1
        <4> HIDE DEF k
        <4>3. CASE k = 1
          <5>1. u = {1}
            <6>1. 1 \in u /\ \A j \in u : j = 1
              BY <4>1, <4>3
            <6> QED BY <6>1
          <5>2. Down(u) = {} /\ Down(u \ {k}) = {} /\ 1 \notin u \ {k}
            BY <5>1, <4>3
          <5>3. g[{}] = start
            BY <2>5
          <5>4. W[u] = x + start /\ W[u \ {k}] = 0 + start
            BY <4>2, <5>1, <5>2, <5>3
          <5>5. W[u] = W[u \ {k}] + w[k]
            BY <4>3, <5>4
          <5> QED BY <3>2, <5>5 DEF k
        <4>4. CASE k # 1
          <5> DEFINE t == Down(u)
          <5>1. t \in SUBSET (1..n) /\ k - 1 \in t /\ \A j \in t : k - 1 >= j
            BY <4>1, <4>2, <4>4
          <5>2. Highest(t) = k - 1
            <6>1. t \in SUBSET Int
              BY <5>1
            <6> HIDE DEF t
            <6> QED BY <5>1, <6>1, HighestIs
          <5>3. Down(u \ {k}) = t \ {k - 1} /\ (1 \in u <=> 1 \in u \ {k})
            BY <4>2, <4>4
          <5>4. t # {} /\ t \ {k - 1} \in SUBSET (1..n)
            BY <5>1
          <5>5. W[u] = (IF 1 \in u THEN x ELSE 0) + g[t]
                /\ W[u \ {k}] = (IF 1 \in u THEN x ELSE 0) + g[t \ {k - 1}]
            BY <4>2, <5>3
          <5> HIDE DEF t
          <5>6. g[t] = g[t \ {k - 1}] + v[k - 1]
            BY <2>5, <5>1, <5>2, <5>4
          <5>7. w[k] = v[k - 1] /\ v[k - 1] \in Int
            BY <4>2, <4>4
          <5>8. g[t] \in Int /\ g[t \ {k - 1}] \in Int
            BY <2>3, <5>1, <5>4
          <5> HIDE DEF W
          <5>9. W[u] = W[u \ {k}] + w[k]
            BY <5>5, <5>6, <5>7, <5>8
          <5> QED BY <3>2, <5>9 DEF k
        <4> QED BY <4>3, <4>4
      <3> QED BY <3>1, <3>2
    <2>7. W = Adds(W, w, n + 1, start)
      <3> DEFINE F(u) == IF u = {} THEN start ELSE W[u \ {Highest(u)}] + w[Highest(u)]
      <3>1. W = [u \in SUBSET (1..(n + 1)) |-> W[u]]
        OBVIOUS
      <3> HIDE DEF W
      <3>2. \A u \in SUBSET (1..(n + 1)) : W[u] = F(u)
        BY <2>6
      <3> HIDE DEF F
      <3>3. W = [u \in SUBSET (1..(n + 1)) |-> F(u)]
        BY <3>1, <3>2
      <3> QED BY <3>3 DEF F, Adds
    <2> HIDE DEF W
    <2> QED BY <2>4, <2>7
  <1>2. ASSUME NEW h, h = Adds(h, w, n + 1, start)
        PROVE  h[1..(n + 1)] = start + (sum + x) /\ \A k \in 0..(n + 1) : h[1..k] \in Int
    <2> DEFINE Up(t) == {1} \cup {i \in 2..(n + 1) : i - 1 \in t}
               g == [t \in SUBSET (1..n) |-> h[Up(t)]]
    <2>1. \A u \in SUBSET (1..(n + 1)) : h[u] = IF u = {} THEN start ELSE h[u \ {Highest(u)}] + w[Highest(u)]
      <3> DEFINE F(u) == IF u = {} THEN start ELSE h[u \ {Highest(u)}] + w[Highest(u)]
      <3>1. h = [u \in SUBSET (1..(n + 1)) |-> F(u)]
        BY <1>2 DEF Adds
      <3> HIDE DEF F
      <3>2. \A u \in SUBSET (1..(n + 1)) : h[u] = F(u)
        BY <3>1
      <3> QED BY <3>2 DEF F
    <2>2. \A t \in SUBSET (1..n) : g[t] = IF t = {} THEN start + x ELSE g[t \ {Highest(t)}] + v[Highest(t)]
      <3> SUFFICES ASSUME NEW t \in SUBSET (1..n)
                   PROVE  g[t] = IF t = {} THEN start + x ELSE g[t \ {Highest(t)}] + v[Highest(t)]
        OBVIOUS
      <3>1. CASE t = {}
        <4>1. Up(t) = {1} /\ {1} \in SUBSET (1..(n + 1)) /\ {} \in SUBSET (1..(n + 1))
          BY <3>1
        <4>2. Highest({1}) = 1
          BY HighestIs
        <4>3. h[{}] = start
          BY <2>1, <4>1
        <4>4. h[{1}] = h[{1} \ {1}] + w[1] /\ {1} \ {1} = {}
          BY <2>1, <4>1, <4>2
        <4> QED BY <3>1, <4>1, <4>3, <4>4
      <3>2. CASE t # {}
        <4> DEFINE k == Highest(t)
        <4>1. k \in t /\ \A j \in t : k >= j
          BY <3>2, HighestOf
        <4>2. k \in 1..n /\ t \ {k} \in SUBSET (1..n)
          BY <4>1
        <4> HIDE DEF k
        <4>3. Up(t) \in SUBSET (1..(n + 1)) /\ k + 1 \in Up(t) /\ \A j \in Up(t) : k + 1 >= j
          BY <4>1, <4>2
        <4>4. Up(t \ {k}) = Up(t) \ {k + 1}
          BY <4>2
        <4>5. g[t] = h[Up(t)] /\ g[t \ {k}] = h[Up(t) \ {k + 1}]
          BY <4>2, <4>4
        <4>6. w[k + 1] = v[k] /\ Up(t) # {}
          BY <4>2
        <4> HIDE DEF Up
        <4>7. Highest(Up(t)) = k + 1
          BY <4>3, HighestIs
        <4> HIDE DEF g
        <4>8. g[t] = g[t \ {k}] + v[k]
          BY <2>1, <4>3, <4>5, <4>6, <4>7
        <4> QED BY <3>2, <4>8 DEF k
      <3> QED BY <3>1, <3>2
    <2>3. g = Adds(g, v, n, start + x)
      <3> DEFINE F(t) == IF t = {} THEN start + x ELSE g[t \ {Highest(t)}] + v[Highest(t)]
      <3>1. g = [t \in SUBSET (1..n) |-> g[t]]
        OBVIOUS
      <3> HIDE DEF g
      <3>2. \A t \in SUBSET (1..n) : g[t] = F(t)
        BY <2>2
      <3> HIDE DEF F
      <3>3. g = [t \in SUBSET (1..n) |-> F(t)]
        BY <3>1, <3>2
      <3> QED BY <3>3 DEF F, Adds
    <2>4. g[1..n] = start + x + sum /\ \A k \in 0..n : g[1..k] \in Int
      <3> HIDE DEF g
      <3>1. start + x \in Int
        OBVIOUS
      <3> QED BY <2>3, <3>1 DEF AddsUpTo
    <2>5. g[1..n] = h[1..(n + 1)]
      <3>1. Up(1..n) = 1..(n + 1)
        OBVIOUS
      <3> QED BY <3>1
    <2>6. ASSUME NEW k \in 0..(n + 1) PROVE h[1..k] \in Int
      <3>1. CASE k = 0
        <4>1. 1..k = {} /\ 1..k \in SUBSET (1..(n + 1))
          BY <3>1
        <4> QED BY <2>1, <4>1
      <3>2. CASE k # 0
        <4>1. k - 1 \in 0..n /\ 1..(k - 1) \in SUBSET (1..n)
          BY <3>2
        <4>2. Up(1..(k - 1)) = 1..k
          BY <3>2
        <4>3. g[1..(k - 1)] = h[1..k]
          BY <4>1, <4>2
        <4> HIDE DEF g
        <4> QED BY <2>4, <4>1, <4>3
      <3> QED BY <3>1, <3>2
    <2> QED BY <2>4, <2>5, <2>6
  <1> QED BY <1>1, <1>2

LEMMA NothingAdds == ASSUME NEW v PROVE HasHighest(0) /\ AddsUpTo(v, 0, 0)
  <1>1. 1..0 = {} /\ SUBSET (1..0) = {{}}
    OBVIOUS
  <1>2. HasHighest(0)
    BY <1>1 DEF HasHighest
  <1>3. ASSUME NEW start \in Int
        PROVE  /\ \E g \in [SUBSET (1..0) -> Int] : g = Adds(g, v, 0, start)
               /\ \A g : g = Adds(g, v, 0, start)
                        => g[1..0] = start + 0 /\ \A k \in 0..0 : g[1..k] \in Int
    <2> DEFINE g0 == [u \in SUBSET (1..0) |-> start]
    <2>1. g0 \in [SUBSET (1..0) -> Int]
      OBVIOUS
    <2>2. \A g : Adds(g, v, 0, start) = g0
      BY <1>1 DEF Adds
    <2>3. g0[1..0] = start
      BY <1>1
    <2> HIDE DEF g0
    <2> QED BY <2>1, <2>2, <2>3
  <1> QED BY <1>2, <1>3 DEF AddsUpTo

LEMMA HighestOfFewer == ASSUME NEW n \in Nat, HasHighest(n), NEW m \in 0..n PROVE HasHighest(m)
  <1> SUFFICES ASSUME NEW u \in SUBSET (1..m), u # {} PROVE \E i \in u : \A j \in u : i >= j
    BY DEF HasHighest
  <1>1. u \in SUBSET (1..n)
    OBVIOUS
  <1> QED BY <1>1 DEF HasHighest

\* The last of the numbers left out: every solution without it is one with it.
LEMMA OneLess ==
    ASSUME NEW n \in Nat, NEW v, v[n + 1] \in Int, NEW sum \in Int,
           HasHighest(n + 1), AddsUpTo(v, n + 1, sum)
    PROVE  AddsUpTo(v, n, sum - v[n + 1])
  <1> DEFINE x == v[n + 1]
  <1> SUFFICES ASSUME NEW start \in Int
               PROVE  /\ \E g \in [SUBSET (1..n) -> Int] : g = Adds(g, v, n, start)
                      /\ \A g : g = Adds(g, v, n, start)
                               => /\ g[1..n] = start + (sum - x)
                                  /\ \A k \in 0..n : g[1..k] \in Int
    BY DEF AddsUpTo
  <1>1. \E g \in [SUBSET (1..n) -> Int] : g = Adds(g, v, n, start)
    <2>1. PICK g \in [SUBSET (1..(n + 1)) -> Int] : g = Adds(g, v, n + 1, start)
      BY DEF AddsUpTo
    <2> DEFINE f == [u \in SUBSET (1..n) |-> g[u]]
    <2>2. \A u \in SUBSET (1..n) : u \in SUBSET (1..(n + 1))
      OBVIOUS
    <2>3. f \in [SUBSET (1..n) -> Int]
      BY <2>2
    <2>4. \A u \in SUBSET (1..n) : g[u] = IF u = {} THEN start ELSE g[u \ {Highest(u)}] + v[Highest(u)]
      <3> DEFINE F(u) == IF u = {} THEN start ELSE g[u \ {Highest(u)}] + v[Highest(u)]
      <3>1. g = [u \in SUBSET (1..(n + 1)) |-> F(u)]
        BY <2>1 DEF Adds
      <3> HIDE DEF F
      <3>2. \A u \in SUBSET (1..n) : g[u] = F(u)
        BY <2>2, <3>1
      <3> QED BY <3>2 DEF F
    <2>5. \A u \in SUBSET (1..n) : f[u] = IF u = {} THEN start ELSE f[u \ {Highest(u)}] + v[Highest(u)]
      BY <2>4
    <2>6. f = Adds(f, v, n, start)
      <3> DEFINE F(u) == IF u = {} THEN start ELSE f[u \ {Highest(u)}] + v[Highest(u)]
      <3>1. f = [u \in SUBSET (1..n) |-> f[u]]
        OBVIOUS
      <3> HIDE DEF f
      <3>2. \A u \in SUBSET (1..n) : f[u] = F(u)
        BY <2>5
      <3> HIDE DEF F
      <3>3. f = [u \in SUBSET (1..n) |-> F(u)]
        BY <3>1, <3>2
      <3> QED BY <3>3 DEF F, Adds
    <2> HIDE DEF f
    <2> QED BY <2>3, <2>6
  <1>2. ASSUME NEW h, h = Adds(h, v, n, start)
        PROVE  h[1..n] = start + (sum - x) /\ \A k \in 0..n : h[1..k] \in Int
    <2> DEFINE H == [u \in SUBSET (1..(n + 1)) |->
                        IF n + 1 \in u THEN h[u \ {n + 1}] + x ELSE h[u]]
    <2>1. \A u \in SUBSET (1..n) : h[u] = IF u = {} THEN start ELSE h[u \ {Highest(u)}] + v[Highest(u)]
      <3> DEFINE F(u) == IF u = {} THEN start ELSE h[u \ {Highest(u)}] + v[Highest(u)]
      <3>1. h = [u \in SUBSET (1..n) |-> F(u)]
        BY <1>2 DEF Adds
      <3> HIDE DEF F
      <3>2. \A u \in SUBSET (1..n) : h[u] = F(u)
        BY <3>1
      <3> QED BY <3>2 DEF F
    <2>2. \A u \in SUBSET (1..(n + 1)) :
             H[u] = IF u = {} THEN start ELSE H[u \ {Highest(u)}] + v[Highest(u)]
      <3> SUFFICES ASSUME NEW u \in SUBSET (1..(n + 1))
                   PROVE  H[u] = IF u = {} THEN start ELSE H[u \ {Highest(u)}] + v[Highest(u)]
        OBVIOUS
      <3>1. CASE n + 1 \in u
        <4>1. \A j \in u : n + 1 >= j
          OBVIOUS
        <4>2. Highest(u) = n + 1
          BY <3>1, <4>1, HighestIs
        <4>3. u \ {n + 1} \in SUBSET (1..(n + 1)) /\ n + 1 \notin u \ {n + 1}
          OBVIOUS
        <4>4. H[u] = h[u \ {n + 1}] + x /\ H[u \ {n + 1}] = h[u \ {n + 1}]
          BY <3>1, <4>3
        <4> HIDE DEF H
        <4> QED BY <3>1, <4>2, <4>4
      <3>2. CASE n + 1 \notin u
        <4>1. u \in SUBSET (1..n) /\ H[u] = h[u]
          BY <3>2
        <4>2. CASE u = {}
          BY <2>1, <4>1, <4>2
        <4>3. CASE u # {}
          <5> DEFINE k == Highest(u)
          <5>1. k \in u
            BY <4>3, HighestOf
          <5> HIDE DEF k
          <5>2. u \ {k} \in SUBSET (1..(n + 1)) /\ n + 1 \notin u \ {k}
            BY <3>2
          <5>3. H[u \ {k}] = h[u \ {k}]
            BY <5>2
          <5> HIDE DEF H
          <5>4. h[u] = h[u \ {k}] + v[k]
            BY <2>1, <4>1, <4>3 DEF k
          <5>5. H[u] = H[u \ {k}] + v[k]
            BY <4>1, <5>3, <5>4
          <5> QED BY <4>3, <5>5 DEF k
        <4> QED BY <4>2, <4>3
      <3> QED BY <3>1, <3>2
    <2>3. H = Adds(H, v, n + 1, start)
      <3> DEFINE F(u) == IF u = {} THEN start ELSE H[u \ {Highest(u)}] + v[Highest(u)]
      <3>1. H = [u \in SUBSET (1..(n + 1)) |-> H[u]]
        OBVIOUS
      <3> HIDE DEF H
      <3>2. \A u \in SUBSET (1..(n + 1)) : H[u] = F(u)
        BY <2>2
      <3> HIDE DEF F
      <3>3. H = [u \in SUBSET (1..(n + 1)) |-> F(u)]
        BY <3>1, <3>2
      <3> QED BY <3>3 DEF F, Adds
    <2>4. H[1..(n + 1)] = start + sum /\ \A k \in 0..(n + 1) : H[1..k] \in Int
      <3> HIDE DEF H
      <3> QED BY <2>3 DEF AddsUpTo
    <2>5. \A k \in 0..n : H[1..k] = h[1..k]
      <3> SUFFICES ASSUME NEW k \in 0..n PROVE H[1..k] = h[1..k]
        OBVIOUS
      <3>1. 1..k \in SUBSET (1..(n + 1)) /\ n + 1 \notin 1..k
        OBVIOUS
      <3> QED BY <3>1
    <2>6. H[1..(n + 1)] = h[1..n] + x
      <3>1. n + 1 \in 1..(n + 1) /\ (1..(n + 1)) \ {n + 1} = 1..n
        OBVIOUS
      <3> QED BY <3>1
    <2> HIDE DEF H
    <2>7. \A k \in 0..n : h[1..k] \in Int
      BY <2>4, <2>5
    <2>8. h[1..n] \in Int
      BY <2>7
    <2> QED BY <2>4, <2>6, <2>7, <2>8
  <1> QED BY <1>1, <1>2

\* Newest first, as the page lists them.
realisedCosts == [i \in 1..Len(records) |-> records[(Len(records) - i) + 1].realizedCost]

\* How many of them a page has, and those it has not.
shown == Min2(Len(records), HistoryLimit)
olderCosts == [i \in 1..(Len(records) - shown) |-> realisedCosts[shown + i]]

CostsInv ==
    /\ HistoryInv
    /\ \A i \in DOMAIN records : records[i].realizedCost \in Int
    /\ HasHighest(Len(records))
    /\ \E told, untold \in Int :
          /\ told + untold = costs(book)
          /\ AddsUpTo(realisedCosts, shown, told)
          /\ AddsUpTo(olderCosts, Len(records) - shown, untold)

LEMMA SolutionExists ==
    ASSUME NEW n, NEW v, NEW sum, AddsUpTo(v, n, sum) PROVE \E g : g = Adds(g, v, n, 0)
  <1>1. \A start \in Int : \E g \in [SUBSET (1..n) -> Int] : g = Adds(g, v, n, start)
    BY DEF AddsUpTo
  <1> HIDE DEF Adds
  <1>2. \E g \in [SUBSET (1..n) -> Int] : g = Adds(g, v, n, 0)
    <2>1. 0 \in Int
      OBVIOUS
    <2> QED BY <1>1, <2>1, Zenon
  <1> QED BY <1>2, Zenon

\* There is but one sum of no numbers.
LEMMA NothingLeft == ASSUME NEW v, NEW sum \in Int, AddsUpTo(v, 0, sum) PROVE sum = 0
  <1>1. AddsUpTo(v, 0, 0)
    BY NothingAdds
  <1>2. PICK g : g = Adds(g, v, 0, 0)
    BY <1>1, SolutionExists
  <1>3. g[1..0] = 0 + 0 /\ g[1..0] = 0 + sum
    BY <1>1, <1>2 DEF AddsUpTo
  <1> QED BY <1>3

\* A row in front: while the page has room the costs it tells grow, afterwards
\* what is pushed off the page is added to what it does not tell.
RowGoesInFront(n, v, w, x, L, m, k, o, q, told, untold) ==
    /\ n \in Nat /\ x \in Int /\ L \in Nat \ {0} /\ told \in Int /\ untold \in Int
    /\ HasHighest(n)
    /\ \A i \in 1..n : v[i] \in Int
    /\ w[1] = x
    /\ \A i \in 1..n : w[i + 1] = v[i]
    /\ m = Min2(n, L) /\ k = Min2(n + 1, L)
    /\ \A i \in 1..(n - m) : o[i] = v[m + i]
    /\ \A i \in 1..((n + 1) - k) : q[i] = w[k + i]
    /\ AddsUpTo(v, m, told) /\ AddsUpTo(o, n - m, untold)
TakenTogether(n, w, k, q, total) ==
    \E t, u \in Int : /\ t + u = total
                      /\ AddsUpTo(w, k, t) /\ AddsUpTo(q, (n + 1) - k, u)

LEMMA RowInFront ==
    ASSUME NEW n, NEW v, NEW w, NEW x, NEW L, NEW m, NEW k, NEW o, NEW q, NEW told, NEW untold,
           RowGoesInFront(n, v, w, x, L, m, k, o, q, told, untold)
    PROVE  TakenTogether(n, w, k, q, told + untold + x)
  <1> SUFFICES ASSUME n \in Nat, x \in Int, L \in Nat \ {0}, told \in Int, untold \in Int,
                      HasHighest(n), \A i \in 1..n : v[i] \in Int,
                      w[1] = x, \A i \in 1..n : w[i + 1] = v[i],
                      m = Min2(n, L), k = Min2(n + 1, L),
                      \A i \in 1..(n - m) : o[i] = v[m + i], \A i \in 1..((n + 1) - k) : q[i] = w[k + i],
                      AddsUpTo(v, m, told), AddsUpTo(o, n - m, untold)
               PROVE  \E t, u \in Int : /\ t + u = told + untold + x
                                        /\ AddsUpTo(w, k, t) /\ AddsUpTo(q, (n + 1) - k, u)
    BY DEF RowGoesInFront, TakenTogether
  <1>1. m \in 0..n /\ HasHighest(m) /\ AddsUpTo(w, m + 1, told + x)
    <2>1. m \in 0..n
      BY DEF Min2
    <2>2. HasHighest(m)
      BY <2>1, HighestOfFewer
    <2>3. /\ m \in Nat
          /\ \A i \in 1..m : v[i] \in Int
          /\ \A i \in 1..m : w[i + 1] = v[i]
      BY <2>1
    <2>4. AddsUpTo(w, m + 1, told + x)
      BY <2>2, <2>3, OneMore
    <2> QED BY <2>1, <2>2, <2>4
  <1>2. CASE n < L
    <2>1. m = n /\ k = n + 1 /\ n - m = 0 /\ (n + 1) - k = 0
      BY <1>2 DEF Min2
    <2>2. untold = 0
      BY <2>1, NothingLeft
    <2>3. AddsUpTo(q, (n + 1) - k, 0)
      BY <2>1, NothingAdds
    <2>4. told + x \in Int /\ 0 \in Int /\ (told + x) + 0 = told + untold + x
      BY <2>2
    <2> QED BY <1>1, <2>1, <2>3, <2>4
  <1>3. CASE ~(n < L)
    <2>1. m = L /\ k = L /\ L <= n
      BY <1>3 DEF Min2
    <2> DEFINE y == w[L + 1]
    <2>2. y = v[L] /\ y \in Int
      BY <2>1
    <2>3. AddsUpTo(w, L, (told + x) - y)
      <3>1. HasHighest(L + 1)
        BY <1>1, <2>1, HighestOfMore
      <3>2. AddsUpTo(w, L + 1, told + x) /\ told + x \in Int
        BY <1>1, <2>1
      <3> QED BY <2>2, <3>1, <3>2, OneLess
    <2>4. AddsUpTo(q, (n - L) + 1, untold + y)
      <3>1. n - L \in 0..n /\ HasHighest(n - L)
        BY <2>1, HighestOfFewer
      <3>2. q[1] = y
        <4>1. 1 \in 1..((n + 1) - k) /\ k + 1 = L + 1
          BY <2>1
        <4> QED BY <4>1
      <3>3. ASSUME NEW i \in 1..(n - L) PROVE o[i] \in Int /\ q[i + 1] = o[i]
        <4>1. i \in 1..(n - m) /\ i + 1 \in 1..((n + 1) - k) /\ L + i \in 1..n /\ k + (i + 1) = (L + i) + 1
          BY <2>1
        <4>2. o[i] = v[L + i]
          BY <2>1, <4>1
        <4>3. q[i + 1] = w[(L + i) + 1]
          BY <4>1
        <4> QED BY <4>1, <4>2, <4>3
      <3>4. AddsUpTo(o, n - L, untold)
        BY <2>1
      <3> DEFINE j == n - L
      <3> HIDE DEF y, j
      <3>5. /\ j \in Nat /\ HasHighest(j) /\ AddsUpTo(o, j, untold)
            /\ \A i \in 1..j : o[i] \in Int
            /\ \A i \in 1..j : q[i + 1] = o[i]
        BY <3>1, <3>3, <3>4 DEF j
      <3>6. AddsUpTo(q, j + 1, untold + y)
        BY <2>2, <3>2, <3>5, OneMore
      <3> QED BY <3>6 DEF j
    <2> HIDE DEF y
    <2>5. (n + 1) - k = (n - L) + 1
      BY <2>1
    <2>6. (told + x) - y \in Int /\ untold + y \in Int
          /\ ((told + x) - y) + (untold + y) = told + untold + x
      BY <2>2
    <2> QED BY <2>1, <2>3, <2>4, <2>5, <2>6
  <1> QED BY <1>2, <1>3

LEMMA CostsInt == ASSUME NEW b \in Book PROVE costs(b) \in Int
  <1>1. b.swapFees \in Int /\ b.swapSlippage \in Int /\ b.feesPaid \in Int /\ b.slippage \in Int
    BY DEF Book
  <1> QED BY <1>1 DEF costs

LEMMA LiquidationIsNoCost ==
    ASSUME NEW b \in Book, NEW e PROVE costs(Liquidated(b, e)) = costs(b)
  <1> DEFINE s == Settled(b, e)
             f == Filled(s, -s.size, e.mark)
             c == Liquidated(b, e)
  <1>1. DOMAIN b = {"vault", "float", "weth", "usdc", "lent", "netCapital", "basis", "spotRealized", "swapFees",
                    "swapSlippage", "size", "entry", "margin", "pending", "accruing", "realized", "funding",
                    "feesPaid", "penalties", "badDebt", "markEntry", "slippage", "ok"}
    BY DEF Book
  <1>2. /\ s.swapFees = b.swapFees /\ s.swapSlippage = b.swapSlippage /\ s.feesPaid = b.feesPaid
        /\ s.slippage = b.slippage /\ DOMAIN s = DOMAIN b
    BY <1>1 DEF Settled
  <1>3. /\ f.swapFees = s.swapFees /\ f.swapSlippage = s.swapSlippage /\ f.feesPaid = s.feesPaid
        /\ f.slippage = s.slippage /\ DOMAIN f = DOMAIN s
    <2> HIDE DEF s
    <2> QED BY <1>1, <1>2 DEF Filled
  <1>4. /\ c.swapFees = f.swapFees /\ c.swapSlippage = f.swapSlippage /\ c.feesPaid = f.feesPaid
        /\ c.slippage = f.slippage
    <2> HIDE DEF f
    <2> QED BY <1>1, <1>2, <1>3 DEF Liquidated, f
  <1> HIDE DEF s, f, c
  <1> QED BY <1>2, <1>3, <1>4 DEF costs, c

LEMMA CostsGrow == ASSUME CostsInv, Rebalances PROVE CostsInv'
  <1> DEFINE p == planWith(observed)
             b == afterPlan(p)
             r == _record(p, b, snapshot(book, env), snapshot(b, env))
             n == Len(records)
             x == costs(b) - costs(book)
             w == [i \in 1..(n + 1) |-> records'[(n + 1 - i) + 1].realizedCost]
  <1>1. HistoryInv' /\ RebInv
    BY HistoryGrows DEF CostsInv, HistoryInv
  <1>2. IsPlan(p) /\ Upkept(p, b) /\ records' = Append(records, r)
    BY <1>1, UpkeepRecords
  <1>3. costs(book) \in Int /\ costs(b) \in Int
    <2>1. book \in Book /\ b \in Book
      BY <1>1, <1>2, RebTypes, ExecutedBalanced DEF Balanced
    <2> QED BY <2>1, CostsInt
  <1>4. book' = b
    BY <1>2 DEF Upkept
  <1>5. r.realizedCost = x
    BY DEF _record
  <1>6. PICK S : records \in Seq(S)
    BY DEF CostsInv, HistoryInv
  <1> HIDE DEF p, b, r
  <1>7. /\ n \in Nat /\ DOMAIN records = 1..n /\ Len(records') = n + 1 /\ DOMAIN records' = 1..(n + 1)
        /\ \A i \in 1..n : records'[i] = records[i]
        /\ records'[n + 1] = r
    BY <1>2, <1>6, Appended
  <1>8. x \in Int /\ costs(book) + x = costs(book')
    BY <1>3, <1>4
  <1>9. \A i \in 1..n : realisedCosts[i] \in Int /\ w[i + 1] = realisedCosts[i]
    <2> SUFFICES ASSUME NEW i \in 1..n PROVE realisedCosts[i] \in Int /\ w[i + 1] = realisedCosts[i]
      OBVIOUS
    <2>1. (n - i) + 1 \in 1..n /\ i + 1 \in 1..(n + 1) /\ n + 1 - (i + 1) + 1 = (n - i) + 1
      BY <1>7
    <2>2. realisedCosts[i] = records[(n - i) + 1].realizedCost
      BY DEF realisedCosts
    <2>3. w[i + 1] = records'[(n - i) + 1].realizedCost
      BY <2>1
    <2>4. records'[(n - i) + 1] = records[(n - i) + 1]
      BY <1>7, <2>1
    <2>5. records[(n - i) + 1].realizedCost \in Int
      BY <1>7, <2>1 DEF CostsInv
    <2> HIDE DEF w, n
    <2> QED BY <2>2, <2>3, <2>4, <2>5
  <1>10. w[1] = x
    <2>1. 1 \in 1..(n + 1) /\ n + 1 - 1 + 1 = n + 1
      BY <1>7
    <2>2. w[1] = records'[n + 1].realizedCost
      BY <2>1
    <2> HIDE DEF w, n, x
    <2> QED BY <1>5, <1>7, <2>2
  <1>11. realisedCosts' = w
    <2> HIDE DEF n
    <2> QED BY <1>7 DEF realisedCosts
  <1>12. HasHighest(n)
    BY DEF CostsInv
  <1>13. \A i \in 1..(n + 1) : records'[i].realizedCost \in Int
    <2> SUFFICES ASSUME NEW i \in 1..(n + 1) PROVE records'[i].realizedCost \in Int
      OBVIOUS
    <2>1. CASE i \in 1..n
      BY <1>7, <2>1 DEF CostsInv
    <2>2. CASE i = n + 1
      BY <1>5, <1>7, <1>8, <2>2
    <2> QED BY <1>7, <2>1, <2>2
  <1>14. \E t, u \in Int : /\ t + u = costs(book')
                           /\ AddsUpTo(realisedCosts', shown', t)
                           /\ AddsUpTo(olderCosts', Len(records') - shown', u)
    <2>1. PICK told \in Int, untold \in Int :
             /\ told + untold = costs(book)
             /\ AddsUpTo(realisedCosts, shown, told) /\ AddsUpTo(olderCosts, n - shown, untold)
      BY DEF CostsInv
    <2>2. shown = Min2(n, HistoryLimit) /\ shown' = Min2(n + 1, HistoryLimit)
      <3> HIDE DEF n
      <3>1. shown = Min2(n, HistoryLimit)
        BY DEF shown, n
      <3>2. shown' = Min2(Len(records'), HistoryLimit)
        BY DEF shown
      <3> QED BY <1>7, <3>1, <3>2
    <2>3. \A i \in 1..(n - shown) : olderCosts[i] = realisedCosts[shown + i]
      BY DEF olderCosts
    <2>4. \A i \in 1..((n + 1) - shown') : olderCosts'[i] = w[shown' + i]
      <3> HIDE DEF n, w, x
      <3>1. \A i \in 1..(Len(records') - shown') : olderCosts'[i] = realisedCosts'[shown' + i]
        BY DEF olderCosts
      <3>2. Len(records') = n + 1
        BY <1>7
      <3> DEFINE z == Len(records')
                 k == shown'
                 q == olderCosts'
      <3>3. \A i \in 1..(z - k) : q[i] = w[k + i]
        BY <1>11, <3>1
      <3>4. z = n + 1
        BY <3>2
      <3> HIDE DEF z, k, q
      <3>5. z - k = (n + 1) - k
        BY <3>4
      <3>6. \A i \in 1..((n + 1) - k) : q[i] = w[k + i]
        BY <3>3, <3>5
      <3> QED BY <3>6 DEF k, q
    <2> HIDE DEF n, w, x
    <2> DEFINE v == realisedCosts
               m == shown
               k == shown'
               o == olderCosts
               q == olderCosts'
    <2> HIDE DEF v, m, k, o, q
    <2>5. RowGoesInFront(n, v, w, x, HistoryLimit, m, k, o, q, told, untold)
      <3>1. /\ \A i \in 1..n : v[i] \in Int
            /\ \A i \in 1..n : w[i + 1] = v[i]
        BY <1>9 DEF v
      <3>2. m = Min2(n, HistoryLimit) /\ k = Min2(n + 1, HistoryLimit)
        BY <2>2 DEF m, k
      <3>3. \A i \in 1..(n - m) : o[i] = v[m + i]
        BY <2>3 DEF o, v, m
      <3>4. \A i \in 1..((n + 1) - k) : q[i] = w[k + i]
        BY <2>4 DEF q, k
      <3>5. AddsUpTo(v, m, told) /\ AddsUpTo(o, n - m, untold)
        BY <2>1 DEF v, m, o
      <3> QED BY <1>7, <1>8, <1>10, <1>12, <2>1, <3>1, <3>2, <3>3, <3>4, <3>5, DashboardAssumption
              DEF RowGoesInFront
    <2>6. PICK t \in Int, u \in Int : /\ t + u = told + untold + x
                                     /\ AddsUpTo(w, k, t) /\ AddsUpTo(q, (n + 1) - k, u)
      <3>1. TakenTogether(n, w, k, q, told + untold + x)
        BY <2>5, RowInFront
      <3> QED BY <3>1 DEF TakenTogether
    <2>7. t + u = costs(book')
      BY <1>8, <2>1, <2>6
    <2>8. AddsUpTo(realisedCosts', shown', t) /\ AddsUpTo(olderCosts', Len(records') - shown', u)
      <3>1. AddsUpTo(realisedCosts', k, t)
        BY <1>11, <2>6
      <3>2. Len(records') = n + 1
        BY <1>7
      <3>3. AddsUpTo(q, (n + 1) - k, u)
        BY <2>6
      <3>4. \A z : z = n + 1 => AddsUpTo(q, z - k, u)
        BY <3>3, Zenon
      <3>5. AddsUpTo(q, Len(records') - k, u)
        BY <3>2, <3>4, Zenon
      <3> QED BY <3>1, <3>5 DEF k, q
    <2> QED BY <2>7, <2>8
  <1> HIDE DEF w, x, n
  <1>15. HasHighest(n + 1)
    BY <1>7, <1>12, HighestOfMore
  <1> QED BY <1>1, <1>7, <1>13, <1>14, <1>15 DEF CostsInv

LEMMA CostsStay == ASSUME CostsInv, Others \/ UNCHANGED allVars PROVE CostsInv'
  <1>1. HistoryInv'
    BY HistoryNext DEF CostsInv, DashboardNext
  <1>2. records' = records
    BY DEF Others, allVars
  <1>3. costs(book') = costs(book)
    <2>1. book \in Book
      BY RebTypes DEF CostsInv, HistoryInv, Balanced
    <2>2. CASE Deposit
      <3>1. PICK d \in Deposits : book' = [book EXCEPT !.vault = book.vault + d]
        BY <2>2 DEF Deposit
      <3> QED BY <2>1, <3>1 DEF Book, costs
    <2>3. CASE Liquidation
      BY <2>1, <2>3, LiquidationIsNoCost DEF Liquidation
    <2>4. CASE ~Deposit /\ ~Liquidation
      <3>1. book' = book
        BY <2>4 DEF Others, allVars, vars, observeVolatility, setTargets, PriceMoves, FundingMoves,
                    LiquidityMoves, OracleFails, OracleReturns, Pauses
      <3> QED BY <3>1
    <2> QED BY <2>2, <2>3, <2>4
  <1>4. realisedCosts' = realisedCosts /\ shown' = shown
    BY <1>2 DEF realisedCosts, shown
  <1>5. olderCosts' = olderCosts
    BY <1>2, <1>4 DEF olderCosts
  <1> QED BY <1>1, <1>2, <1>3, <1>4, <1>5 DEF CostsInv

LEMMA CostsStart == DashboardInit => CostsInv
  <1> SUFFICES ASSUME DashboardInit PROVE CostsInv
    OBVIOUS
  <1>1. HistoryInv
    BY HistoryStarts
  <1>2. records = <<>> /\ Len(records) = 0 /\ DOMAIN records = {}
    BY DEF DashboardInit
  <1>3. costs(book) = 0
    BY DEF DashboardInit, Init, EmptyBook, costs
  <1>4. shown = 0 /\ Len(records) - shown = 0
    BY <1>2, DashboardAssumption DEF shown, Min2
  <1>5. /\ 0 + 0 = costs(book) /\ AddsUpTo(realisedCosts, shown, 0)
        /\ AddsUpTo(olderCosts, Len(records) - shown, 0)
    BY <1>3, <1>4, NothingAdds
  <1> QED BY <1>1, <1>2, <1>5, NothingAdds DEF CostsInv

\* The fold of the summary is the equation's solution.
LEMMA FoldIsSum ==
    ASSUME NEW n \in Nat, NEW list, DOMAIN list = 1..n,
           NEW v, \A i \in 1..n : list[i].realizedCost = v[i],
           NEW sum \in Int, HasHighest(n), AddsUpTo(v, n, sum)
    PROVE  Summary(list).realised = sum
  <1> DEFINE Step(g) == [u \in SUBSET DOMAIN list |->
                            IF u = {} THEN 0
                            ELSE g[u \ {CHOOSE i \in u : \A j \in u : i >= j}]
                                 + list[CHOOSE i \in u : \A j \in u : i >= j].realizedCost]
             it == CHOOSE g : g = Step(g)
  <1>1. Summary(list).realised = it[DOMAIN list]
    BY DEF Summary, FoldLeft, MapThenFoldSet, Max
  <1>2. \A g : Step(g) = Adds(g, v, n, 0)
    <2> SUFFICES ASSUME NEW g PROVE Step(g) = Adds(g, v, n, 0)
      OBVIOUS
    <2> DEFINE F(u) == IF u = {} THEN 0
                       ELSE g[u \ {CHOOSE i \in u : \A j \in u : i >= j}]
                            + list[CHOOSE i \in u : \A j \in u : i >= j].realizedCost
               G(u) == IF u = {} THEN 0 ELSE g[u \ {Highest(u)}] + v[Highest(u)]
    <2>1. \A u \in SUBSET (1..n) : F(u) = G(u)
      <3> SUFFICES ASSUME NEW u \in SUBSET (1..n) PROVE F(u) = G(u)
        OBVIOUS
      <3>1. CASE u = {}
        BY <3>1
      <3>2. CASE u # {}
        <4>1. Highest(u) \in 1..n
          BY <3>2, HighestOf
        <4>2. list[Highest(u)].realizedCost = v[Highest(u)]
          BY <4>1
        <4> QED BY <4>2 DEF Highest
      <3> QED BY <3>1, <3>2
    <2>2. [u \in SUBSET (1..n) |-> F(u)] = [u \in SUBSET (1..n) |-> G(u)]
      <3> HIDE DEF F, G
      <3> QED BY <2>1
    <2> QED BY <2>2 DEF Adds
  <1> HIDE DEF Step
  <1>3. \E g : g = Step(g)
    BY <1>2, SolutionExists
  <1>4. it = Step(it)
    BY <1>3
  <1> HIDE DEF it
  <1>5. it[1..n] = 0 + sum
    BY <1>2, <1>4 DEF AddsUpTo
  <1> QED BY <1>1, <1>5

LEMMA SumIsTold == ASSUME CostsInv PROVE CostsAreTold
  <1> DEFINE n == Len(records)
             m == shown
             list == rebalanceHistory
             older == olderHistory
  <1>1. n \in Nat
    BY LenProperties DEF CostsInv, HistoryInv
  <1>2. PICK told \in Int, untold \in Int :
           /\ told + untold = costs(book)
           /\ AddsUpTo(realisedCosts, m, told) /\ AddsUpTo(olderCosts, n - m, untold)
    BY DEF CostsInv
  <1>3. m \in 0..n /\ n - m \in 0..n /\ m = Min2(n, HistoryLimit)
    BY <1>1, DashboardAssumption DEF shown, Min2
  <1>4. HasHighest(n)
    BY DEF CostsInv
  <1>5. HasHighest(m) /\ HasHighest(n - m)
    <2> HIDE DEF n, m
    <2> QED BY <1>1, <1>3, <1>4, HighestOfFewer
  <1>6. list = [i \in 1..m |-> records[(n - i) + 1]]
    BY <1>3 DEF rebalanceHistory
  <1>7. realisedCosts = [i \in 1..n |-> records[(n - i) + 1].realizedCost]
    BY DEF realisedCosts
  <1>8. olderCosts = [i \in 1..(n - m) |-> realisedCosts[m + i]]
    BY DEF olderCosts
  <1>9. Len(list) = m
    <2> DEFINE T == {records[(n - i) + 1] : i \in 1..m}
    <2> HIDE DEF n, m
    <2>1. list \in [1..m -> T]
      BY <1>6
    <2> HIDE DEF list, T
    <2>2. list \in Seq(T) /\ DOMAIN list = 1..m
      BY <1>3, <2>1, SeqDef
    <2> QED BY <1>3, <2>2, LenProperties
  <1>10. older = [i \in 1..(n - m) |-> records[((n - m) - i) + 1]]
    BY <1>9 DEF olderHistory
  <1> HIDE DEF n, m, list, older
  <1>11. Summary(list).realised = told
    <2>1. DOMAIN list = 1..m /\ \A i \in 1..m : list[i].realizedCost = realisedCosts[i]
      BY <1>1, <1>3, <1>6, <1>7
    <2> QED BY <1>2, <1>3, <1>5, <2>1, FoldIsSum
  <1>12. Summary(older).realised = untold
    <2>1. ASSUME NEW i \in 1..(n - m) PROVE older[i].realizedCost = olderCosts[i]
      <3>1. m + i \in 1..n /\ (n - (m + i)) + 1 = ((n - m) - i) + 1
        BY <1>1, <1>3
      <3>2. older[i] = records[((n - m) - i) + 1]
        BY <1>10
      <3>3. olderCosts[i] = records[(n - (m + i)) + 1].realizedCost
        BY <1>7, <1>8, <3>1
      <3> QED BY <3>1, <3>2, <3>3
    <2>2. DOMAIN older = 1..(n - m)
      BY <1>10
    <2> DEFINE j == n - m
    <2> HIDE DEF j
    <2>3. /\ j \in Nat /\ DOMAIN older = 1..j /\ HasHighest(j) /\ AddsUpTo(olderCosts, j, untold)
          /\ \A i \in 1..j : older[i].realizedCost = olderCosts[i]
      BY <1>2, <1>3, <1>5, <2>1, <2>2 DEF j
    <2> QED BY <2>3, FoldIsSum
  <1> QED BY <1>2, <1>11, <1>12 DEF CostsAreTold, list, older

\* However upkeeps, sweeps and liquidations are interleaved, and however many
\* rows a page asks for: the realised costs that the rebalancing page adds up,
\* and those of the rows it does not ask for, are all the costs the books bear.
THEOREM CostsAreToldAlways == DashboardSpec => []CostsAreTold
  <1>1. CostsInv /\ [DashboardNext]_allVars => CostsInv'
    BY CostsGrow, CostsStay DEF DashboardNext
  <1> QED BY CostsStart, SumIsTold, <1>1, PTL DEF DashboardSpec

-----------------------------------------------------------------------------
(***************************************************************************)
(* The oracle, for every choice of prices, heartbeat and deviation.  What   *)
(* makes OnlyMarketPrices inductive is where a faulty answer comes from: it *)
(* follows an answer of the market, with which it is compared.              *)
(***************************************************************************)
FeedRecord ==
    [up : BOOLEAN, decimals : BOOLEAN, answer : MarketPrices \cup BadPrices,
     prev : {0} \cup MarketPrices \cup BadPrices, form : Forms, age : Nat, faulty : BOOLEAN]

Traced(f) ==
    \/ f.answer \in MarketPrices /\ (f.faulty \/ f.form = "whole")
    \/ f.answer \in BadPrices /\ f.faulty /\ f.prev \in MarketPrices

OracleInv ==
    /\ feed \in [Feeds -> FeedRecord] /\ \A f \in Feeds : Traced(feed[f])
    /\ shutdown \in BOOLEAN
    /\ lastGood \in [price : {0} \cup MarketPrices, at : Nat]

(* What the first check that fails says of those before it. *)
FirstFailed(c, i) == c[i].failed /\ \A j \in 1..(i - 1) : ~c[j].failed

LEMMA FirstCheck ==
    ASSUME NEW f
    PROVE  \E i \in 1..7 : FirstFailed(Checks(f), i) /\ _readFeed(f) = Checks(f)[i].status
  <1> DEFINE c == Checks(f)
  <1>1. DOMAIN c = 1..7 /\ c[7].failed
    BY DEF Checks
  <1> HIDE DEF c
  <1>2. \E i \in 1..7 : FirstFailed(c, i)
    BY <1>1 DEF FirstFailed
  <1> DEFINE i0 == CHOOSE i \in DOMAIN c : c[i].failed /\ \A j \in 1..(i - 1) : ~c[j].failed
  <1>3. i0 \in 1..7 /\ FirstFailed(c, i0)
    BY <1>1, <1>2, Zenon DEF FirstFailed
  <1>4. _readFeed(f) = c[i0].status
    BY DEF _readFeed, c
  <1> QED BY <1>3, <1>4 DEF c

\* An answer reads OK only if it does not deviate ...
LEMMA OkDoesNotDeviate == ASSUME NEW f, _readFeed(f) = "OK" PROVE ~deviates(f)
  <1>1. PICK i \in 1..7 : FirstFailed(Checks(f), i) /\ Checks(f)[i].status = "OK"
    BY FirstCheck
  <1>2. i = 7
    BY <1>1 DEF Checks
  <1>3. ~Checks(f)[6].failed
    BY <1>1, <1>2 DEF FirstFailed
  <1> QED BY <1>3 DEF Checks

LEMMA PriceType == ASSUME NEW p \in MarketPrices \cup BadPrices PROVE p \in Nat \ {0}
  <1>1. MarketPrices \subseteq Nat \ {0} /\ BadPrices \subseteq Nat \ {0}
    BY OracleAssumption
  <1>2. p \in MarketPrices \/ p \in BadPrices
    OBVIOUS
  <1> QED BY <1>1, <1>2, Zenon

\* ... and does if it is confirmed.
LEMMA ConfirmedIsOk ==
    ASSUME NEW f \in FeedRecord, confirmed(f) PROVE _readFeed(f) = "OK"
  <1>1. PICK i \in 1..7 : FirstFailed(Checks(f), i) /\ _readFeed(f) = Checks(f)[i].status
    BY FirstCheck
  <1>2. ~deviates(f)
    <2> DEFINE off == (distance(f.answer, f.prev) * 10000) \div f.prev
    <2>1. f.answer \in MarketPrices \cup BadPrices
      BY DEF FeedRecord
    <2>2. f.answer \in Nat \ {0}
      BY <2>1, PriceType, Zenon
    <2>3. distance(f.answer, f.prev) = 0
      BY <2>2 DEF confirmed, distance
    <2>4. off = 0
      BY <2>2, <2>3 DEF confirmed
    <2>5. deviates(f) => off > MaxDeviation
      BY DEF deviates
    <2> HIDE DEF off
    <2> QED BY <2>4, <2>5, OracleAssumption
  <1>3. ~stale(f)
    BY OracleAssumption DEF confirmed, stale, FeedRecord
  <1>4. /\ ~Checks(f)[1].failed /\ ~Checks(f)[2].failed /\ ~Checks(f)[3].failed
        /\ ~Checks(f)[4].failed /\ ~Checks(f)[5].failed /\ ~Checks(f)[6].failed
    BY <1>2, <1>3 DEF Checks, confirmed
  <1>5. i = 7
    BY <1>1, <1>4 DEF FirstFailed
  <1> QED BY <1>1, <1>5 DEF Checks

\* A feed that reads OK answers with a price of the market.
LEMMA OkIsMarket ==
    ASSUME NEW f \in FeedRecord, Traced(f), _readFeed(f) = "OK" PROVE f.answer \in MarketPrices
  <1> SUFFICES ASSUME f.answer \in BadPrices, f.prev \in MarketPrices PROVE FALSE
    BY DEF Traced
  <1>1. ~deviates(f)
    BY OkDoesNotDeviate
  <1>2. (distance(f.answer, f.prev) * 10000) \div f.prev > MaxDeviation
    BY FaultAssumption
  <1>3. f.prev # 0
    BY OracleAssumption
  <1> QED BY <1>1, <1>2, <1>3 DEF deviates

LEMMA HealthyIsMarket == ASSUME OracleInv, healthy PROVE tryGetPrice.price \in MarketPrices
  <1>1. /\ "primary" \in Feeds /\ "secondary" \in Feeds
        /\ feed["primary"] \in FeedRecord /\ feed["secondary"] \in FeedRecord
        /\ Traced(feed["primary"]) /\ Traced(feed["secondary"])
    BY DEF OracleInv, Feeds
  <1>2. CASE ~shutdown /\ _readFeed(feed["primary"]) = "OK"
    <2>1. tryGetPrice.price = feed["primary"].answer
      BY <1>2 DEF tryGetPrice, Priced
    <2> QED BY <1>1, <1>2, <2>1, OkIsMarket
  <1>3. CASE ~shutdown /\ _readFeed(feed["primary"]) # "OK" /\ _readFeed(feed["secondary"]) = "OK"
    <2>1. tryGetPrice.price = feed["secondary"].answer
      BY <1>3 DEF tryGetPrice, Priced
    <2> QED BY <1>1, <1>3, <2>1, OkIsMarket
  <1>4. CASE shutdown
    BY <1>4 DEF healthy, usable, tryGetPrice, Priced
  <1>5. CASE ~shutdown /\ _readFeed(feed["primary"]) # "OK" /\ _readFeed(feed["secondary"]) # "OK"
    <2>1. tryGetPrice.status = _readFeed(feed["primary"])
      BY <1>5 DEF tryGetPrice, Priced
    <2>2. PICK i \in 1..7 : _readFeed(feed["primary"]) = Checks(feed["primary"])[i].status
      BY FirstCheck
    <2>3. _readFeed(feed["primary"]) # "FALLBACK"
      BY <2>2 DEF Checks
    <2> QED BY <1>5, <2>1, <2>3 DEF healthy, usable
  <1> QED BY <1>2, <1>3, <1>4, <1>5 DEF OracleInv

LEMMA RoundTraced ==
    ASSUME OracleInv, NEW f \in Feeds, NEW p \in MarketPrices \cup BadPrices, NEW form \in Forms,
           NEW faulty \in BOOLEAN, Round(f, p, form, faulty),
           \/ p \in MarketPrices /\ (faulty \/ form = "whole")
           \/ p \in BadPrices /\ faulty /\ ~feed[f].faulty
    PROVE  feed' \in [Feeds -> FeedRecord] /\ \A g \in Feeds : Traced(feed'[g])
  <1> DEFINE new == [up |-> feed[f].up, decimals |-> feed[f].decimals,
                     answer |-> p, prev |-> IF feed[f].form = "zero" THEN 0 ELSE feed[f].answer,
                     form |-> form, age |-> 0, faulty |-> faulty]
  <1>1. feed[f] \in FeedRecord /\ Traced(feed[f])
    BY DEF OracleInv
  <1>2. new \in FeedRecord
    BY <1>1 DEF FeedRecord
  <1>3. Traced(new)
    <2>1. CASE p \in MarketPrices /\ (faulty \/ form = "whole")
      BY <2>1 DEF Traced
    <2>2. CASE p \in BadPrices /\ faulty /\ ~feed[f].faulty
      <3>1. feed[f].form = "whole" /\ feed[f].answer \in MarketPrices
        BY <1>1, <2>2 DEF Traced
      <3> QED BY <2>2, <3>1 DEF Traced
    <2> QED BY <2>1, <2>2
  <1>4. feed' = [feed EXCEPT ![f] = new]
    BY DEF Round
  <1> HIDE DEF new
  <1> QED BY <1>2, <1>3, <1>4 DEF OracleInv

LEMMA AgedType == ASSUME NEW n \in Nat PROVE Aged(n) \in Nat
  BY DEF Aged

LEMMA OracleInitHolds == OracleInit => OracleInv
  <1> SUFFICES ASSUME OracleInit PROVE OracleInv
    OBVIOUS
  <1>1. PICK p \in MarketPrices : feed = [f \in Feeds |-> NewFeed(p)]
    BY DEF OracleInit
  <1>2. NewFeed(p) \in FeedRecord /\ Traced(NewFeed(p))
    BY DEF NewFeed, FeedRecord, Traced, Forms
  <1> QED BY <1>1, <1>2 DEF OracleInit, OracleInv

LEMMA OracleNextHolds == OracleInv /\ [OracleNext]_oracleVars => OracleInv'
  <1> SUFFICES ASSUME OracleInv, [OracleNext]_oracleVars PROVE OracleInv'
    OBVIOUS
  <1>1. CASE HonestRound
    <2>1. PICK f \in Feeds, p \in MarketPrices : Round(f, p, "whole", FALSE)
      BY <1>1 DEF HonestRound
    <2>2. feed' \in [Feeds -> FeedRecord] /\ \A g \in Feeds : Traced(feed'[g])
      BY <2>1, RoundTraced DEF Forms
    <2> QED BY <1>1, <2>2 DEF HonestRound, OracleInv
  <1>2. CASE FaultyRound
    <2>1. PICK f \in Feeds :
             /\ ~feed[f].faulty
             /\ \/ \E p \in BadPrices : Round(f, p, "whole", TRUE)
                \/ \E form \in Forms \ {"whole"} : Round(f, feed[f].answer, form, TRUE)
      BY <1>2 DEF FaultyRound
    <2>2. feed[f].answer \in MarketPrices
      BY <2>1 DEF OracleInv, Traced
    <2>3. feed' \in [Feeds -> FeedRecord] /\ \A g \in Feeds : Traced(feed'[g])
      BY <2>1, <2>2, RoundTraced DEF Forms
    <2> QED BY <1>2, <2>3 DEF FaultyRound, OracleInv
  <1>3. CASE NewPhase
    <2>1. PICK f \in Feeds, p \in MarketPrices : feed' = [feed EXCEPT ![f] = NewFeed(p)]
      BY <1>3 DEF NewPhase
    <2>2. NewFeed(p) \in FeedRecord /\ Traced(NewFeed(p))
      BY DEF NewFeed, FeedRecord, Traced, Forms
    <2>3. feed' \in [Feeds -> FeedRecord] /\ \A g \in Feeds : Traced(feed'[g])
      BY <2>1, <2>2 DEF OracleInv
    <2> QED BY <1>3, <2>3 DEF NewPhase, OracleInv
  <1>4. CASE FeedFails \/ DecimalsChange
    <2>1. PICK f \in Feeds : \/ feed' = [feed EXCEPT ![f].up = ~@]
                             \/ feed' = [feed EXCEPT ![f].decimals = ~@]
      BY <1>4 DEF FeedFails, DecimalsChange
    <2>2. feed[f] \in FeedRecord /\ Traced(feed[f])
      BY DEF OracleInv
    <2>3. \A x \in BOOLEAN :
             /\ [feed[f] EXCEPT !.up = x] \in FeedRecord /\ Traced([feed[f] EXCEPT !.up = x])
             /\ [feed[f] EXCEPT !.decimals = x] \in FeedRecord /\ Traced([feed[f] EXCEPT !.decimals = x])
      BY <2>2 DEF FeedRecord, Traced
    <2>4. (~feed[f].up) \in BOOLEAN /\ (~feed[f].decimals) \in BOOLEAN
      BY Zenon
    <2>5. feed' \in [Feeds -> FeedRecord] /\ \A g \in Feeds : Traced(feed'[g])
      BY <2>1, <2>3, <2>4 DEF OracleInv
    <2> QED BY <1>4, <2>5 DEF FeedFails, DecimalsChange, OracleInv
  <1>5. CASE TimePasses
    <2>1. \A f \in Feeds : [feed[f] EXCEPT !.age = Aged(@)] \in FeedRecord
                           /\ Traced([feed[f] EXCEPT !.age = Aged(@)])
      BY AgedType DEF OracleInv, FeedRecord, Traced
    <2>2. feed' \in [Feeds -> FeedRecord] /\ \A g \in Feeds : Traced(feed'[g])
      BY <1>5, <2>1 DEF TimePasses
    <2>3. lastGood' \in [price : {0} \cup MarketPrices, at : Nat]
      BY <1>5, AgedType DEF TimePasses, OracleInv
    <2> QED BY <1>5, <2>2, <2>3 DEF TimePasses, OracleInv
  <1>6. CASE setShutdown
    BY <1>6, Zenon DEF setShutdown, OracleInv
  <1>7. CASE poke
    <2>1. lastGood' \in [price : {0} \cup MarketPrices, at : Nat]
      BY <1>7, HealthyIsMarket DEF poke, goodAfter, healthy, OracleInv
    <2> QED BY <1>7, <2>1 DEF poke, OracleInv
  <1>8. CASE UNCHANGED oracleVars
    BY <1>8 DEF oracleVars, OracleInv
  <1> QED BY <1>1, <1>2, <1>3, <1>4, <1>5, <1>6, <1>7, <1>8 DEF OracleNext

\* However faulty rounds, outages, migrations and shutdowns are interleaved, the
\* oracle serves and records answers of the market only, as long as a feed does
\* not publish two faulty rounds in a row, and serves one while a feed is confirmed.
THEOREM OracleServesTheMarketHolds == OracleSpec => []OracleServesTheMarket
  <1>1. ASSUME OracleInv PROVE OracleServesTheMarket
    <2>1. OnlyMarketPrices
      BY <1>1, HealthyIsMarket DEF OnlyMarketPrices, OracleInv
    <2>2. OneConfirmedFeedIsEnough
      <3> SUFFICES ASSUME ~shutdown, NEW f \in Feeds, confirmed(feed[f]) PROVE healthy
        BY DEF OneConfirmedFeedIsEnough
      <3>1. _readFeed(feed[f]) = "OK"
        BY <1>1, ConfirmedIsOk DEF OracleInv
      <3> QED BY <3>1 DEF Feeds, healthy, usable, tryGetPrice, Priced
    <2> QED BY <2>1, <2>2 DEF OracleServesTheMarket
  <1>2. OracleInv => OracleServesTheMarket
    BY <1>1
  <1> QED BY OracleInitHolds, OracleNextHolds, <1>2, PTL DEF OracleSpec

-----------------------------------------------------------------------------
(***************************************************************************)
(* The checkpoints of the risk manager, for every book, threshold and       *)
(* price: whatever the metrics are, their levels are levels, and a          *)
(* checkpoint leaves behind what an assessment right after it finds.        *)
(***************************************************************************)
Levels == {NORMAL, WARNING, HIGH_RISK, EMERGENCY}
Flags == {"LEVERAGE", "DELTA", "DRAWDOWN", "LIQUIDATION", "COLLATERAL", "EXPOSURE", "FUNDING",
          "POSITION_SIZE", "ORACLE"}
Event == [previous : Levels, new : Levels, flags : SUBSET Flags]

(* The events form a chain, in the order they were made. *)
Chained(list, last) ==
    /\ \A i \in 1..Len(list) :
          /\ list[i].previous # list[i].new
          /\ list[i].previous = IF i = 1 THEN NORMAL ELSE list[i - 1].new
          /\ list[i].flags = {} <=> list[i].new = NORMAL
    /\ last = IF list = <<>> THEN NORMAL ELSE list[Len(list)].new

CheckpointInv ==
    /\ currentState \in Levels /\ events \in Seq(Event)
    /\ Chained(events, currentState)
    /\ CheckpointIsStable /\ EmergencyPausesDeposits

LEMMA LevelNat == ASSUME NEW x \in Levels PROVE x \in 0..3
  BY DEF Levels, NORMAL, WARNING, HIGH_RISK, EMERGENCY

LEMMA WorstIs ==
    ASSUME NEW S \in SUBSET Levels, S # {}
    PROVE  Worst(S) \in S /\ \A y \in S : y <= Worst(S)
  <1>1. \E x \in S : \A y \in S : y <= x
    <2>1. \A y \in S : y \in {0, 1, 2, 3}
      BY DEF Levels, NORMAL, WARNING, HIGH_RISK, EMERGENCY
    <2>2. PICK z \in S : TRUE
      OBVIOUS
    <2>3. CASE 3 \in S
      BY <2>1, <2>3
    <2>4. CASE 3 \notin S /\ 2 \in S
      BY <2>1, <2>4
    <2>5. CASE 3 \notin S /\ 2 \notin S /\ 1 \in S
      BY <2>1, <2>5
    <2>6. CASE 3 \notin S /\ 2 \notin S /\ 1 \notin S
      BY <2>1, <2>2, <2>6
    <2> QED BY <2>3, <2>4, <2>5, <2>6
  <1> QED BY <1>1, Zenon DEF Worst

LEMMA LevelTypes ==
    ASSUME NEW s, NEW m
    PROVE  DOMAIN levels(s, m) = Flags /\ \A f \in Flags : levels(s, m)[f] \in Levels
  <1>1. \A v, t : _higherWorse(v, t) \in Levels /\ _lowerWorse(v, t) \in Levels
    BY DEF _higherWorse, _lowerWorse, Levels
  <1>2. \A x \in Levels : Min2(x, WARNING) \in Levels
    BY DEF Levels, Min2
  <1>3. \A x, apr : fundingLevel(x, apr) \in Levels
    BY DEF fundingLevel, Levels
  <1>4. \A x : highRiskIf(x) \in Levels
    BY DEF highRiskIf, Levels
  <1>5. levels(s, m) \in [LEVERAGE : Levels, DELTA : Levels, DRAWDOWN : Levels, LIQUIDATION : Levels,
                          COLLATERAL : Levels, EXPOSURE : Levels, FUNDING : Levels,
                          POSITION_SIZE : Levels, ORACLE : Levels]
    BY <1>1, <1>2, <1>3, <1>4 DEF levels
  <1> HIDE DEF Levels
  <1> QED BY <1>5 DEF Flags

\* The state of a report is the worst of the levels, and it is normal when no
\* flag is raised.
LEMMA AssessedState ==
    ASSUME NEW s, NEW m
    PROVE  LET r == Assessed(s, m)
               ls == levels(s, m)
           IN  /\ r.state \in Levels /\ r.flags \in SUBSET Flags /\ r.metrics = m
               /\ r.flags = {} <=> r.state = NORMAL
               /\ \A f \in Flags : ls[f] <= r.state
               /\ \E f \in Flags : ls[f] = r.state
  <1> DEFINE ls == levels(s, m)
             S == {ls[f] : f \in DOMAIN ls}
             r == Assessed(s, m)
  <1>1. DOMAIN ls = Flags /\ \A f \in Flags : ls[f] \in Levels
    BY LevelTypes
  <1>2. r.state = Worst(S) /\ r.flags = {f \in DOMAIN ls : ls[f] > NORMAL} /\ r.metrics = m
    BY DEF Assessed, Report
  <1> HIDE DEF ls, r
  <1>3. S \in SUBSET Levels /\ S # {}
    BY <1>1 DEF Flags
  <1>4. Worst(S) \in S /\ \A y \in S : y <= Worst(S)
    BY <1>3, WorstIs
  <1>5. \A f \in Flags : ls[f] \in S
    BY <1>1
  <1>6. r.state \in Levels /\ \A f \in Flags : ls[f] <= r.state
    BY <1>2, <1>3, <1>4, <1>5
  <1>7. PICK f \in Flags : ls[f] = r.state
    BY <1>1, <1>2, <1>4
  <1>8. r.flags = {} => r.state = NORMAL
    <2> HAVE r.flags = {}
    <2>1. ~(ls[f] > 0)
      BY <1>1, <1>2 DEF NORMAL
    <2> QED BY <1>1, <1>7, <2>1, LevelNat DEF NORMAL
  <1>9. r.state = NORMAL => r.flags = {}
    <2> HAVE r.state = NORMAL
    <2>1. \A g \in Flags : ~(ls[g] > 0)
      BY <1>1, <1>6, LevelNat DEF NORMAL
    <2> QED BY <1>1, <1>2, <2>1 DEF NORMAL
  <1> QED BY <1>1, <1>2, <1>6, <1>7, <1>8, <1>9 DEF ls, r

LEMMA PeakOnce == ASSUME NEW p, NEW x PROVE Max2(Max2(p, x), x) = Max2(p, x)
  BY DEF Max2

(* What an event adds to the chain. *)
LEMMA ChainGrows ==
    ASSUME NEW list \in Seq(Event), NEW last \in Levels, Chained(list, last),
           NEW e \in Event, e.previous = last, e.new # last, e.flags = {} <=> e.new = NORMAL
    PROVE  Append(list, e) \in Seq(Event) /\ Chained(Append(list, e), e.new)
  <1> DEFINE es == Append(list, e)
             n == Len(list)
  <1>1. /\ es \in Seq(Event) /\ Len(es) = n + 1 /\ n \in Nat
        /\ \A i \in 1..n : es[i] = list[i]
        /\ es[n + 1] = e
    BY AppendProperties
  <1>2. list = <<>> <=> n = 0
    BY EmptySeq
  <1>3. es # <<>>
    BY <1>1, EmptySeq
  <1> HIDE DEF es, n
  <1>4. \A i \in 1..n :
           /\ list[i].previous # list[i].new
           /\ list[i].previous = IF i = 1 THEN NORMAL ELSE list[i - 1].new
           /\ list[i].flags = {} <=> list[i].new = NORMAL
    BY DEF Chained, n
  <1>5. last = IF n = 0 THEN NORMAL ELSE list[n].new
    BY <1>2 DEF Chained, n
  <1>6. \A i \in 1..(n + 1) :
           /\ es[i].previous # es[i].new
           /\ es[i].previous = IF i = 1 THEN NORMAL ELSE es[i - 1].new
           /\ es[i].flags = {} <=> es[i].new = NORMAL
    <2> TAKE i \in 1..(n + 1)
    <2>1. CASE i \in 1..n
      <3>1. i # 1 => i - 1 \in 1..n
        BY <1>1, <2>1
      <3> QED BY <1>1, <1>4, <2>1, <3>1
    <2>2. CASE i = n + 1
      <3>1. es[i] = e /\ (i = 1 <=> n = 0)
        BY <1>1, <2>2
      <3>2. i # 1 => i - 1 = n /\ n \in 1..n
        BY <1>1, <2>2
      <3> QED BY <1>1, <1>5, <3>1, <3>2
    <2> QED BY <1>1, <2>1, <2>2
  <1> QED BY <1>1, <1>3, <1>6 DEF Chained, es

\* The table of the risk page shows that chain from its end.
LEMMA ChainIsShown ==
    ASSUME events \in Seq(Event), Chained(events, currentState) PROVE EventsAreAChain
  <1> DEFINE n == Len(events)
             table == RiskEventsTable
             rows(i) == events[n + 1 - i]
  <1>1. n \in Nat /\ DOMAIN events = 1..n /\ (events = <<>> <=> n = 0)
    BY EmptySeq
  <1>2. riskEvents = [i \in 1..n |-> rows(i)]
    BY <1>1 DEF riskEvents, Reverse
  <1>3. table = [i \in 1..n |-> [from |-> rows(i).previous, to |-> rows(i).new, chips |-> rows(i).flags]]
    BY <1>2 DEF RiskEventsTable
  <1> HIDE DEF table, n
  <1>4. DOMAIN table = 1..n /\ Len(table) = n /\ (table = <<>> <=> n = 0)
    <2> DEFINE T == {table[i] : i \in 1..n}
    <2>1. table \in [1..n -> T]
      BY <1>3
    <2> HIDE DEF T
    <2>2. table \in Seq(T) /\ DOMAIN table = 1..n
      BY <1>1, <2>1, SeqDef
    <2> QED BY <1>1, <2>2, LenProperties, EmptySeq
  <1>5. \A i \in 1..n : table[i].from = rows(i).previous /\ table[i].to = rows(i).new /\ table[i].chips = rows(i).flags
    BY <1>3
  <1> HIDE DEF rows
  <1>6. \A i \in 1..n :
           /\ rows(i).previous # rows(i).new
           /\ rows(i).previous = IF i = n THEN NORMAL ELSE rows(i + 1).new
           /\ rows(i).flags = {} <=> rows(i).new = NORMAL
    <2> TAKE i \in 1..n
    <2> DEFINE j == n + 1 - i
    <2>1. j \in 1..n /\ (j = 1 <=> i = n) /\ (i # n => j - 1 = n + 1 - (i + 1))
      BY <1>1
    <2>2. /\ events[j].previous # events[j].new
          /\ events[j].previous = IF j = 1 THEN NORMAL ELSE events[j - 1].new
          /\ events[j].flags = {} <=> events[j].new = NORMAL
      <3> HIDE DEF j
      <3> QED BY <2>1 DEF Chained, n
    <2> QED BY <2>1, <2>2 DEF rows
  <1>7. currentState = IF n = 0 THEN NORMAL ELSE rows(1).new
    <2>1. n + 1 - 1 = n
      BY <1>1
    <2> QED BY <1>1, <2>1 DEF Chained, n, rows
  <1>8. \A i \in DOMAIN table :
           /\ table[i].from # table[i].to
           /\ table[i].from = IF i = Len(table) THEN NORMAL ELSE table[i + 1].to
           /\ table[i].chips = {} <=> table[i].to = NORMAL
    <2> TAKE i \in DOMAIN table
    <2>1. i # n => i + 1 \in 1..n
      BY <1>1, <1>4
    <2> QED BY <1>4, <1>5, <1>6, <2>1
  <1>9. currentState = IF table = <<>> THEN NORMAL ELSE table[1].to
    BY <1>1, <1>4, <1>5, <1>7
  <1> QED BY <1>8, <1>9 DEF EventsAreAChain, table

(* What CheckpointIsStable compares. *)
LEMMA StableMeans ==
    CheckpointIsStable <=>
        (checked => assess.state = currentState /\ peakSharePrice = Max2(peakSharePrice, sharePrice))
  <1>1. /\ RiskStateCard(riskView).current = assess.state
        /\ RiskStateCard(riskView).lastCheckpoint = currentState
        /\ RiskStateCard(riskView).peak = peakSharePrice
    BY DEF RiskStateCard, riskView, riskViewOf
  <1> QED BY <1>1 DEF CheckpointIsStable

LEMMA StableMeansNext ==
    CheckpointIsStable' <=>
        (checked' => assess'.state = currentState' /\ peakSharePrice' = Max2(peakSharePrice', sharePrice'))
  <1>1. /\ RiskStateCard(riskView)'.current = assess'.state
        /\ RiskStateCard(riskView)'.lastCheckpoint = currentState'
        /\ RiskStateCard(riskView)'.peak = peakSharePrice'
    BY DEF RiskStateCard, riskView, riskViewOf
  <1> QED BY <1>1 DEF CheckpointIsStable

LEMMA CheckpointKeeps ==
    ASSUME CheckpointInv, NEW b, _checkpoint(b), book' = b, UNCHANGED <<env, shares>> PROVE CheckpointInv'
  <1> DEFINE pps == sharePriceOf(b, env)
             report == _assessAt(b, env, pps)
  <1>1. /\ peakSharePrice' = Max2(peakSharePrice, pps)
        /\ events' = Announced(report) /\ currentState' = report.state
        /\ depositsPaused' = (depositsPaused \/ report.state = EMERGENCY) /\ checked' = TRUE
    BY DEF _checkpoint, CheckpointAt, Stored, Breaker
  <1>2. report.state \in Levels /\ report.flags \in SUBSET Flags /\ (report.flags = {} <=> report.state = NORMAL)
    BY AssessedState DEF _assessAt
  <1>3. sharePrice' = pps
    BY DEF sharePrice, sharePriceOf, totalAssets
  <1>4. assess' = report
    <2>1. Max2(peakSharePrice', pps) = Max2(peakSharePrice, pps)
      BY <1>1, PeakOnce
    <2>2. assess' = Assessed(snapshot(b, env), _fillMetrics(snapshot(b, env), pps, Max2(peakSharePrice', pps)))
      BY <1>3 DEF assess, _assessAt
    <2> QED BY <2>1, <2>2 DEF _assessAt
  <1> HIDE DEF pps, report
  <1>5. CheckpointIsStable'
    BY <1>1, <1>3, <1>4, PeakOnce, StableMeansNext
  <1>6. EmergencyPausesDeposits'
    BY <1>1 DEF EmergencyPausesDeposits
  <1>7. events' \in Seq(Event) /\ Chained(events', currentState')
    <2>1. CASE report.state = currentState
      BY <1>1, <2>1 DEF Announced, CheckpointInv
    <2>2. CASE report.state # currentState
      <3> DEFINE e == Change(currentState, report)
      <3>1. e \in Event /\ e.previous = currentState /\ e.new = report.state /\ e.flags = report.flags
        BY <1>2 DEF Change, Event, CheckpointInv
      <3> HIDE DEF e
      <3>2. events' = Append(events, e)
        BY <1>1, <2>2 DEF Announced, e
      <3> QED BY <1>1, <1>2, <2>2, <3>1, <3>2, ChainGrows DEF CheckpointInv
    <2> QED BY <2>1, <2>2
  <1> QED BY <1>1, <1>2, <1>5, <1>6, <1>7 DEF CheckpointInv

(* A step that is no checkpoint ends the validity of the last one ... *)
LEMMA UncheckedKeeps ==
    ASSUME CheckpointInv, checked' = FALSE, UNCHANGED <<currentState, events>> PROVE CheckpointInv'
  BY StableMeansNext DEF CheckpointInv, EmergencyPausesDeposits

(* ... or nothing changes that is assessed. *)
LEMMA SameKeeps ==
    ASSUME CheckpointInv, UNCHANGED <<book, env, shares, peakSharePrice, currentState, events, checked>>,
           depositsPaused => depositsPaused'
    PROVE  CheckpointInv'
  <1>1. sharePrice' = sharePrice
    BY DEF sharePrice, sharePriceOf, totalAssets
  <1>2. assess' = assess
    BY <1>1 DEF assess, _assessAt
  <1> QED BY <1>1, <1>2, StableMeans, StableMeansNext DEF CheckpointInv, EmergencyPausesDeposits

LEMMA CheckpointInit == RiskInit => CheckpointInv
  <1> SUFFICES ASSUME RiskInit PROVE CheckpointInv
    OBVIOUS
  <1>1. /\ peakSharePrice = sharePrice /\ currentState = assess.state
        /\ depositsPaused = (currentState = EMERGENCY)
        /\ events = IF currentState = NORMAL THEN <<>> ELSE <<Change(NORMAL, assess)>>
    BY DEF RiskInit
  <1>2. assess.state \in Levels /\ assess.flags \in SUBSET Flags /\ (assess.flags = {} <=> assess.state = NORMAL)
    BY AssessedState DEF assess, _assessAt
  <1>3. CheckpointIsStable
    BY <1>1, StableMeans DEF Max2
  <1>4. events \in Seq(Event) /\ Chained(events, currentState)
    <2>1. CASE currentState = NORMAL
      <3>1. events = <<>> /\ Len(events) = 0 /\ events \in Seq(Event)
        BY <1>1, <2>1
      <3> QED BY <2>1, <3>1 DEF Chained
    <2>2. CASE currentState # NORMAL
      <3> DEFINE e == Change(NORMAL, assess)
      <3>1. e \in Event /\ e.previous = NORMAL /\ e.new = currentState /\ e.flags = assess.flags
        BY <1>1, <1>2 DEF Change, Event, Levels
      <3> HIDE DEF e
      <3>2. events = <<e>>
        BY <1>1, <2>2 DEF e
      <3>3. events \in Seq(Event) /\ Len(events) = 1 /\ events[1] = e /\ events # <<>>
        BY <3>1, <3>2
      <3> QED BY <1>1, <1>2, <2>2, <3>1, <3>3 DEF Chained
    <2> QED BY <2>1, <2>2
  <1> QED BY <1>1, <1>2, <1>3, <1>4 DEF CheckpointInv, EmergencyPausesDeposits

LEMMA CheckpointNext == CheckpointInv /\ [RiskNext]_riskVars => CheckpointInv'
  <1> SUFFICES ASSUME CheckpointInv, [RiskNext]_riskVars PROVE CheckpointInv'
    OBVIOUS
  <1>1. CASE checkpoint
    BY <1>1, CheckpointKeeps DEF checkpoint
  <1>2. CASE Upkeep
    <2>1. _checkpoint(book') /\ UNCHANGED <<env, shares>>
      BY <1>2 DEF Upkeep, performUpkeep
    <2> QED BY <2>1, CheckpointKeeps
  <1>3. CASE pauseDeposits
    BY <1>3, SameKeeps DEF pauseDeposits, Breakers, vars
  <1>4. CASE unpauseDeposits
    BY <1>4, UncheckedKeeps DEF unpauseDeposits, Breakers
  <1>5. CASE Invest \/ VenueMoves \/ FeedsMove
    BY <1>5, UncheckedKeeps DEF Invest, VenueMoves, FeedsMove, Unchecked, riskState
  <1>6. CASE UNCHANGED riskVars
    BY <1>6, SameKeeps DEF riskVars, riskState, vars
  <1> QED BY <1>1, <1>2, <1>3, <1>4, <1>5, <1>6 DEF RiskNext

\* A checkpoint right after another changes neither the state nor the peak, the
\* events tell the states without a gap and with a flag unless they are back to
\* normal, and no emergency that was checkpointed leaves the deposits open
\* unless an admin opened them.
THEOREM CheckpointsHoldAlways == RiskSpec => []CheckpointsHold
  <1>1. CheckpointInv => CheckpointsHold
    BY ChainIsShown DEF CheckpointInv, CheckpointsHold
  <1> QED BY CheckpointInit, CheckpointNext, <1>1, PTL DEF RiskSpec

-----------------------------------------------------------------------------
(***************************************************************************)
(* Danger: the books, the feeds and the assessment agree.  The books are    *)
(* those of the rebalancer, and what is seen of the market is the oracle's. *)
(***************************************************************************)
MarketInv ==
    /\ RebInv /\ OracleInv
    /\ lastGood.price \in MarketPrices
    /\ env.healthy = healthy

LEMMA HealthyPriced == OracleInv => (healthy => tryGetPrice.price \in MarketPrices)
  BY HealthyIsMarket

LEMMA FeedsMoveOracle == FeedsMove => OracleNext
  BY DEF FeedsMove, HourPasses, OracleNext

\* What is seen after the feeds moved is a market again.
LEMMA FeedsMoveKeeps == ASSUME MarketInv, FeedsMove PROVE MarketInv'
  <1>1. OracleInv'
    BY FeedsMoveOracle, OracleNextHolds DEF MarketInv
  <1>2. (healthy => tryGetPrice.price \in MarketPrices)'
    BY <1>1, HealthyPriced, PTL
  <1>3. lastGood'.price \in MarketPrices
    <2>1. CASE HourPasses
      BY <2>1 DEF HourPasses, TimePasses, MarketInv, OracleInv
    <2>2. CASE HonestRound \/ FeedFails \/ setShutdown
      BY <2>2 DEF HonestRound, FeedFails, setShutdown, MarketInv
    <2>3. CASE poke
      BY <2>3, HealthyPriced DEF poke, goodAfter, healthy, MarketInv
    <2> QED BY <2>1, <2>2, <2>3 DEF FeedsMove
  <1>4. env' = Seen(IF usable(tryGetPrice.status') THEN tryGetPrice.price' ELSE lastGood'.price,
                    mark', usable(tryGetPrice.status'), answering')
    BY DEF FeedsMove, FeedsAreSeen
  <1>5. healthy' = usable(tryGetPrice.status')
    BY DEF healthy
  <1>6. \A p \in MarketPrices : p \in Nat \ {0}
    BY OracleAssumption
  <1>7. mark' \in Nat \ {0}
    <2>1. feed'["primary"].answer \in MarketPrices \cup BadPrices
      BY <1>1 DEF OracleInv, FeedRecord, Feeds
    <2> QED BY <2>1, PriceType DEF mark
  <1>8. answering' \in BOOLEAN /\ healthy' \in BOOLEAN
    <2>1. answering' \in BOOLEAN
      BY Zenon DEF answering
    <2>2. \A x : usable(x) \in BOOLEAN
      BY DEF usable
    <2> QED BY <1>5, <2>1, <2>2
  <1>9. env' \in EnvRecord /\ env'.healthy = healthy'
    <2> DEFINE q == IF healthy' THEN tryGetPrice.price' ELSE lastGood'.price
    <2>1. q \in Nat \ {0}
      BY <1>2, <1>3, <1>6
    <2>2. env' = Seen(q, mark', healthy', answering')
      BY <1>4, <1>5
    <2>3. env \in EnvRecord
      BY DEF MarketInv, RebInv
    <2> HIDE DEF q
    <2> QED BY <1>7, <1>8, <2>1, <2>2, <2>3 DEF Seen, EnvRecord
  <1>10. now' = now + Hour \/ now' = now
    BY DEF FeedsMove, HourPasses
  <1>11. now' \in Nat
    BY <1>10 DEF MarketInv, RebInv, Hour
  <1>12. UNCHANGED <<book, targets, obs, lastRebalanceAt>>
    BY DEF FeedsMove
  <1> QED BY <1>1, <1>3, <1>9, <1>11, <1>12 DEF MarketInv, RebInv

(* The books move and the feeds do not. *)
LEMMA SameHealth == ASSUME UNCHANGED oracleVars PROVE healthy' = healthy
  BY DEF oracleVars, healthy, tryGetPrice, Priced

LEMMA BooksMoveKeeps ==
    ASSUME MarketInv, RebInv', UNCHANGED oracleVars, env'.healthy = env.healthy PROVE MarketInv'
  <1>1. healthy' = healthy
    BY SameHealth
  <1>2. OracleInv' /\ lastGood' = lastGood
    BY DEF oracleVars, OracleInv, MarketInv
  <1> QED BY <1>1, <1>2 DEF MarketInv

LEMMA DeleverageKeeps == ASSUME RebInv, Deleverages PROVE RebInv'
  <1>1. Delev \in Int
    BY RiskAssumption, PlannerTypes DEF RiskAssumption
  <1>2. Balanced(book')
    BY <1>1, RebTypes, DeleveragedBalanced DEF Deleverages
  <1> QED BY <1>2 DEF Deleverages, RebInv

LEMMA MarketNext == MarketInv /\ [RiskNext]_riskVars => MarketInv'
  <1> SUFFICES ASSUME MarketInv, [RiskNext]_riskVars PROVE MarketInv'
    OBVIOUS
  <1>0. RebInv
    BY DEF MarketInv
  <1>1. CASE checkpoint \/ pauseDeposits \/ unpauseDeposits \/ UNCHANGED riskVars
    <2>1. UNCHANGED <<oracleVars, book, env, targets, obs, now, lastRebalanceAt>>
      BY <1>1 DEF checkpoint, pauseDeposits, unpauseDeposits, Breakers, riskVars, vars
    <2> QED BY <1>0, <2>1, BooksMoveKeeps DEF RebInv
  <1>2. CASE Upkeep
    <2>1. UNCHANGED <<oracleVars, env>>
      BY <1>2 DEF Upkeep, performUpkeep
    <2> QED BY <1>0, <1>2, <2>1, UpkeepKeeps, BooksMoveKeeps DEF Upkeep
  <1>3. CASE Invest
    <2>1. UNCHANGED <<oracleVars, env>>
      BY <1>3 DEF Invest, Deposit
    <2> QED BY <1>0, <1>3, <2>1, DepositKeeps, BooksMoveKeeps DEF Invest
  <1>4. CASE VenueMoves
    <2>1. UNCHANGED oracleVars
      BY <1>4 DEF VenueMoves
    <2>2. CASE FundingMoves
      <3>1. env'.healthy = env.healthy
        BY <1>0, <2>2 DEF FundingMoves, RebInv, EnvRecord
      <3> QED BY <1>0, <2>1, <2>2, <3>1, MarketKeeps, BooksMoveKeeps
    <2>3. CASE Liquidation
      BY <1>0, <2>1, <2>3, LiquidationKeeps, BooksMoveKeeps DEF Liquidation
    <2>4. CASE Deleverages
      BY <1>0, <2>1, <2>4, DeleverageKeeps, BooksMoveKeeps DEF Deleverages
    <2> QED BY <1>4, <2>2, <2>3, <2>4 DEF VenueMoves
  <1> QED BY <1>1, <1>2, <1>3, <1>4, FeedsMoveKeeps DEF RiskNext

\* A new feed answers.
LEMMA NewFeedIsOk == ASSUME NEW p PROVE _readFeed(NewFeed(p)) = "OK"
  <1> DEFINE f == NewFeed(p)
  <1>1. PICK i \in 1..7 : FirstFailed(Checks(f), i) /\ _readFeed(f) = Checks(f)[i].status
    BY FirstCheck
  <1>2. ~deviates(f) /\ ~stale(f)
    BY OracleAssumption DEF deviates, stale, NewFeed
  <1>3. /\ ~Checks(f)[1].failed /\ ~Checks(f)[2].failed /\ ~Checks(f)[3].failed
        /\ ~Checks(f)[4].failed /\ ~Checks(f)[5].failed /\ ~Checks(f)[6].failed
    BY <1>2 DEF Checks, NewFeed
  <1>4. i = 7
    BY <1>1, <1>3 DEF FirstFailed
  <1> QED BY <1>1, <1>4 DEF Checks

LEMMA MarketInit == RiskInit => MarketInv
  <1> SUFFICES ASSUME RiskInit PROVE MarketInv
    OBVIOUS
  <1>1. PICK p \in MarketPrices : feed = [f \in Feeds |-> NewFeed(p)] /\ lastGood = [price |-> p, at |-> 0]
    BY DEF RiskInit
  <1>2. NewFeed(p) \in FeedRecord /\ Traced(NewFeed(p)) /\ NewFeed(p).answer = p
    BY DEF NewFeed, FeedRecord, Traced, Forms
  <1>3. OracleInv /\ lastGood.price \in MarketPrices
    BY <1>1, <1>2 DEF RiskInit, OracleInv
  <1>4. feed["primary"] = NewFeed(p) /\ mark = p /\ p \in Nat \ {0}
    BY <1>1, <1>2, OracleAssumption DEF Feeds, mark
  <1>5. healthy
    <2>1. _readFeed(feed["primary"]) = "OK" /\ ~shutdown
      BY <1>4, NewFeedIsOk DEF RiskInit
    <2> QED BY <2>1 DEF healthy, usable, tryGetPrice, Priced
  <1>6. PICK f \in Fundings, l \in Liquidity :
           env = [price |-> mark, mark |-> mark, healthy |-> TRUE, feed |-> TRUE, lending |-> TRUE,
                  dex |-> TRUE, paused |-> FALSE, liquid |-> l, funding |-> f]
    BY DEF RiskInit
  <1>7. f \in Int /\ l \in [usdc : Int, weth : Int] /\ Capital \in Int
    BY RebalanceAssumption
  <1>8. env \in EnvRecord /\ env.healthy = TRUE
    BY <1>4, <1>6, <1>7 DEF EnvRecord
  <1>9. Balanced(book)
    <2> DEFINE b == onCapitalReceived(EmptyBook(Capital), env, Capital)
    <2>1. Balanced(b)
      BY <1>7, EmptyBalanced, ReceivedCall
    <2>2. OpenPlan \in Plan
      BY RiskAssumption DEF RiskAssumption, Plan
    <2>3. book = executeRebalance(b, env, OpenPlan)
      BY DEF RiskInit, Opened
    <2> HIDE DEF b
    <2> QED BY <1>8, <2>1, <2>2, <2>3, EnvRecordEnv, RebalanceCall
  <1>10. now \in Nat /\ lastRebalanceAt \in Nat
    <2>1. lastRebalanceAt = Params.minInterval + 1 /\ now = lastRebalanceAt + Params.minInterval
      BY DEF RiskInit
    <2>2. Params.minInterval \in Nat
      BY PlannerTypes
    <2> QED BY <2>1, <2>2
  <1>11. obs \in Observation
    <2>1. obs = [FirstObservation EXCEPT !.price = mark, !.at = lastRebalanceAt]
      BY DEF RiskInit
    <2>2. FirstObservation.var \in Int
      BY FirstType DEF Observation
    <2>3. obs = [var |-> FirstObservation.var, price |-> mark, at |-> lastRebalanceAt]
      <3> DEFINE v == (((Params.volRef * Params.volRef) \div BPS) * VarUnit) \div BPS
      <3>1. FirstObservation = [var |-> v, price |-> 0, at |-> 0]
        BY DEF FirstObservation
      <3> HIDE DEF v
      <3> QED BY <2>1, <3>1
    <2> QED BY <1>4, <1>10, <2>2, <2>3 DEF Observation
  <1>12. targets \in TargetSets
    BY DEF RiskInit
  <1> QED BY <1>3, <1>5, <1>8, <1>9, <1>10, <1>11, <1>12 DEF MarketInv, RebInv

-----------------------------------------------------------------------------
LEMMA ConfigTypes ==
    /\ \A m \in HigherIsWorse \cup LowerIsWorse :
          /\ Config[m].warn \in Nat /\ Config[m].high \in Nat
          /\ Config[m].critical \in Nat /\ Config[m].critical <= Infinite
    /\ Limits.leverage = Config["LEVERAGE"].high /\ Limits.delta = Config["DELTA"].high
    /\ Limits.liquidationWarn = Config["LIQUIDATION"].warn
  <1>1. \A m \in HigherIsWorse \cup LowerIsWorse : Config[m] \in [warn : Nat, high : Nat, critical : 0..Infinite]
    BY RiskAssumption DEF RiskAssumption
  <1>2. \A m \in HigherIsWorse \cup LowerIsWorse :
          /\ Config[m].warn \in Nat /\ Config[m].high \in Nat
          /\ Config[m].critical \in Nat /\ Config[m].critical <= Infinite
    <2> TAKE m \in HigherIsWorse \cup LowerIsWorse
    <2> DEFINE c == Config[m]
    <2>1. c \in [warn : Nat, high : Nat, critical : 0..Infinite]
      BY <1>1
    <2> HIDE DEF c
    <2>2. c.warn \in Nat /\ c.high \in Nat /\ c.critical \in 0..Infinite
      BY <2>1
    <2>3. Infinite \in Nat
      BY DEF Infinite
    <2>4. c.critical \in Nat /\ c.critical <= Infinite
      BY <2>2, <2>3
    <2> QED BY <2>2, <2>4 DEF c
  <1>3. /\ Limits.leverage = Config["LEVERAGE"].high /\ Limits.delta = Config["DELTA"].high
        /\ Limits.liquidationWarn = Config["LIQUIDATION"].warn
    BY RiskAssumption DEF RiskAssumption, ValidConfig
  <1> QED BY <1>2, <1>3

(* The assessment of the books, metric by metric. *)
LEMMA AssessIs ==
    LET s == snapshot(book, env)
        m == assess.metrics
        ls == levels(s, m)
    IN  /\ m.LEVERAGE = _leverage(s) /\ m.DELTA = absDeltaBps(s)
        /\ m.LIQUIDATION = liquidationDistance(s) /\ m.COLLATERAL = collateralRatio(s)
        /\ assess.state \in Levels
        /\ \A f \in Flags : ls[f] <= assess.state
        /\ \E f \in Flags : ls[f] = assess.state
        /\ ls["LEVERAGE"] = _higherWorse(m.LEVERAGE, Config["LEVERAGE"])
        /\ ls["DELTA"] = _higherWorse(m.DELTA, Config["DELTA"])
        /\ ls["DRAWDOWN"] = _higherWorse(m.DRAWDOWN, Config["DRAWDOWN"])
        /\ ls["LIQUIDATION"] = _lowerWorse(m.LIQUIDATION, Config["LIQUIDATION"])
        /\ ls["COLLATERAL"] = _lowerWorse(m.COLLATERAL, Config["COLLATERAL"])
        /\ ls["EXPOSURE"] # EMERGENCY /\ ls["FUNDING"] # EMERGENCY
        /\ ls["POSITION_SIZE"] # EMERGENCY /\ ls["ORACLE"] # EMERGENCY
        /\ ls["ORACLE"] = highRiskIf(~s.priceHealthy /\ (s.longQty > 0 \/ s.perpSize # 0))
  <1> DEFINE s == snapshot(book, env)
             m == _fillMetrics(s, sharePrice, Max2(peakSharePrice, sharePrice))
             ls == levels(s, m)
  <1>1. assess = Assessed(s, m)
    BY DEF assess, _assessAt
  <1>2. /\ m.LEVERAGE = _leverage(s) /\ m.DELTA = absDeltaBps(s)
        /\ m.LIQUIDATION = liquidationDistance(s) /\ m.COLLATERAL = collateralRatio(s)
    BY DEF _fillMetrics
  <1> HIDE DEF s, m
  <1>3. /\ assess.state \in Levels /\ assess.metrics = m
        /\ \A f \in Flags : ls[f] <= assess.state
        /\ \E f \in Flags : ls[f] = assess.state
    BY <1>1, AssessedState
  <1>4. /\ ls["LEVERAGE"] = _higherWorse(m.LEVERAGE, Config["LEVERAGE"])
        /\ ls["DELTA"] = _higherWorse(m.DELTA, Config["DELTA"])
        /\ ls["DRAWDOWN"] = _higherWorse(m.DRAWDOWN, Config["DRAWDOWN"])
        /\ ls["LIQUIDATION"] = _lowerWorse(m.LIQUIDATION, Config["LIQUIDATION"])
        /\ ls["COLLATERAL"] = _lowerWorse(m.COLLATERAL, Config["COLLATERAL"])
        /\ ls["EXPOSURE"] = Min2(_higherWorse(m.EXPOSURE, Config["EXPOSURE"]), WARNING)
        /\ ls["FUNDING"] = fundingLevel(s, m.FUNDING)
        /\ ls["POSITION_SIZE"] = highRiskIf(s.shortNotional > Limits.notional)
        /\ ls["ORACLE"] = highRiskIf(~s.priceHealthy /\ (s.longQty > 0 \/ s.perpSize # 0))
    BY DEF levels
  <1> HIDE DEF ls
  <1>5. /\ ls["EXPOSURE"] # EMERGENCY /\ ls["FUNDING"] # EMERGENCY
        /\ ls["POSITION_SIZE"] # EMERGENCY /\ ls["ORACLE"] # EMERGENCY
    BY <1>4 DEF _higherWorse, Min2, fundingLevel, highRiskIf, NORMAL, WARNING, HIGH_RISK, EMERGENCY
  <1> QED BY <1>2, <1>3, <1>4, <1>5 DEF s, m, ls

\* A state that is at least a level of one of the metrics.
LEMMA StateAtLeast ==
    ASSUME NEW f \in Flags, NEW x \in Levels, x <= levels(snapshot(book, env), assess.metrics)[f]
    PROVE  assess.state >= x /\ (x = EMERGENCY => assess.state = EMERGENCY)
  <1>1. /\ levels(snapshot(book, env), assess.metrics)[f] <= assess.state
        /\ levels(snapshot(book, env), assess.metrics)[f] \in Levels /\ assess.state \in Levels
    BY AssessIs, LevelTypes
  <1> QED BY <1>1, LevelNat DEF EMERGENCY

-----------------------------------------------------------------------------
(* What the page shows of the assessment and of the oracle. *)
LEMMA ViewIs ==
    /\ riskView.state = assess.state /\ riskView.metrics = metricRows(assess.metrics)
    /\ RiskStateCard(riskView).current = assess.state
    /\ RiskStateCard(riskView).rows = metricRows(assess.metrics)
    /\ "crit" \in SideCards(riskView).oracle => ~healthy
  <1>1. /\ riskView.state = assess.state /\ riskView.metrics = metricRows(assess.metrics)
        /\ riskView.flags = assess.flags
        /\ riskView.oracle.status = tryGetPrice.status /\ riskView.oracle.shutdown = shutdown
    BY DEF riskView, riskViewOf
  <1>2. /\ RiskStateCard(riskView).current = assess.state
        /\ RiskStateCard(riskView).rows = metricRows(assess.metrics)
    BY <1>1 DEF RiskStateCard
  <1>3. "crit" \in SideCards(riskView).oracle => tryGetPrice.status \notin {"OK", "FALLBACK"} \/ shutdown
    BY <1>1 DEF SideCards
  <1>4. shutdown => tryGetPrice.status = "SHUTDOWN"
    BY DEF tryGetPrice, Priced
  <1>5. healthy <=> tryGetPrice.status \in {"OK", "FALLBACK"}
    BY DEF healthy, usable
  <1> QED BY <1>1, <1>2, <1>3, <1>4, <1>5

(* What the venue sees of a short that it may liquidate. *)
LEMMA LiquidatedMeans ==
    ASSUME NEW b, Balanced(b), NEW e, Env(e), Liquidated(b, e).ok
    PROVE  /\ e.feed /\ b.size # 0
           /\ equity(b, e.mark) < marginReq(b.size, e.mark, MMR)
  <1> DEFINE s == Settled(b, e)
             f == Filled(s, -s.size, e.mark)
             penalty == Min2((notional(s.size, e.mark) * PENALTY) \div BPS, Pos(f.margin))
             left == f.margin - penalty
             o == /\ f.ok /\ e.feed /\ b.size # 0
                  /\ equity(s, e.mark) < marginReq(s.size, e.mark, MMR)
  <1>1. Balanced(s) /\ s.size \in Int /\ -s.size \in Int /\ e.mark \in Int /\ b \in Book
    BY SettledBalanced, BalancedTypes, EnvTypes
  <1>2. f \in Book
    BY <1>1, FilledBalanced, BalancedTypes
  <1>3. Liquidated(b, e) = [f EXCEPT !.margin = Pos(left), !.penalties = @ + penalty,
                                     !.badDebt = @ + Pos(-left), !.ok = o]
    BY DEF Liquidated
  <1>4. s.size = b.size /\ s.entry = b.entry /\ s.margin = b.margin + b.pending /\ s.pending = 0
    BY <1>1 DEF Settled, Book
  <1>5. equity(s, e.mark) = equity(b, e.mark)
    <2>1. pnl(b.size, b.entry, e.mark) \in Int /\ b.margin \in Int /\ b.pending \in Int
      BY EquityInt, BalancedTypes
    <2> QED BY <1>4, <2>1 DEF equity
  <1> HIDE DEF f, penalty, left, o
  <1>6. Liquidated(b, e).ok = o
    BY <1>2, <1>3 DEF Book
  <1> HIDE DEF s
  <1> QED BY <1>4, <1>5, <1>6 DEF o

LEMMA MarginReqNat ==
    ASSUME NEW size \in Int, NEW q \in Nat
    PROVE  /\ marginReq(size, q, MMR) \in Nat
           /\ MMR > 0 /\ notional(size, q) > 0 => marginReq(size, q, MMR) > 0
  <1> DEFINE n == notional(size, q)
             x == n * MMR
  <1>1. BPS \in Nat \ {0} /\ MMR \in Nat
    BY BookAssumption, Ratios
  <1>2. n \in Nat
    <2>1. abs(size) \in Nat
      BY AbsInt
    <2> QED BY <2>1, QType, MulDivNat DEF notional, Q
  <1> HIDE DEF n
  <1>3. x \in Nat /\ (MMR > 0 /\ n > 0 => x > 0)
    BY <1>1, <1>2, MulNat, MulPos
  <1>4. marginReq(size, q, MMR) = CeilDiv(x, BPS)
    BY DEF marginReq, n
  <1> HIDE DEF x
  <1>5. CeilDiv(x, BPS) \in Nat /\ (x > 0 => CeilDiv(x, BPS) > 0)
    BY <1>1, <1>3 DEF CeilDiv
  <1> QED BY <1>3, <1>4, <1>5 DEF n

\* A short below what it needs has less equity than its maintenance margin, or
\* none at all.
LEMMA LiquidatableHolds ==
    ASSUME MarketInv, SharpConfig PROVE LiquidatableIsEmergency(riskView)
  <1> DEFINE s == snapshot(book, env)
             mm == marginReq(book.size, env.mark, MMR)
             own == equity(book, env.mark)
  <1> SUFFICES ASSUME Liquidated(book, env).ok PROVE assess.state = EMERGENCY
    BY ViewIs DEF LiquidatableIsEmergency
  <1>1. Balanced(book) /\ Env(env)
    BY RebTypes DEF MarketInv
  <1>2. env.feed /\ book.size # 0 /\ own < mm
    BY <1>1, LiquidatedMeans
  <1>3. s.perpSize = book.size /\ s.perpEquity = Pos(own) /\ s.maintenanceMargin = mm
    BY <1>1, <1>2, SnapshotTypes DEF rawEquity, readMark
  <1>4. own \in Int /\ mm \in Nat
    BY <1>1, EquityInt, BalancedTypes, EnvTypes, MarginReqNat
  <1>5. BPS \in Nat \ {0}
    BY Ratios
  <1>6. /\ Config["LEVERAGE"].critical <= Infinite /\ Config["LEVERAGE"].critical \in Nat
        /\ Config["COLLATERAL"].critical \in Nat /\ Config["COLLATERAL"].critical >= BPS
    BY ConfigTypes DEF SharpConfig, HigherIsWorse, LowerIsWorse
  <1> HIDE DEF s, mm, own
  <1>7. CASE mm = 0
    <2>1. Pos(own) = 0
      BY <1>2, <1>4, <1>7 DEF Pos
    <2>2. assess.metrics.LEVERAGE = Infinite
      BY <1>2, <1>3, <2>1, AssessIs DEF _leverage, s
    <2>3. _higherWorse(assess.metrics.LEVERAGE, Config["LEVERAGE"]) = EMERGENCY
      BY <1>6, <2>2 DEF _higherWorse, Infinite
    <2>4. levels(snapshot(book, env), assess.metrics)["LEVERAGE"] = EMERGENCY
      BY <2>3, AssessIs
    <2> QED BY <2>4, StateAtLeast DEF Flags, Levels, EMERGENCY
  <1>8. CASE mm # 0
    <2>1. Pos(own) \in Nat /\ Pos(own) < mm
      BY <1>2, <1>4, <1>8 DEF Pos
    <2>2. Pos(own) * BPS \in Nat /\ mm * BPS \in Nat /\ Pos(own) * BPS <= mm * BPS
      BY <1>4, <1>5, <2>1, MulNat, MulMono
    <2>3. (mm * BPS) \div mm = BPS
      BY <1>4, <1>5, <1>8
    <2>4. (Pos(own) * BPS) \div mm \in Nat /\ (Pos(own) * BPS) \div mm <= BPS
      BY <1>4, <1>8, <2>2, <2>3, DivMono, DivNat
    <2>5. assess.metrics.COLLATERAL = (Pos(own) * BPS) \div mm
      BY <1>3, <1>8, AssessIs DEF collateralRatio, s
    <2>6. _lowerWorse(assess.metrics.COLLATERAL, Config["COLLATERAL"]) = EMERGENCY
      BY <1>5, <1>6, <2>4, <2>5 DEF _lowerWorse
    <2>7. levels(snapshot(book, env), assess.metrics)["COLLATERAL"] = EMERGENCY
      BY <2>6, AssessIs
    <2> QED BY <2>7, StateAtLeast DEF Flags, Levels, EMERGENCY
  <1> QED BY <1>7, <1>8

-----------------------------------------------------------------------------
LEMMA SignedInt ==
    ASSUME NEW a \in Int, NEW b \in Int, NEW d \in Nat \ {0} PROVE mulDivSigned(a, b, d) \in Int
  BY AbsInt, MulDivInt DEF mulDivSigned

LEMMA DeltaInt ==
    ASSUME NEW b, Balanced(b), NEW e, Env(e) PROVE absDeltaBps(snapshot(b, e)) \in Int
  <1> DEFINE s == snapshot(b, e)
  <1>1. s.totalNav \in Int /\ s.perpSize = b.size /\ s.price = e.price /\ s.longQty = wethHeld(b, e)
    BY SnapshotTypes DEF SnapshotNumbers
  <1>2. s.longQty + s.perpSize \in Int /\ s.price \in Int /\ BPS \in Int
    BY <1>1, BalancedTypes, HeldInt, EnvTypes, Ratios
  <1> HIDE DEF s
  <1>3. netDeltaUsd(s) \in Int
    BY <1>2, QType, SignedInt DEF netDeltaUsd
  <1>4. ASSUME s.totalNav > 0 PROVE abs(mulDivSigned(netDeltaUsd(s), BPS, s.totalNav)) \in Int
    <2>1. s.totalNav \in Nat \ {0}
      BY <1>1, <1>4
    <2>2. mulDivSigned(netDeltaUsd(s), BPS, s.totalNav) \in Int
      BY <1>2, <1>3, <2>1, SignedInt
    <2>3. \A n \in Nat : n \in Int
      OBVIOUS
    <2> QED BY <2>2, <2>3, AbsInt
  <1> QED BY <1>1, <1>4 DEF absDeltaBps, s

\* What urges the planner is at least a warning: both read one configuration.
LEMMA UrgentHolds == ASSUME MarketInv, MetricsAreFinite PROVE UrgentIsWarned(riskView)
  <1> DEFINE s == snapshot(book, env)
             c == contextOf(book, env, targets, annualizedVolBps(obs, env, now))
             w == withdrawable(book.usdc, env.liquid.usdc)
             p == planWith(obs)
             T == fired(s, c)
             ls == levels(s, assess.metrics)
  <1>0. p = previewRebalance
    BY DEF previewRebalance
  <1> HIDE DEF p
  <1> SUFFICES ASSUME p.urgent PROVE assess.state >= WARNING
    BY <1>0, ViewIs DEF UrgentIsWarned
  <1> USE DEF p
  <1>1. /\ SnapshotNumbers(s) /\ ContextNumbers(c) /\ w \in Int /\ cooling \in BOOLEAN
        /\ p = IF ~env.healthy \/ s.totalNav <= 0 \/ env.paused THEN NoPlan ELSE PlanIn(s, c, w, cooling)
    BY RebTypes, PlanWithForm DEF RebInv, MarketInv
  <1>2. /\ c.curLev = _leverage(s) /\ c.absDelta = absDeltaBps(s) /\ c.liqDist = liquidationDistance(s)
    <2>1. annualizedVolBps(obs, env, now) \in Nat /\ targets \in Targets
      BY RebTypes, VolNat DEF RebInv, MarketInv
    <2> QED BY <1>1, <2>1, ContextTypes DEF contextOf
  <1>3. /\ assess.metrics.LEVERAGE = _leverage(s) /\ assess.metrics.DELTA = absDeltaBps(s)
        /\ assess.metrics.LIQUIDATION = liquidationDistance(s)
        /\ ls["LEVERAGE"] = _higherWorse(assess.metrics.LEVERAGE, Config["LEVERAGE"])
        /\ ls["DELTA"] = _higherWorse(assess.metrics.DELTA, Config["DELTA"])
        /\ ls["LIQUIDATION"] = _lowerWorse(assess.metrics.LIQUIDATION, Config["LIQUIDATION"])
    BY AssessIs
  <1>4. /\ Limits.leverage = Config["LEVERAGE"].high /\ Limits.delta = Config["DELTA"].high
        /\ Limits.liquidationWarn = Config["LIQUIDATION"].warn
    BY ConfigTypes
  <1>5. \A x \in {"LEVERAGE", "DELTA", "LIQUIDATION"} : ls[x] >= WARNING => assess.state >= WARNING
    BY StateAtLeast DEF Flags, Levels
  <1>11. /\ _leverage(s) \in Int /\ absDeltaBps(s) \in Int /\ liquidationDistance(s) \in Int
         /\ Config["LEVERAGE"].high \in Int /\ Config["DELTA"].high \in Int /\ Config["LIQUIDATION"].warn \in Int
    <2>1. _leverage(s) \in Int
      BY <1>1, LeverageNat
    <2>2. absDeltaBps(s) \in Int
      BY RebTypes, DeltaInt DEF MarketInv
    <2>3. liquidationDistance(s) \in Int
      BY <1>3 DEF MetricsAreFinite
    <2> HIDE DEF s
    <2> QED BY <2>1, <2>2, <2>3, ConfigTypes DEF HigherIsWorse, LowerIsWorse
  <1> HIDE DEF s, c, w, p, T, ls
  <1>6. p # NoPlan /\ p = PlanIn(s, c, w, cooling)
    BY <1>1, NoPlanForm
  <1>7. isUrgent(c, T)
    BY <1>1, <1>6, PlanForms DEF T
  <1>8. CASE "LIQUIDATION" \in T
    <2>1. c.liqDist < Limits.liquidationWarn
      BY <1>8, FiredTriggers DEF T
    <2>2. assess.metrics.LIQUIDATION <= Config["LIQUIDATION"].warn
      BY <1>2, <1>3, <1>4, <1>11, <2>1
    <2>3. _lowerWorse(assess.metrics.LIQUIDATION, Config["LIQUIDATION"]) >= WARNING
      BY <2>2 DEF _lowerWorse, WARNING, HIGH_RISK, EMERGENCY
    <2> QED BY <1>3, <1>5, <2>3
  <1>9. CASE c.curLev > Limits.leverage
    <2>1. assess.metrics.LEVERAGE >= Config["LEVERAGE"].high
      BY <1>2, <1>3, <1>4, <1>9, <1>11
    <2>2. _higherWorse(assess.metrics.LEVERAGE, Config["LEVERAGE"]) >= WARNING
      BY <2>1 DEF _higherWorse, WARNING, HIGH_RISK, EMERGENCY
    <2> QED BY <1>3, <1>5, <2>2
  <1>10. CASE c.absDelta > Limits.delta
    <2>1. assess.metrics.DELTA >= Config["DELTA"].high
      BY <1>2, <1>3, <1>4, <1>10, <1>11
    <2>2. _higherWorse(assess.metrics.DELTA, Config["DELTA"]) >= WARNING
      BY <2>1 DEF _higherWorse, WARNING, HIGH_RISK, EMERGENCY
    <2> QED BY <1>3, <1>5, <2>2
  <1> QED BY <1>7, <1>8, <1>9, <1>10 DEF isUrgent

\* What the page calls critical the assessment takes for unpriced.
LEMMA UnpricedHolds == ASSUME MarketInv PROVE UnpricedIsShown(riskView)
  <1> DEFINE s == snapshot(book, env)
             ls == levels(s, assess.metrics)
  <1> SUFFICES ASSUME wethHeld(book, env) > 0 \/ book.size # 0, ~healthy
               PROVE  assess.state >= HIGH_RISK
    BY ViewIs DEF UnpricedIsShown
  <1>1. Balanced(book) /\ Env(env) /\ env.healthy = healthy
    BY RebTypes DEF MarketInv
  <1>2. s.priceHealthy = env.healthy /\ s.longQty = wethHeld(book, env) /\ s.perpSize = book.size
    BY <1>1, SnapshotTypes
  <1>3. ls["ORACLE"] = highRiskIf(~s.priceHealthy /\ (s.longQty > 0 \/ s.perpSize # 0))
    BY AssessIs
  <1>4. "ORACLE" \in Flags /\ HIGH_RISK \in Levels
    BY DEF Flags, Levels
  <1> HIDE DEF s
  <1>5. ls["ORACLE"] = HIGH_RISK
    BY <1>1, <1>2, <1>3 DEF highRiskIf
  <1>6. HIGH_RISK <= ls["ORACLE"]
    BY <1>5 DEF HIGH_RISK
  <1> QED BY <1>4, <1>6, StateAtLeast DEF s

LEMMA RowsAre ==
    ASSUME NEW m
    PROVE  LET rows == metricRows(m)
           IN  /\ {"LEVERAGE", "DELTA", "DRAWDOWN", "LIQUIDATION", "COLLATERAL"} \subseteq DOMAIN rows
               /\ m.LEVERAGE # Infinite => rows["LEVERAGE"] = _higherWorse(m.LEVERAGE, Config["LEVERAGE"])
               /\ m.DELTA # Infinite => rows["DELTA"] = _higherWorse(m.DELTA, Config["DELTA"])
               /\ m.DRAWDOWN # Infinite => rows["DRAWDOWN"] = _higherWorse(m.DRAWDOWN, Config["DRAWDOWN"])
               /\ m.LIQUIDATION # Infinite => rows["LIQUIDATION"] = _lowerWorse(m.LIQUIDATION, Config["LIQUIDATION"])
               /\ m.COLLATERAL # Infinite => rows["COLLATERAL"] = _lowerWorse(m.COLLATERAL, Config["COLLATERAL"])
  BY DEF metricRows, badge

\* Five metrics can be an emergency; the one that is has its row, but for an
\* infinite leverage, which the ratio of the margin tells.
LEMMA EmergencyHolds ==
    ASSUME MarketInv, SharpConfig, MetricsAreFinite PROVE EmergencyIsExplained(riskView)
  <1> DEFINE s == snapshot(book, env)
             m == assess.metrics
             ls == levels(s, m)
             rows == metricRows(m)
  <1> SUFFICES ASSUME notional(book.size, readMark(env)) > 0, assess.state = EMERGENCY
               PROVE  \E x \in DOMAIN rows : rows[x] = EMERGENCY
    BY ViewIs DEF EmergencyIsExplained
  <1>1. Balanced(book) /\ Env(env)
    BY RebTypes DEF MarketInv
  <1>2. /\ SnapshotNumbers(s) /\ s.perpSize = book.size
        /\ s.maintenanceMargin = marginReq(book.size, readMark(env), MMR)
    BY <1>1, SnapshotTypes
  <1>3. s.maintenanceMargin \in Nat /\ s.maintenanceMargin > 0
    BY <1>1, <1>2, BalancedTypes, ReadTypes, MarginReqNat DEF SharpConfig
  <1>4. /\ Config["COLLATERAL"].critical \in Nat /\ Config["COLLATERAL"].critical < Infinite
        /\ Config["LIQUIDATION"].critical \in Nat /\ Config["LIQUIDATION"].critical < Infinite
    BY ConfigTypes DEF SharpConfig, LowerIsWorse
  <1>5. /\ m.DELTA # Infinite /\ m.DRAWDOWN # Infinite /\ (s.perpEquity # 0 => m.LEVERAGE # Infinite)
    BY DEF MetricsAreFinite
  <1>6. /\ m.LEVERAGE = _leverage(s) /\ m.LIQUIDATION = liquidationDistance(s) /\ m.COLLATERAL = collateralRatio(s)
        /\ ls["LEVERAGE"] = _higherWorse(m.LEVERAGE, Config["LEVERAGE"])
        /\ ls["DELTA"] = _higherWorse(m.DELTA, Config["DELTA"])
        /\ ls["DRAWDOWN"] = _higherWorse(m.DRAWDOWN, Config["DRAWDOWN"])
        /\ ls["LIQUIDATION"] = _lowerWorse(m.LIQUIDATION, Config["LIQUIDATION"])
        /\ ls["COLLATERAL"] = _lowerWorse(m.COLLATERAL, Config["COLLATERAL"])
        /\ ls["EXPOSURE"] # EMERGENCY /\ ls["FUNDING"] # EMERGENCY
        /\ ls["POSITION_SIZE"] # EMERGENCY /\ ls["ORACLE"] # EMERGENCY
        /\ \E f \in Flags : ls[f] = EMERGENCY
    BY AssessIs
  <1>7. /\ {"LEVERAGE", "DELTA", "DRAWDOWN", "LIQUIDATION", "COLLATERAL"} \subseteq DOMAIN rows
        /\ m.LEVERAGE # Infinite => rows["LEVERAGE"] = _higherWorse(m.LEVERAGE, Config["LEVERAGE"])
        /\ m.DELTA # Infinite => rows["DELTA"] = _higherWorse(m.DELTA, Config["DELTA"])
        /\ m.DRAWDOWN # Infinite => rows["DRAWDOWN"] = _higherWorse(m.DRAWDOWN, Config["DRAWDOWN"])
        /\ m.LIQUIDATION # Infinite => rows["LIQUIDATION"] = _lowerWorse(m.LIQUIDATION, Config["LIQUIDATION"])
        /\ m.COLLATERAL # Infinite => rows["COLLATERAL"] = _lowerWorse(m.COLLATERAL, Config["COLLATERAL"])
    BY RowsAre
  <1> HIDE DEF s, m, ls, rows
  <1>8. CASE ls["LEVERAGE"] = EMERGENCY
    <2>1. CASE s.perpEquity # 0
      BY <1>5, <1>6, <1>7, <1>8, <2>1
    <2>2. CASE s.perpEquity = 0
      <3>1. m.COLLATERAL = 0
        <4>1. (0 * BPS) \div s.maintenanceMargin = 0
          BY <1>3, Ratios
        <4> QED BY <1>3, <1>6, <2>2, <4>1 DEF collateralRatio
      <3>2. _lowerWorse(m.COLLATERAL, Config["COLLATERAL"]) = EMERGENCY /\ m.COLLATERAL # Infinite
        BY <1>4, <3>1 DEF _lowerWorse, Infinite
      <3> QED BY <1>7, <3>2
    <2> QED BY <2>1, <2>2
  <1>9. CASE ls["DELTA"] = EMERGENCY
    BY <1>5, <1>6, <1>7, <1>9
  <1>10. CASE ls["DRAWDOWN"] = EMERGENCY
    BY <1>5, <1>6, <1>7, <1>10
  <1>11. /\ _lowerWorse(Infinite, Config["LIQUIDATION"]) # EMERGENCY
         /\ _lowerWorse(Infinite, Config["COLLATERAL"]) # EMERGENCY
    <2>1. \A t : t.critical \in Nat /\ t.critical < Infinite => _lowerWorse(Infinite, t) # EMERGENCY
      BY DEF _lowerWorse, Infinite, NORMAL, WARNING, HIGH_RISK, EMERGENCY
    <2> QED BY <1>4, <2>1
  <1>13. CASE ls["LIQUIDATION"] = EMERGENCY
    <2>1. m.LIQUIDATION # Infinite
      BY <1>6, <1>11, <1>13
    <2> QED BY <1>6, <1>7, <1>13, <2>1
  <1>14. CASE ls["COLLATERAL"] = EMERGENCY
    <2>1. m.COLLATERAL # Infinite
      BY <1>6, <1>11, <1>14
    <2> QED BY <1>6, <1>7, <1>14, <2>1
  <1> QED BY <1>6, <1>8, <1>9, <1>10, <1>13, <1>14 DEF Flags

\* What the venue may liquidate, what urges the planner and what nobody can
\* price is known to the assessment and shown on the page, for every market,
\* every history of the feeds and every configuration that is sharp.
THEOREM DangerIsAssessedHolds ==
    ASSUME SharpConfig PROVE RiskSpec => [](MetricsAreFinite => DangerIsAssessed)
  <1>1. ASSUME MarketInv, MetricsAreFinite PROVE DangerIsAssessed
    BY <1>1, LiquidatableHolds, UrgentHolds, UnpricedHolds, EmergencyHolds DEF DangerIsAssessed, DangerIsIn
  <1>2. MarketInv => (MetricsAreFinite => DangerIsAssessed)
    BY <1>1
  <1> QED BY MarketInit, MarketNext, <1>2, PTL DEF RiskSpec
=============================================================================
