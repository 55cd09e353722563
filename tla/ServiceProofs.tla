---------------------------- MODULE ServiceProofs ----------------------------
(***************************************************************************)
(* Proofs about the services the strategy relies on: the lending venue, the *)
(* roles and the emergency controller, and the four processes behind the   *)
(* API, which are the keeper, the alert monitor, the snapshot writer and   *)
(* the event indexer.  Each has an inductive invariant of its own; the     *)
(* chapters do not depend on one another.                                  *)
(***************************************************************************)
EXTENDS LendingMarket, EmergencyController, Keeper, Alerts, Snapshots, Indexer,
        SequenceTheorems, FiniteSetTheorems, TLAPS

-----------------------------------------------------------------------------
(***************************************************************************)
(* The lending venue, for every rate model, scale, amount and number of    *)
(* suppliers; the roles and the emergency controller.                      *)
(***************************************************************************)

-----------------------------------------------------------------------------
(***************************************************************************)
(* Rates and growth.                                                       *)
(***************************************************************************)

LEMMA UtilizationType ==
    ASSUME NEW s \in Nat, NEW d \in Nat PROVE utilization(s, d) \in 0 .. WAD
  <1>1. CASE s = 0
    BY <1>1, UnitsAssumption DEF utilization
  <1>2. CASE s # 0
    <2>1. d * WAD \in Nat
      BY UnitsAssumption, MulNat
    <2>2. (d * WAD) \div s \in Nat
      BY <1>2, <2>1, DivNat
    <2> QED BY <1>2, <2>2, UnitsAssumption DEF utilization, Min2
  <1> QED BY <1>1, <1>2

LEMMA BorrowRateType ==
    ASSUME NEW x \in RateModel, ValidModel(x), NEW u \in 0 .. WAD
    PROVE  borrowRateAt(x, u) \in Nat
  <1>1. /\ x.baseRate \in Nat /\ x.slope1 \in Nat /\ x.slope2 \in Nat
        /\ x.optimalUtilization \in Nat \ {0} /\ WAD - x.optimalUtilization \in Nat \ {0}
        /\ u \in Nat /\ WAD \in Nat \ {0}
    BY UnitsAssumption DEF RateModel, ValidModel
  <1>2. CASE u <= x.optimalUtilization
    <2>1. (x.slope1 * u) \div x.optimalUtilization \in Nat
      BY <1>1, MulNat, DivNat
    <2> QED BY <1>1, <1>2, <2>1 DEF borrowRateAt
  <1>3. CASE ~(u <= x.optimalUtilization)
    <2> DEFINE excess == ((u - x.optimalUtilization) * WAD) \div (WAD - x.optimalUtilization)
    <2>1. u - x.optimalUtilization \in Nat
      BY <1>1, <1>3
    <2>2. excess \in Nat
      BY <1>1, <2>1, MulNat, DivNat
    <2> HIDE DEF excess
    <2>3. (x.slope2 * excess) \div WAD \in Nat
      BY <1>1, <2>2, MulNat, DivNat
    <2> QED BY <1>1, <1>3, <2>3 DEF borrowRateAt, excess
  <1> QED BY <1>2, <1>3

LEMMA SupplyRateType ==
    ASSUME NEW x \in RateModel, ValidModel(x), NEW u \in 0 .. WAD
    PROVE  supplyRateAt(x, u) \in Nat
  <1>1. borrowRateAt(x, u) \in Nat /\ u \in Nat /\ WAD \in Nat \ {0} /\ WAD - x.reserveFactor \in Nat
    BY BorrowRateType, UnitsAssumption DEF ValidModel
  <1>2. (borrowRateAt(x, u) * u) \div WAD \in Nat
    BY <1>1, MulNat, DivNat
  <1> QED BY <1>1, <1>2, MulNat, DivNat DEF supplyRateAt

LEMMA GrownType ==
    ASSUME NEW x \in Nat, NEW rate \in Nat, NEW dt \in Nat
    PROVE  Grown(x, rate, dt) \in Nat /\ Grown(x, rate, dt) >= x
  <1> DEFINE g == (rate * dt) \div YEAR
  <1>1. g \in Nat /\ WAD \in Nat \ {0}
    BY LendingAssumption, UnitsAssumption, MulNat, DivNat
  <1> HIDE DEF g
  <1>2. x * (WAD + g) \in Nat /\ x * WAD <= x * (WAD + g)
    <2>1. x * g \in Nat /\ x * WAD \in Nat /\ x * (WAD + g) = x * WAD + x * g
      BY <1>1, MulNat
    <2> QED BY <2>1
  <1>3. (x * (WAD + g)) \div WAD \in Nat /\ (x * (WAD + g)) \div WAD >= x
    BY <1>1, <1>2, DivNat, DivAtLeast
  <1> QED BY <1>3 DEF Grown, g

-----------------------------------------------------------------------------
(***************************************************************************)
(* Accrual keeps a reserve well formed and solvent.                        *)
(***************************************************************************)

\* The solvency bound before the rounding of totalSupplied: this is inductive.
Solvent(v) == v.totalScaled * v.liquidityIndex <= v.cash * WAD

GoodReserve(v) ==
    /\ v \in Reserve
    /\ v.liquidityIndex >= WAD /\ ValidModel(v.model)
    /\ v.lastUpdate <= now
    /\ Solvent(v)

LInv == TypeOK /\ Solvent(r)

LEMMA ReserveFields ==
    ASSUME NEW v, GoodReserve(v)
    PROVE  /\ v.liquidityIndex \in Nat \ {0} /\ v.totalScaled \in Nat /\ v.totalDebt \in Nat
           /\ v.lastUpdate \in Nat /\ v.model \in RateModel /\ v.cash \in Nat
  BY UnitsAssumption DEF GoodReserve, Reserve

LEMMA UnderlyingType ==
    ASSUME NEW s \in Nat, NEW i \in Nat
    PROVE  Underlying(s, i) \in Nat /\ Underlying(s, i) * WAD <= s * i
  BY UnitsAssumption, MulNat, DivBounds DEF Underlying

LEMMA ProjectedType ==
    ASSUME NEW v, GoodReserve(v), now \in Nat
    PROVE  /\ projectedIndex(v) \in Nat /\ projectedIndex(v) >= v.liquidityIndex
           /\ projectedDebt(v) \in Nat
  <1>1. Elapsed(v) \in Nat
    BY ReserveFields, PosType DEF Elapsed
  <1>2. utilizationOf(v) \in 0 .. WAD
    BY ReserveFields, UnderlyingType, UtilizationType DEF utilizationOf
  <1>3. supplyRateAt(v.model, utilizationOf(v)) \in Nat /\ borrowRateAt(v.model, utilizationOf(v)) \in Nat
    BY <1>2, ReserveFields, SupplyRateType, BorrowRateType DEF GoodReserve
  <1> QED BY <1>1, <1>3, ReserveFields, GrownType DEF projectedIndex, projectedDebt

LEMMA MintedCoversGrowth ==
    ASSUME NEW v, GoodReserve(v), now \in Nat
    PROVE  /\ mintedInterest(v) \in Nat
           /\ v.totalScaled * (projectedIndex(v) - v.liquidityIndex) <= mintedInterest(v) * WAD
  <1>1. v.totalScaled \in Nat /\ projectedIndex(v) - v.liquidityIndex \in Nat
    BY ReserveFields, ProjectedType
  <1> QED BY <1>1, MulNat, CeilBounds, UnitsAssumption DEF mintedInterest

LEMMA AccrueGood ==
    ASSUME NEW v, GoodReserve(v), now \in Nat
    PROVE  GoodReserve(accrue(v)) /\ accrue(v).lastUpdate = now
  <1>1. CASE v.lastUpdate = now
    BY <1>1 DEF accrue
  <1>2. CASE v.lastUpdate # now
    <2> DEFINE w == accrue(v)
    <2>1. w = [v EXCEPT !.liquidityIndex = projectedIndex(v), !.totalDebt = projectedDebt(v),
                        !.lastUpdate = now, !.cash = @ + mintedInterest(v)]
      BY <1>2 DEF accrue
    <2>2. /\ w.liquidityIndex = projectedIndex(v) /\ w.totalDebt = projectedDebt(v)
          /\ w.lastUpdate = now /\ w.cash = v.cash + mintedInterest(v)
          /\ w.totalScaled = v.totalScaled /\ w.model = v.model
      BY <2>1 DEF GoodReserve, Reserve
    <2>3. w \in Reserve
      <3>1. PICK i \in Nat, d \in Nat, c \in Nat :
               i = projectedIndex(v) /\ d = projectedDebt(v) /\ c = v.cash + mintedInterest(v)
        BY ProjectedType, MintedCoversGrowth, ReserveFields
      <3>2. w = [v EXCEPT !.liquidityIndex = i, !.totalDebt = d, !.lastUpdate = now, !.cash = c]
        BY <2>1, <3>1
      <3>3. v \in Reserve
        BY DEF GoodReserve
      <3> HIDE DEF w
      <3> QED BY <3>2, <3>3 DEF Reserve
    <2>4. w.liquidityIndex >= WAD
      BY <2>2, ProjectedType, ReserveFields, UnitsAssumption DEF GoodReserve
    <2> HIDE DEF w
    <2>5. Solvent(w)
      <3>1. PICK s \in Nat, i \in Nat, c \in Nat, j \in Nat, k \in Nat :
               /\ s = v.totalScaled /\ i = v.liquidityIndex /\ c = v.cash
               /\ j = projectedIndex(v) /\ k = mintedInterest(v)
        BY ReserveFields, ProjectedType, MintedCoversGrowth
      <3>2. s * i <= c * WAD /\ s * (j - i) <= k * WAD
        BY <3>1, MintedCoversGrowth DEF GoodReserve, Solvent
      <3>3. s * j = s * i + s * (j - i) /\ (c + k) * WAD = c * WAD + k * WAD
        BY UnitsAssumption
      <3>4. s * j <= (c + k) * WAD
        <4>1. s * i \in Int /\ s * (j - i) \in Int /\ c * WAD \in Int /\ k * WAD \in Int
          BY UnitsAssumption
        <4> QED BY <3>2, <3>3, <4>1
      <3> QED BY <2>2, <3>1, <3>4 DEF Solvent
    <2> QED BY <2>2, <2>3, <2>4, <2>5 DEF GoodReserve, w
  <1> QED BY <1>1, <1>2

LEMMA InvGood == ASSUME LInv PROVE GoodReserve(r) /\ now \in Nat
  BY DEF LInv, TypeOK, GoodReserve

LEMMA AccruedGood == ASSUME LInv PROVE GoodReserve(Accrued) /\ Accrued.lastUpdate = now
  BY InvGood, AccrueGood DEF Accrued

LEMMA BalanceType == ASSUME LInv, NEW u \in Suppliers PROVE balanceOf(u) \in Nat
  BY AccruedGood, ReserveFields, UnderlyingType DEF balanceOf, LInv, TypeOK

LEMMA CheckpointType == ASSUME LInv PROVE checkpointed \in Nat
  <1>1. balanceOf(Adapter) \in Nat /\ ledger.lastBalance \in Nat /\ ledger.interest \in Nat
    BY BalanceType, LendingAssumption DEF LInv, TypeOK
  <1> QED BY <1>1, PosType DEF checkpointed

-----------------------------------------------------------------------------
(***************************************************************************)
(* What a supply and a withdrawal do.                                      *)
(***************************************************************************)

\* The scaled balance minted is worth at most what was paid.
LEMMA MintedWorth ==
    ASSUME NEW i \in Nat \ {0}, NEW a \in Nat
    PROVE  (a * WAD) \div i \in Nat /\ ((a * WAD) \div i) * i <= a * WAD
  <1>1. a * WAD \in Nat
    BY MulNat, UnitsAssumption
  <1> QED BY <1>1, DivBounds

\* The scaled balance burnt is worth at least what is paid out: the cap at the
\* whole balance never cuts it.
LEMMA BurntWorth ==
    ASSUME NEW i \in Nat \ {0}, NEW a \in Nat, NEW s \in Nat, a <= Underlying(s, i)
    PROVE  /\ Min2(CeilDiv(a * WAD, i), s) \in Nat
           /\ Min2(CeilDiv(a * WAD, i), s) <= s
           /\ a * WAD <= Min2(CeilDiv(a * WAD, i), s) * i
  <1>1. a * WAD \in Nat /\ WAD \in Nat
    BY MulNat, UnitsAssumption
  <1>2. a * WAD <= s * i
    <2>1. Underlying(s, i) \in Nat /\ Underlying(s, i) * WAD <= s * i
      BY UnderlyingType
    <2>2. a * WAD <= Underlying(s, i) * WAD
      BY <1>1, <2>1, MulMono
    <2>3. Underlying(s, i) * WAD \in Nat /\ s * i \in Nat
      BY <1>1, <2>1, MulNat
    <2> QED BY <1>1, <2>1, <2>2, <2>3
  <1>3. CeilDiv(a * WAD, i) <= s
    BY <1>1, <1>2, CeilAtMost
  <1>4. CeilDiv(a * WAD, i) \in Nat /\ a * WAD <= CeilDiv(a * WAD, i) * i
    BY <1>1, CeilBounds
  <1> QED BY <1>3, <1>4 DEF Min2

LEMMA UnderlyingAdds ==
    ASSUME NEW s \in Nat, NEW m \in Nat, NEW a \in Nat, NEW i \in Nat, m * i <= a * WAD
    PROVE  Underlying(s + m, i) <= Underlying(s, i) + a
  <1>1. WAD \in Nat \ {0} /\ s * i \in Nat /\ m * i \in Nat /\ (s + m) * i = s * i + m * i
    BY UnitsAssumption, MulNat
  <1> DEFINE q == Underlying(s, i)
  <1>2. q \in Nat /\ s * i < q * WAD + WAD
    BY <1>1, DivBounds DEF Underlying
  <1>3. (s + m) * i < (q + a + 1) * WAD
    <2>1. (q + a + 1) * WAD = q * WAD + a * WAD + WAD /\ q * WAD \in Nat /\ a * WAD \in Nat
      BY <1>1, <1>2
    <2> QED BY <1>1, <1>2, <2>1
  <1>4. Underlying(s + m, i) \in Nat /\ Underlying(s + m, i) * WAD <= (s + m) * i
    <2>1. s + m \in Nat
      OBVIOUS
    <2> QED BY <2>1, UnderlyingType
  <1> HIDE DEF q
  <1>5. SUFFICES ASSUME q + a + 1 <= Underlying(s + m, i) PROVE FALSE
    BY <1>2, <1>4 DEF q
  <1>6. (q + a + 1) * WAD <= Underlying(s + m, i) * WAD
    BY <1>1, <1>2, <1>4, <1>5, MulMono
  <1>7. (q + a + 1) * WAD \in Nat /\ Underlying(s + m, i) * WAD \in Nat /\ (s + m) * i \in Nat
    BY <1>1, <1>2, <1>4, MulNat
  <1> QED BY <1>3, <1>4, <1>6, <1>7

LEMMA UnderlyingSubtracts ==
    ASSUME NEW s \in Nat, NEW b \in Nat, b <= s, NEW a \in Nat, NEW i \in Nat, a * WAD <= b * i
    PROVE  Underlying(s - b, i) + a <= Underlying(s, i)
  <1>1. WAD \in Nat \ {0} /\ s * i \in Nat /\ s - b \in Nat /\ b * i \in Nat
        /\ (s - b) * i = s * i - b * i
    BY UnitsAssumption, MulNat
  <1> DEFINE q == Underlying(s - b, i)
  <1>2. q \in Nat /\ q * WAD <= (s - b) * i
    BY <1>1, UnderlyingType
  <1> HIDE DEF q
  <1>3. (q + a) * WAD <= s * i
    <2>1. (q + a) * WAD = q * WAD + a * WAD /\ q * WAD \in Nat /\ a * WAD \in Nat
      BY <1>1, <1>2
    <2> QED BY <1>1, <1>2, <2>1
  <1>4. Underlying(s, i) >= q + a
    BY <1>1, <1>2, <1>3, DivAtLeast DEF Underlying
  <1> QED BY <1>4, <1>2, UnderlyingType DEF q

\* What one call at the pool leaves behind: a good reserve that has accrued, and
\* balances that moved only with the caller's money.
MovesOwnMoney ==
    \A x \in Suppliers :
       IF net'[x] = net[x] THEN scaledBalanceOf'[x] = scaledBalanceOf[x]
       ELSE Underlying(scaledBalanceOf'[x], Accrued.liquidityIndex)
              - Underlying(scaledBalanceOf[x], Accrued.liquidityIndex) <= net'[x] - net[x]

Called ==
    /\ GoodReserve(r')
    /\ r'.liquidityIndex = Accrued.liquidityIndex /\ r'.lastUpdate = now
    /\ scaledBalanceOf' \in [Suppliers -> Nat]
    /\ net' \in [Suppliers -> Int]
    /\ MovesOwnMoney

LEMMA CalledBySupply ==
    ASSUME LInv, NEW u \in Suppliers, NEW a \in Nat, poolSupply(u, a)
    PROVE  Called
  <1>1. PICK v : v = Accrued
    OBVIOUS
  <1>2. GoodReserve(v) /\ v.lastUpdate = now
    BY <1>1, AccruedGood
  <1>3. PICK i \in Nat \ {0}, m \in Nat : i = v.liquidityIndex /\ m = scaledFor(v, a) /\ m * i <= a * WAD
    BY <1>2, ReserveFields, MintedWorth DEF scaledFor
  <1>4. /\ a > 0
        /\ r' = [v EXCEPT !.cash = @ + a, !.totalScaled = @ + m]
        /\ scaledBalanceOf' = [scaledBalanceOf EXCEPT ![u] = @ + m]
        /\ net' = [net EXCEPT ![u] = @ + a]
    BY <1>1, <1>3 DEF poolSupply
  <1>5. /\ r' \in Reserve /\ r'.liquidityIndex = i /\ r'.lastUpdate = now /\ r'.model = v.model
        /\ r'.totalScaled = v.totalScaled + m /\ r'.cash = v.cash + a
    <2>1. PICK c \in Nat, t \in Nat : c = v.cash + a /\ t = v.totalScaled + m
      BY <1>2, <1>3, <1>4, ReserveFields
    <2>2. r' = [v EXCEPT !.cash = c, !.totalScaled = t]
      BY <2>1, <1>4
    <2>3. v \in Reserve
      BY <1>2 DEF GoodReserve
    <2> QED BY <2>1, <2>2, <2>3, <1>2, <1>3, <1>4 DEF Reserve
  <1>6. Solvent(r')
    <2>1. PICK s \in Nat, c \in Nat : s = v.totalScaled /\ c = v.cash
      BY <1>2, ReserveFields
    <2>2. s * i <= c * WAD
      BY <1>2, <1>3, <2>1 DEF GoodReserve, Solvent
    <2>3. /\ (s + m) * i = s * i + m * i /\ (c + a) * WAD = c * WAD + a * WAD
          /\ s * i \in Int /\ m * i \in Int /\ c * WAD \in Int /\ a * WAD \in Int
      BY UnitsAssumption
    <2>4. (s + m) * i <= (c + a) * WAD
      BY <1>3, <2>2, <2>3
    <2> QED BY <1>5, <2>1, <2>4 DEF Solvent
  <1>7. GoodReserve(r')
    BY <1>2, <1>3, <1>5, <1>6 DEF GoodReserve
  <1>8. scaledBalanceOf \in [Suppliers -> Nat] /\ net \in [Suppliers -> Int]
    BY DEF LInv, TypeOK
  <1>9. scaledBalanceOf' \in [Suppliers -> Nat] /\ net' \in [Suppliers -> Int]
    BY <1>4, <1>8
  <1>10. MovesOwnMoney
    <2>1. SUFFICES ASSUME NEW x \in Suppliers
                   PROVE  IF net'[x] = net[x] THEN scaledBalanceOf'[x] = scaledBalanceOf[x]
                          ELSE Underlying(scaledBalanceOf'[x], i)
                                 - Underlying(scaledBalanceOf[x], i) <= net'[x] - net[x]
      BY <1>1, <1>3 DEF MovesOwnMoney
    <2>2. CASE x # u
      BY <1>4, <1>8, <2>2
    <2>3. CASE x = u
      <3>1. PICK s \in Nat : s = scaledBalanceOf[u]
        BY <1>8
      <3>2. scaledBalanceOf'[x] = s + m /\ net'[x] - net[x] = a /\ net'[x] # net[x]
        BY <1>4, <1>8, <2>3, <3>1
      <3>3. Underlying(s + m, i) <= Underlying(s, i) + a
        BY <1>3, UnderlyingAdds
      <3>4. Underlying(s + m, i) \in Nat /\ Underlying(s, i) \in Nat
        <4>1. s + m \in Nat
          OBVIOUS
        <4> QED BY <4>1, UnderlyingType
      <3>5. Underlying(s + m, i) - Underlying(s, i) <= a
        BY <3>3, <3>4
      <3> QED BY <2>3, <3>1, <3>2, <3>5
    <2> QED BY <2>2, <2>3
  <1> QED BY <1>1, <1>3, <1>5, <1>7, <1>9, <1>10 DEF Called

LEMMA CalledByWithdraw ==
    ASSUME LInv, NEW u \in Suppliers, NEW a \in Nat, poolWithdraw(u, a)
    PROVE  Called
  <1>1. PICK v : v = Accrued
    OBVIOUS
  <1>2. GoodReserve(v) /\ v.lastUpdate = now
    BY <1>1, AccruedGood
  <1>3. scaledBalanceOf \in [Suppliers -> Nat] /\ net \in [Suppliers -> Int]
    BY DEF LInv, TypeOK
  <1>4. CanWithdraw(v, u, a)
    BY <1>1 DEF poolWithdraw
  <1>5. PICK i \in Nat \ {0}, b \in Nat :
           i = v.liquidityIndex /\ b = scaledBurn(v, u, a) /\ b <= scaledBalanceOf[u] /\ a * WAD <= b * i
    <2>1. v.liquidityIndex \in Nat \ {0} /\ scaledBalanceOf[u] \in Nat
      BY <1>2, <1>3, ReserveFields
    <2>2. a <= Underlying(scaledBalanceOf[u], v.liquidityIndex)
      BY <1>4 DEF CanWithdraw
    <2> QED BY <2>1, <2>2, BurntWorth DEF scaledBurn
  <1>6. a > 0 /\ b <= v.totalScaled /\ a <= v.cash
    BY <1>4, <1>5 DEF CanWithdraw
  <1>7. /\ r' = [v EXCEPT !.cash = @ - a, !.totalScaled = @ - b]
        /\ scaledBalanceOf' = [scaledBalanceOf EXCEPT ![u] = @ - b]
        /\ net' = [net EXCEPT ![u] = @ - a]
    BY <1>1, <1>5 DEF poolWithdraw
  <1>8. /\ r' \in Reserve /\ r'.liquidityIndex = i /\ r'.lastUpdate = now /\ r'.model = v.model
        /\ r'.totalScaled = v.totalScaled - b /\ r'.cash = v.cash - a
    <2>1. PICK c \in Nat, t \in Nat : c = v.cash - a /\ t = v.totalScaled - b
      BY <1>2, <1>5, <1>6, <1>7, ReserveFields
    <2>2. r' = [v EXCEPT !.cash = c, !.totalScaled = t]
      BY <2>1, <1>7
    <2>3. v \in Reserve
      BY <1>2 DEF GoodReserve
    <2> QED BY <2>1, <2>2, <2>3, <1>2, <1>5, <1>6, <1>7 DEF Reserve
  <1>9. Solvent(r')
    <2>1. PICK s \in Nat, c \in Nat : s = v.totalScaled /\ c = v.cash
      BY <1>2, ReserveFields
    <2>2. s * i <= c * WAD
      BY <1>2, <1>5, <2>1 DEF GoodReserve, Solvent
    <2>3. /\ (s - b) * i = s * i - b * i /\ (c - a) * WAD = c * WAD - a * WAD
          /\ s * i \in Int /\ b * i \in Int /\ c * WAD \in Int /\ a * WAD \in Int
      BY UnitsAssumption
    <2>4. (s - b) * i <= (c - a) * WAD
      BY <1>5, <2>2, <2>3
    <2> QED BY <1>8, <2>1, <2>4 DEF Solvent
  <1>10. GoodReserve(r')
    BY <1>2, <1>5, <1>8, <1>9 DEF GoodReserve
  <1>11. scaledBalanceOf' \in [Suppliers -> Nat] /\ net' \in [Suppliers -> Int]
    BY <1>3, <1>5, <1>7
  <1>12. MovesOwnMoney
    <2>1. SUFFICES ASSUME NEW x \in Suppliers
                   PROVE  IF net'[x] = net[x] THEN scaledBalanceOf'[x] = scaledBalanceOf[x]
                          ELSE Underlying(scaledBalanceOf'[x], i)
                                 - Underlying(scaledBalanceOf[x], i) <= net'[x] - net[x]
      BY <1>1, <1>5 DEF MovesOwnMoney
    <2>2. CASE x # u
      BY <1>3, <1>7, <2>2
    <2>3. CASE x = u
      <3>1. PICK s \in Nat : s = scaledBalanceOf[u] /\ b <= s
        BY <1>3, <1>5
      <3>2. scaledBalanceOf'[x] = s - b /\ net'[x] - net[x] = -a /\ net'[x] # net[x]
        BY <1>3, <1>6, <1>7, <2>3, <3>1
      <3>3. Underlying(s - b, i) + a <= Underlying(s, i)
        BY <1>5, <3>1, UnderlyingSubtracts
      <3>4. Underlying(s - b, i) \in Nat /\ Underlying(s, i) \in Nat
        <4>1. s - b \in Nat
          BY <3>1
        <4> QED BY <4>1, UnderlyingType
      <3>5. Underlying(s - b, i) - Underlying(s, i) <= -a
        BY <3>3, <3>4
      <3> QED BY <2>3, <3>1, <3>2, <3>5
    <2> QED BY <2>2, <2>3
  <1> QED BY <1>1, <1>5, <1>8, <1>10, <1>11, <1>12 DEF Called

\* Setting the model or the debt of an accrued reserve is a call of nobody's money.
LEMMA CalledByOwner ==
    ASSUME LInv, NEW w, GoodReserve(w), w.liquidityIndex = Accrued.liquidityIndex, w.lastUpdate = now,
           r' = w, UNCHANGED <<scaledBalanceOf, net>>
    PROVE  Called
  BY DEF Called, MovesOwnMoney, LInv, TypeOK

LEMMA CalledBySetRateModel ==
    ASSUME LInv, NEW x \in Models, SetRateModel(x) PROVE Called
  <1>1. PICK v : v = Accrued
    OBVIOUS
  <1>2. GoodReserve(v) /\ v.lastUpdate = now
    BY <1>1, AccruedGood
  <1>3. PICK w : w = [v EXCEPT !.model = x]
    OBVIOUS
  <1>4. x \in RateModel /\ ValidModel(x) /\ r' = w /\ UNCHANGED <<scaledBalanceOf, net>>
    BY <1>1, <1>3, LendingAssumption DEF SetRateModel
  <1>5. /\ w \in Reserve /\ w.model = x /\ w.liquidityIndex = v.liquidityIndex
        /\ w.lastUpdate = v.lastUpdate /\ w.totalScaled = v.totalScaled /\ w.cash = v.cash
    BY <1>2, <1>3, <1>4 DEF GoodReserve, Reserve
  <1>6. GoodReserve(w)
    BY <1>2, <1>4, <1>5 DEF GoodReserve, Solvent
  <1> QED BY <1>1, <1>2, <1>4, <1>5, <1>6, CalledByOwner

LEMMA CalledBySetUtilization ==
    ASSUME LInv, NEW t \in Utilizations, SetUtilization(t) PROVE Called
  <1>1. PICK v : v = Accrued
    OBVIOUS
  <1>2. GoodReserve(v) /\ v.lastUpdate = now
    BY <1>1, AccruedGood
  <1>3. PICK d \in Nat : d = (totalSupplied(v) * t) \div WAD
    <2>1. totalSupplied(v) \in Nat /\ t \in Nat
      BY <1>2, ReserveFields, UnderlyingType, LendingAssumption DEF totalSupplied
    <2> QED BY <2>1, MulNat, DivNat, UnitsAssumption
  <1>4. PICK w : w = [v EXCEPT !.totalDebt = d]
    OBVIOUS
  <1>5. r' = w /\ UNCHANGED <<scaledBalanceOf, net>>
    BY <1>1, <1>3, <1>4 DEF SetUtilization
  <1>6. /\ w \in Reserve /\ w.model = v.model /\ w.liquidityIndex = v.liquidityIndex
        /\ w.lastUpdate = v.lastUpdate /\ w.totalScaled = v.totalScaled /\ w.cash = v.cash
    BY <1>2, <1>4 DEF GoodReserve, Reserve
  <1>7. GoodReserve(w)
    BY <1>2, <1>6 DEF GoodReserve, Solvent
  <1> QED BY <1>1, <1>2, <1>5, <1>6, <1>7, CalledByOwner

-----------------------------------------------------------------------------
(***************************************************************************)
(* The adapter's ledger.                                                   *)
(***************************************************************************)
Ledgers == [principal : Nat, interest : Nat, lastBalance : Nat]

LEMMA BalanceAfterType == ASSUME Called PROVE balanceAfter \in Nat
  BY LendingAssumption, ReserveFields, UnderlyingType DEF Called, balanceAfter

LEMMA LedgerAfterSupplyType ==
    ASSUME LInv, Called, NEW a \in Nat PROVE ledgerAfterSupply(a) \in Ledgers
  <1>1. PICK b \in Nat, c \in Nat : b = balanceAfter /\ c = checkpointed
    BY BalanceAfterType, CheckpointType
  <1>2. PICK p \in Nat : p = ledger.principal + a
    BY DEF LInv, TypeOK
  <1>3. ledgerAfterSupply(a) = [ledger EXCEPT !.principal = p, !.interest = c, !.lastBalance = b]
    BY <1>1, <1>2 DEF ledgerAfterSupply
  <1>4. ledger \in Ledgers
    BY DEF LInv, TypeOK, Ledgers
  <1> QED BY <1>3, <1>4 DEF Ledgers

LEMMA LedgerAfterWithdrawalType ==
    ASSUME LInv, Called, NEW a \in Nat, poolWithdraw(Adapter, a)
    PROVE  ledgerAfterWithdrawal(a) \in Ledgers
  <1>1. PICK b \in Nat, c \in Nat, before \in Nat, p \in Nat :
           b = balanceAfter /\ c = checkpointed /\ before = balanceOf(Adapter) /\ p = ledger.principal
    BY BalanceAfterType, CheckpointType, BalanceType, LendingAssumption DEF LInv, TypeOK
  <1>2. a > 0 /\ a <= before
    BY <1>1 DEF poolWithdraw, CanWithdraw, balanceOf
  <1>3. PICK k \in Nat : k = (p * a) \div before /\ k <= p
    <2>1. p * a \in Nat /\ p * a <= p * before
      BY <1>2, MulNat, MulMono
    <2> QED BY <1>2, <2>1, DivNat, DivAtMost
  <1>4. PICK q \in Nat : q = p - k
    BY <1>3
  <1>5. ledgerAfterWithdrawal(a) = [ledger EXCEPT !.principal = q, !.interest = c, !.lastBalance = b]
    BY <1>1, <1>3, <1>4 DEF ledgerAfterWithdrawal
  <1>6. ledger \in Ledgers
    BY DEF LInv, TypeOK, Ledgers
  <1> QED BY <1>5, <1>6 DEF Ledgers

-----------------------------------------------------------------------------
(***************************************************************************)
(* The invariant.                                                          *)
(***************************************************************************)

LEMMA InitLInv == Init => LInv
  <1> SUFFICES ASSUME Init PROVE LInv
    OBVIOUS
  <1>1. r \in Reserve
    BY UnitsAssumption, LendingAssumption DEF Init, Reserve
  <1>2. r.liquidityIndex >= WAD /\ ValidModel(r.model) /\ r.lastUpdate <= now /\ now \in Nat /\ txs \in Nat
    BY UnitsAssumption, LendingAssumption DEF Init
  <1>3. /\ scaledBalanceOf \in [Suppliers -> Nat] /\ net \in [Suppliers -> Int]
        /\ ledger \in [principal : Nat, interest : Nat, lastBalance : Nat]
    BY DEF Init
  <1>4. Solvent(r)
    BY UnitsAssumption DEF Init, Solvent
  <1> QED BY <1>1, <1>2, <1>3, <1>4 DEF LInv, TypeOK

\* After a call at the pool only the ledger and the counters are left to check.
LEMMA CalledKeepsLInv ==
    ASSUME LInv, Called, Tx, ledger' \in Ledgers PROVE LInv'
  <1>1. now' = now /\ txs' \in Nat
    BY DEF LInv, TypeOK, Tx
  <1>2. /\ r' \in Reserve /\ r'.liquidityIndex >= WAD /\ ValidModel(r'.model)
        /\ r'.lastUpdate <= now' /\ Solvent(r')
        /\ scaledBalanceOf' \in [Suppliers -> Nat] /\ net' \in [Suppliers -> Int]
    BY <1>1 DEF Called, GoodReserve
  <1>3. ledger' \in [principal : Nat, interest : Nat, lastBalance : Nat]
    BY DEF Ledgers
  <1>4. Solvent(r)' = Solvent(r')
    BY DEF Solvent
  <1>5. now' \in Nat
    BY <1>1 DEF LInv, TypeOK
  <1> QED BY <1>1, <1>2, <1>3, <1>4, <1>5 DEF LInv, TypeOK, ValidModel

\* The balances of all suppliers at one moment, before and after a step.
BalancesMoveWithMoney ==
    \A u \in Suppliers :
         IF net'[u] = net[u] THEN balanceOf(u)' = balanceOf(u)
         ELSE balanceOf(u)' - balanceOf(u) <= net'[u] - net[u]

LEMMA CalledMovesBalances ==
    ASSUME LInv, Called, now' = now PROVE BalancesMoveWithMoney
  <1>1. Accrued' = r'
    BY DEF Called, Accrued, accrue
  <1>2. PICK i : i = Accrued.liquidityIndex /\ i = r'.liquidityIndex
    BY DEF Called
  <1>3. \A u \in Suppliers : balanceOf(u)' = Underlying(scaledBalanceOf'[u], i)
                             /\ balanceOf(u) = Underlying(scaledBalanceOf[u], i)
    BY <1>1, <1>2 DEF balanceOf, Underlying
  <1> QED BY <1>2, <1>3 DEF Called, MovesOwnMoney, BalancesMoveWithMoney

LEMMA WithdrawableType == ASSUME LInv PROVE withdrawable \in Nat
  <1>1. balanceOf(Adapter) \in Nat
    BY BalanceType, LendingAssumption
  <1>2. available(Accrued) \in Nat
    <2>1. totalSupplied(Accrued) \in Nat /\ Accrued.totalDebt \in Nat
      BY AccruedGood, ReserveFields, UnderlyingType DEF totalSupplied
    <2>2. totalSupplied(Accrued) - Accrued.totalDebt \in Int
      BY <2>1
    <2> QED BY <2>2, PosType DEF available
  <1> QED BY <1>1, <1>2 DEF withdrawable, Min2

LEMMA StepLInv ==
    ASSUME LInv, [Next]_vars
    PROVE  LInv' /\ (now' = now => BalancesMoveWithMoney)
  <1> USE LendingAssumption
  <1>0. ledger \in Ledgers
    BY DEF LInv, TypeOK, Ledgers
  <1>1. ASSUME NEW x \in Models, SetRateModel(x) PROVE Called /\ Tx /\ ledger' \in Ledgers
    BY <1>0, <1>1, CalledBySetRateModel DEF SetRateModel
  <1>2. ASSUME NEW t \in Utilizations, SetUtilization(t) PROVE Called /\ Tx /\ ledger' \in Ledgers
    BY <1>0, <1>2, CalledBySetUtilization DEF SetUtilization
  <1>3. ASSUME NEW u \in Suppliers, NEW a \in Nat, Supply(u, a) PROVE Called /\ Tx /\ ledger' \in Ledgers
    BY <1>0, <1>3, CalledBySupply DEF Supply
  <1>4. ASSUME NEW u \in Suppliers, NEW a \in Nat, Withdraw(u, a) PROVE Called /\ Tx /\ ledger' \in Ledgers
    BY <1>0, <1>4, CalledByWithdraw DEF Withdraw
  <1>5. ASSUME NEW a \in Nat, AdapterSupply(a) PROVE Called /\ Tx /\ ledger' \in Ledgers
    BY <1>5, CalledBySupply, LedgerAfterSupplyType DEF AdapterSupply
  <1>6. ASSUME NEW a \in Nat, AdapterWithdraw(a) PROVE Called /\ Tx /\ ledger' \in Ledgers
    BY <1>6, CalledByWithdraw, LedgerAfterWithdrawalType DEF AdapterWithdraw
  <1>7. ASSUME r' = r, UNCHANGED <<scaledBalanceOf, net>>, ledger' \in Ledgers, now' \in Nat, now <= now',
               txs' \in Nat
        PROVE  LInv' /\ (now' = now => BalancesMoveWithMoney)
    <2>1. LInv'
      <3>1. r'.lastUpdate <= now'
        BY <1>7 DEF LInv, TypeOK, Reserve
      <3>2. /\ r' \in Reserve /\ r'.liquidityIndex >= WAD /\ ValidModel(r'.model)
            /\ scaledBalanceOf' \in [Suppliers -> Nat] /\ net' \in [Suppliers -> Int]
            /\ Solvent(r')
        BY <1>7 DEF LInv, TypeOK
      <3>3. Solvent(r)' = Solvent(r')
        BY DEF Solvent
      <3> QED BY <1>7, <3>1, <3>2, <3>3 DEF LInv, TypeOK, Ledgers, ValidModel
    <2>2. ASSUME now' = now PROVE BalancesMoveWithMoney
      <3>1. Accrued' = Accrued
        BY <1>7, <2>2 DEF Accrued, accrue, projectedIndex, projectedDebt, mintedInterest, Elapsed
      <3> QED BY <1>7, <3>1 DEF BalancesMoveWithMoney, balanceOf
    <2> QED BY <2>1, <2>2
  <1>8. CASE AdapterWithdrawNothing
    <2>1. PICK b \in Nat, c \in Nat : b = balanceOf(Adapter) /\ c = checkpointed
      BY BalanceType, CheckpointType
    <2>2. ledger' = [ledger EXCEPT !.interest = c, !.lastBalance = b]
      BY <1>8, <2>1 DEF AdapterWithdrawNothing
    <2>3. ledger' \in Ledgers
      BY <1>0, <2>2 DEF Ledgers
    <2> QED BY <1>7, <1>8, <2>3 DEF AdapterWithdrawNothing, Tx, LInv, TypeOK
  <1>9. CASE Tick
    BY <1>0, <1>7, <1>9 DEF Tick, LInv, TypeOK
  <1>10. CASE UNCHANGED vars
    BY <1>0, <1>7, <1>10 DEF vars, LInv, TypeOK
  <1>11. withdrawable \in Nat
    BY WithdrawableType
  <1>12. ASSUME Called, Tx, ledger' \in Ledgers
         PROVE  LInv' /\ (now' = now => BalancesMoveWithMoney)
    BY <1>12, CalledKeepsLInv, CalledMovesBalances
  <1>13. \A u \in Suppliers : balanceOf(u) \in Nat
    BY BalanceType
  <1> QED BY <1>1, <1>2, <1>3, <1>4, <1>5, <1>6, <1>8, <1>9, <1>10, <1>11, <1>12, <1>13 DEF Next

-----------------------------------------------------------------------------
\* The reserve, the balances and the adapter's ledger never underflow: TypeOK
\* holds for every rate model, amount and number of suppliers.
THEOREM TypeCorrect == Spec => []TypeOK
  <1>1. LInv => TypeOK
    BY DEF LInv
  <1>2. LInv /\ [Next]_vars => LInv'
    BY StepLInv
  <1> QED BY <1>1, <1>2, InitLInv, PTL DEF Spec

\* The pool always holds what its suppliers own: the interest it mints rounds
\* up, what it credits rounds down and what it burns rounds up.
THEOREM SolvencyHolds == Spec => []Solvency
  <1>1. LInv => Solvency
    <2> SUFFICES ASSUME LInv PROVE Solvency
      OBVIOUS
    <2>1. r.totalScaled \in Nat /\ r.liquidityIndex \in Nat /\ r.cash \in Nat
      BY InvGood, ReserveFields
    <2>2. r.totalScaled * r.liquidityIndex \in Nat /\ r.totalScaled * r.liquidityIndex <= r.cash * WAD
      BY <2>1, MulNat DEF LInv, Solvent
    <2> QED BY <2>1, <2>2, DivAtMost, UnitsAssumption DEF Solvency, totalSupplied, Underlying
  <1>2. LInv /\ [Next]_vars => LInv'
    BY StepLInv
  <1> QED BY <1>1, <1>2, InitLInv, PTL DEF Spec

\* At one moment no call changes another account's balance, and none credits
\* more than it was paid or pays more than it debits.
THEOREM CallsMoveOwnMoneyHolds == Spec => CallsMoveOwnMoney
  <1>1. LInv /\ [Next]_vars => [now' = now => \A u \in Suppliers :
             IF net'[u] = net[u] THEN balanceOf(u)' = balanceOf(u)
             ELSE balanceOf(u)' - balanceOf(u) <= net'[u] - net[u]]_vars
    BY StepLInv DEF BalancesMoveWithMoney
  <1>2. LInv /\ [Next]_vars => LInv'
    BY StepLInv
  <1> QED BY <1>1, <1>2, InitLInv, PTL DEF Spec, CallsMoveOwnMoney
-----------------------------------------------------------------------------
(***************************************************************************)
(* The balances add up to the total, for any set of suppliers: there is a  *)
(* weight for every set of them that takes each balance in once.           *)
(***************************************************************************)
Weighs(m, b) == \A S \in SUBSET Suppliers : \A u \in S : m[S] = m[S \ {u}] + b[u]

BooksAdd ==
    \E m \in [SUBSET Suppliers -> Nat] :
        m[Suppliers] = r.totalScaled /\ Weighs(m, scaledBalanceOf)

\* One balance set anew, the others as they were.
LEMMA WeightMoves ==
    ASSUME NEW m \in [SUBSET Suppliers -> Nat], NEW b \in [Suppliers -> Nat], Weighs(m, b),
           NEW u \in Suppliers, NEW c \in Nat
    PROVE  \E n \in [SUBSET Suppliers -> Nat] :
              /\ n[Suppliers] = m[Suppliers] - b[u] + c
              /\ Weighs(n, [b EXCEPT ![u] = c])
  <1> DEFINE n == [S \in SUBSET Suppliers |-> IF u \in S THEN m[S \ {u}] + c ELSE m[S]]
  <1>1. \A S \in SUBSET Suppliers : m[S] \in Nat /\ \A x \in S : S \ {x} \in SUBSET Suppliers
    OBVIOUS
  <1>2. n \in [SUBSET Suppliers -> Nat]
    <2>1. \A S \in SUBSET Suppliers : (IF u \in S THEN m[S \ {u}] + c ELSE m[S]) \in Nat
      BY <1>1
    <2> QED BY <2>1
  <1>3. \A S \in SUBSET Suppliers : n[S] = IF u \in S THEN m[S \ {u}] + c ELSE m[S]
    OBVIOUS
  <1> HIDE DEF n
  <1>4. n[Suppliers] = m[Suppliers] - b[u] + c
    <2>1. m[Suppliers] = m[Suppliers \ {u}] + b[u] /\ n[Suppliers] = m[Suppliers \ {u}] + c
      BY <1>3 DEF Weighs
    <2>2. m[Suppliers \ {u}] \in Nat /\ b[u] \in Nat
      BY <1>1
    <2> QED BY <2>1, <2>2
  <1>5. ASSUME NEW S \in SUBSET Suppliers, NEW x \in S
        PROVE  n[S] = n[S \ {x}] + [b EXCEPT ![u] = c][x]
    <2>1. S \ {x} \in SUBSET Suppliers /\ x \in Suppliers
      OBVIOUS
    <2>2. CASE x = u
      <3>1. n[S] = m[S \ {u}] + c /\ n[S \ {x}] = m[S \ {u}]
        BY <1>3, <2>1, <2>2
      <3> QED BY <2>2, <3>1
    <2>3. CASE x # u /\ u \in S
      <3>1. n[S] = m[S \ {u}] + c /\ n[S \ {x}] = m[(S \ {x}) \ {u}] + c
        BY <1>3, <2>1, <2>3
      <3>2. (S \ {x}) \ {u} = (S \ {u}) \ {x} /\ S \ {u} \in SUBSET Suppliers /\ x \in S \ {u}
        BY <2>3
      <3>3. m[S \ {u}] = m[(S \ {u}) \ {x}] + b[x]
        BY <3>2 DEF Weighs
      <3>4. PICK k \in Nat, y \in Nat : k = m[(S \ {u}) \ {x}] /\ y = b[x]
        BY <1>1, <2>1, <3>2
      <3>5. [b EXCEPT ![u] = c][x] = y
        BY <2>1, <2>3, <3>4
      <3>6. n[S] = (k + y) + c /\ n[S \ {x}] = k + c
        BY <3>1, <3>2, <3>3, <3>4
      <3> QED BY <3>5, <3>6
    <2>4. CASE u \notin S
      <3>1. n[S] = m[S] /\ n[S \ {x}] = m[S \ {x}] /\ x # u
        BY <1>3, <2>1, <2>4
      <3>2. m[S] = m[S \ {x}] + b[x]
        BY DEF Weighs
      <3> QED BY <2>1, <3>1, <3>2
    <2> QED BY <2>2, <2>3, <2>4
  <1> QED BY <1>2, <1>4, <1>5 DEF Weighs

LEMMA BalanceWithinTotal ==
    ASSUME LInv, BooksAdd, NEW u \in Suppliers
    PROVE  scaledBalanceOf[u] <= r.totalScaled
  <1>1. PICK m \in [SUBSET Suppliers -> Nat] :
           m[Suppliers] = r.totalScaled /\ Weighs(m, scaledBalanceOf)
    BY DEF BooksAdd
  <1>2. m[Suppliers] = m[Suppliers \ {u}] + scaledBalanceOf[u]
    BY <1>1 DEF Weighs
  <1>3. m[Suppliers \ {u}] \in Nat /\ scaledBalanceOf[u] \in Nat
    BY DEF LInv, TypeOK
  <1> QED BY <1>1, <1>2, <1>3

LEMMA AccruedTotal == ASSUME LInv PROVE Accrued.totalScaled = r.totalScaled
  BY DEF Accrued, accrue, LInv, TypeOK, Reserve

\* A supply mints and a withdrawal burns the same of both.
LEMMA BooksMove ==
    ASSUME LInv, BooksAdd, NEW u \in Suppliers, NEW c \in Nat,
           scaledBalanceOf' = [scaledBalanceOf EXCEPT ![u] = c],
           r'.totalScaled = r.totalScaled - scaledBalanceOf[u] + c
    PROVE  BooksAdd'
  <1>1. scaledBalanceOf \in [Suppliers -> Nat]
    BY DEF LInv, TypeOK
  <1>2. PICK m \in [SUBSET Suppliers -> Nat] :
           m[Suppliers] = r.totalScaled /\ Weighs(m, scaledBalanceOf)
    BY DEF BooksAdd
  <1>3. PICK n \in [SUBSET Suppliers -> Nat] :
           /\ n[Suppliers] = m[Suppliers] - scaledBalanceOf[u] + c
           /\ Weighs(n, [scaledBalanceOf EXCEPT ![u] = c])
    BY <1>1, <1>2, WeightMoves
  <1>4. Weighs(n, scaledBalanceOf')
    BY <1>3
  <1>5. n[Suppliers] = r'.totalScaled
    BY <1>2, <1>3
  <1> QED BY <1>4, <1>5 DEF BooksAdd, Weighs

LEMMA BooksAfterSupply ==
    ASSUME LInv, BooksAdd, NEW u \in Suppliers, NEW a \in Nat, poolSupply(u, a)
    PROVE  BooksAdd'
  <1>1. PICK v : v = Accrued
    OBVIOUS
  <1>2. GoodReserve(v) /\ v.totalScaled = r.totalScaled
    BY <1>1, AccruedGood, AccruedTotal
  <1>3. PICK k \in Nat : k = scaledFor(v, a)
    BY <1>2, ReserveFields, MintedWorth DEF scaledFor
  <1>4. /\ r' = [v EXCEPT !.cash = @ + a, !.totalScaled = @ + k]
        /\ scaledBalanceOf' = [scaledBalanceOf EXCEPT ![u] = @ + k]
    BY <1>1, <1>3 DEF poolSupply
  <1>5. PICK s \in Nat : s = scaledBalanceOf[u]
    BY DEF LInv, TypeOK
  <1>6. scaledBalanceOf' = [scaledBalanceOf EXCEPT ![u] = s + k]
    BY <1>4, <1>5
  <1>7. r'.totalScaled = r.totalScaled + k /\ r.totalScaled \in Nat
    BY <1>2, <1>4, InvGood, ReserveFields DEF GoodReserve, Reserve
  <1>8. s + k \in Nat /\ r'.totalScaled = r.totalScaled - s + (s + k)
    BY <1>7
  <1> QED BY <1>5, <1>6, <1>8, BooksMove

LEMMA BooksAfterWithdraw ==
    ASSUME LInv, BooksAdd, NEW u \in Suppliers, NEW a \in Nat, poolWithdraw(u, a)
    PROVE  BooksAdd'
  <1>1. PICK v : v = Accrued
    OBVIOUS
  <1>2. GoodReserve(v) /\ v.totalScaled = r.totalScaled
    BY <1>1, AccruedGood, AccruedTotal
  <1>3. PICK s \in Nat : s = scaledBalanceOf[u]
    BY DEF LInv, TypeOK
  <1>4. PICK k \in Nat : k = scaledBurn(v, u, a) /\ k <= s
    <2>1. v.liquidityIndex \in Nat \ {0} /\ a <= Underlying(s, v.liquidityIndex)
      BY <1>1, <1>2, <1>3, ReserveFields DEF poolWithdraw, CanWithdraw
    <2> QED BY <1>3, <2>1, BurntWorth DEF scaledBurn
  <1>5. /\ r' = [v EXCEPT !.cash = @ - a, !.totalScaled = @ - k]
        /\ scaledBalanceOf' = [scaledBalanceOf EXCEPT ![u] = @ - k]
    BY <1>1, <1>4 DEF poolWithdraw
  <1>6. scaledBalanceOf' = [scaledBalanceOf EXCEPT ![u] = s - k]
    BY <1>3, <1>5
  <1>7. r'.totalScaled = r.totalScaled - k /\ r.totalScaled \in Nat
    BY <1>2, <1>5, InvGood, ReserveFields DEF GoodReserve, Reserve
  <1>8. s - k \in Nat /\ r'.totalScaled = r.totalScaled - s + (s - k)
    BY <1>4, <1>7
  <1> QED BY <1>3, <1>6, <1>8, BooksMove

LEMMA BooksStart == Init => BooksAdd
  <1> SUFFICES ASSUME Init PROVE BooksAdd
    OBVIOUS
  <1> DEFINE m == [S \in SUBSET Suppliers |-> 0]
  <1>1. Weighs(m, scaledBalanceOf)
    BY DEF Init, Weighs
  <1>2. m[Suppliers] = r.totalScaled /\ m \in [SUBSET Suppliers -> Nat]
    BY DEF Init
  <1> QED BY <1>1, <1>2 DEF BooksAdd

LEMMA BooksKept ==
    ASSUME LInv, BooksAdd, scaledBalanceOf' = scaledBalanceOf, r'.totalScaled = r.totalScaled
    PROVE  BooksAdd'
  BY DEF BooksAdd, Weighs

LEMMA StepBooksAdd ==
    ASSUME LInv, BooksAdd, [Next]_vars PROVE BooksAdd'
  <1>1. \A u \in Suppliers : balanceOf(u) \in Nat
    BY BalanceType
  <1>2. Adapter \in Suppliers /\ Amounts \subseteq Nat /\ withdrawable \in Nat
    BY LendingAssumption, WithdrawableType
  <1>3. ASSUME NEW w, r' = w, w.totalScaled = Accrued.totalScaled, scaledBalanceOf' = scaledBalanceOf
        PROVE  BooksAdd'
    BY <1>3, AccruedTotal, BooksKept
  <1>4. ASSUME NEW x \in Models, SetRateModel(x) PROVE BooksAdd'
    BY <1>3, <1>4, AccruedGood DEF SetRateModel, GoodReserve, Reserve
  <1>5. ASSUME NEW t \in Utilizations, SetUtilization(t) PROVE BooksAdd'
    BY <1>3, <1>5, AccruedGood DEF SetUtilization, GoodReserve, Reserve
  <1>6. ASSUME NEW u \in Suppliers, NEW a \in Nat, poolSupply(u, a) \/ poolWithdraw(u, a)
        PROVE  BooksAdd'
    BY <1>6, BooksAfterSupply, BooksAfterWithdraw
  <1>7. ASSUME UNCHANGED <<r, scaledBalanceOf>> PROVE BooksAdd'
    BY <1>7, BooksKept
  <1> QED
    BY <1>1, <1>2, <1>4, <1>5, <1>6, <1>7
       DEF Next, Supply, Withdraw, AdapterSupply, AdapterWithdraw, AdapterWithdrawNothing, Tick, vars

\* What the adapter reports as withdrawable the pool pays at that moment: its
\* balance is within the total, and the total within the tokens held.
THEOREM WithdrawableIsPayableHolds == Spec => []WithdrawableIsPayable
  <1>1. LInv /\ BooksAdd => WithdrawableIsPayable
    <2> SUFFICES ASSUME LInv, BooksAdd, withdrawable > 0
                 PROVE  CanWithdraw(Accrued, Adapter, withdrawable)
      BY DEF WithdrawableIsPayable
    <2>1. PICK v : v = Accrued
      OBVIOUS
    <2>2. GoodReserve(v) /\ v.totalScaled = r.totalScaled
      BY <2>1, AccruedGood, AccruedTotal
    <2>3. PICK i \in Nat \ {0}, s \in Nat, t \in Nat, c \in Nat, d \in Nat, a \in Nat :
             /\ i = v.liquidityIndex /\ s = scaledBalanceOf[Adapter] /\ t = v.totalScaled /\ c = v.cash
             /\ d = v.totalDebt /\ a = withdrawable
      BY <2>2, ReserveFields, WithdrawableType, LendingAssumption DEF LInv, TypeOK
    <2>4. /\ a > 0 /\ a = Min2(Underlying(s, i), Pos(Underlying(t, i) - d))
          /\ available(v) = Pos(Underlying(t, i) - d)
      BY <2>1, <2>3 DEF withdrawable, balanceOf, available, totalSupplied
    <2>5. s <= t
      BY <2>2, <2>3, BalanceWithinTotal, LendingAssumption
    <2>6. Underlying(s, i) \in Nat /\ Underlying(t, i) \in Nat /\ Underlying(t, i) <= c
      <3>1. t * i \in Nat /\ t * i <= c * WAD
        BY <2>2, <2>3, MulNat DEF GoodReserve, Solvent
      <3> QED BY <3>1, UnderlyingType, DivAtMost, UnitsAssumption DEF Underlying
    <2>7. a <= Underlying(s, i) /\ a <= available(v) /\ a <= c
      BY <2>4, <2>6 DEF Min2, Pos
    <2>8. scaledBurn(v, Adapter, a) <= t
      <3>1. Min2(CeilDiv(a * WAD, i), s) \in Nat /\ Min2(CeilDiv(a * WAD, i), s) <= s
        BY <2>7, BurntWorth
      <3> QED BY <2>3, <2>5, <3>1 DEF scaledBurn
    <2> QED BY <2>1, <2>3, <2>4, <2>7, <2>8 DEF CanWithdraw
  <1>2. LInv /\ BooksAdd /\ [Next]_vars => LInv' /\ BooksAdd'
    BY StepLInv, StepBooksAdd
  <1> QED BY <1>1, <1>2, InitLInv, BooksStart, PTL DEF Spec

-----------------------------------------------------------------------------
(***************************************************************************)
(* What the adapter earns.                                                 *)
(***************************************************************************)

\* What rounding has taken from the adapter so far: paid in and earned, but not
\* in its last balance.  Interest accrues on top of that balance, so a
\* checkpoint takes all of it, and moves nothing else.
Loss == net[Adapter] + ledger.interest - ledger.lastBalance

EarningsInv == ledger.lastBalance <= balanceOf(Adapter) /\ Loss \in 0 .. RoundingLoss

LEMMA CeilWithin ==
    ASSUME NEW a \in Nat, NEW d \in Nat \ {0} PROVE CeilDiv(a, d) * d < a + d
  <1>1. a + d - 1 \in Nat
    OBVIOUS
  <1> QED BY <1>1, DivBounds DEF CeilDiv

LEMMA UnderlyingAtLeast ==
    ASSUME NEW t \in Nat, NEW i \in Nat, NEW q \in Int, q * WAD <= t * i
    PROVE  q <= Underlying(t, i)
  <1>1. t * i \in Nat /\ Underlying(t, i) \in Nat /\ WAD \in Nat \ {0}
    BY MulNat, UnderlyingType, UnitsAssumption
  <1>2. CASE q < 0
    BY <1>1, <1>2
  <1>3. CASE q \in Nat
    BY <1>1, <1>3, DivAtLeast DEF Underlying
  <1> QED BY <1>2, <1>3

\* One unit of scaled balance is worth an index, which is at most so many tokens.
LEMMA MintLoses ==
    ASSUME NEW s \in Nat, NEW a \in Nat, NEW i \in Nat \ {0}
    PROVE  Underlying(s, i) + a <= Underlying(s + (a * WAD) \div i, i) + CeilDiv(i, WAD)
  <1>1. WAD \in Nat \ {0} /\ a * WAD \in Nat
    BY UnitsAssumption, MulNat
  <1>2. PICK m \in Nat : m = (a * WAD) \div i /\ a * WAD < m * i + i
    BY <1>1, DivBounds
  <1>3. PICK c \in Nat : c = CeilDiv(i, WAD) /\ i <= c * WAD
    BY <1>1, CeilBounds
  <1>4. PICK q \in Nat : q = Underlying(s, i) /\ q * WAD <= s * i
    BY UnderlyingType
  <1>5. (q + a - c) * WAD <= (s + m) * i
    <2>1. (q + a - c) * WAD = q * WAD + a * WAD - c * WAD /\ (s + m) * i = s * i + m * i
      BY <1>1
    <2>2. q * WAD \in Nat /\ c * WAD \in Nat /\ s * i \in Nat /\ m * i \in Nat
      BY <1>1, MulNat
    <2> QED BY <1>1, <1>2, <1>3, <1>4, <2>1, <2>2
  <1>6. s + m \in Nat /\ q + a - c \in Int
    OBVIOUS
  <1>7. q + a - c <= Underlying(s + m, i) /\ Underlying(s + m, i) \in Nat
    BY <1>5, <1>6, UnderlyingAtLeast, UnderlyingType
  <1> QED BY <1>2, <1>3, <1>4, <1>7

LEMMA BurnLoses ==
    ASSUME NEW s \in Nat, NEW a \in Nat, NEW i \in Nat \ {0}, NEW b \in Nat, b <= s,
           b <= CeilDiv(a * WAD, i)
    PROVE  Underlying(s, i) <= Underlying(s - b, i) + a + CeilDiv(i, WAD)
  <1>1. WAD \in Nat \ {0} /\ a * WAD \in Nat
    BY UnitsAssumption, MulNat
  <1>2. b * i < a * WAD + i
    <2>1. CeilDiv(a * WAD, i) \in Nat /\ CeilDiv(a * WAD, i) * i < a * WAD + i
      BY <1>1, CeilBounds, CeilWithin
    <2>2. b * i <= CeilDiv(a * WAD, i) * i
      BY <2>1, MulMono
    <2>3. b * i \in Nat /\ CeilDiv(a * WAD, i) * i \in Nat
      BY <2>1, MulNat
    <2> QED BY <1>1, <2>1, <2>2, <2>3
  <1>3. PICK c \in Nat : c = CeilDiv(i, WAD) /\ i <= c * WAD
    BY <1>1, CeilBounds
  <1>4. PICK q \in Nat : q = Underlying(s, i) /\ q * WAD <= s * i
    BY UnderlyingType
  <1>5. (q - a - c) * WAD <= (s - b) * i
    <2>1. (q - a - c) * WAD = q * WAD - a * WAD - c * WAD /\ (s - b) * i = s * i - b * i
      BY <1>1
    <2>2. q * WAD \in Nat /\ c * WAD \in Nat /\ s * i \in Nat /\ b * i \in Nat
      BY <1>1, MulNat
    <2> QED BY <1>1, <1>2, <1>3, <1>4, <2>1, <2>2
  <1>6. s - b \in Nat /\ q - a - c \in Int
    OBVIOUS
  <1>7. q - a - c <= Underlying(s - b, i) /\ Underlying(s - b, i) \in Nat
    BY <1>5, <1>6, UnderlyingAtLeast, UnderlyingType
  <1> QED BY <1>3, <1>4, <1>7

LEMMA DivMono ==
    ASSUME NEW a \in Nat, NEW b \in Nat, a <= b, NEW d \in Nat \ {0}
    PROVE  a \div d <= b \div d
  <1>1. a \div d \in Nat /\ (a \div d) * d <= a
    BY DivBounds
  <1>2. (a \div d) * d \in Nat
    BY <1>1, MulNat
  <1>3. (a \div d) * d <= b
    BY <1>1, <1>2
  <1> QED BY <1>1, <1>3, DivAtLeast, DivNat

LEMMA UnderlyingMono ==
    ASSUME NEW s \in Nat, NEW i \in Nat, NEW j \in Nat, i <= j
    PROVE  Underlying(s, i) <= Underlying(s, j)
  <1>1. s * i \in Nat /\ s * j \in Nat /\ s * i <= s * j
    BY MulNat, MulMono
  <1> QED BY <1>1, DivMono, UnitsAssumption DEF Underlying

LEMMA CeilMono ==
    ASSUME NEW a \in Nat, NEW b \in Nat, a <= b, NEW d \in Nat \ {0}
    PROVE  CeilDiv(a, d) <= CeilDiv(b, d)
  <1>1. a + d - 1 \in Nat /\ b + d - 1 \in Nat /\ a + d - 1 <= b + d - 1
    OBVIOUS
  <1> QED BY <1>1, DivMono DEF CeilDiv

LEMMA GrownMono ==
    ASSUME NEW x \in Nat, NEW rate \in Nat, NEW dt \in Nat, NEW et \in Nat, dt <= et
    PROVE  Grown(x, rate, dt) <= Grown(x, rate, et)
  <1>1. rate * dt \in Nat /\ rate * et \in Nat /\ rate * dt <= rate * et
    BY MulNat, MulMono
  <1>2. PICK g \in Nat, h \in Nat : g = (rate * dt) \div YEAR /\ h = (rate * et) \div YEAR /\ g <= h
    BY <1>1, DivNat, DivMono, LendingAssumption
  <1>3. WAD + g \in Nat /\ WAD + h \in Nat /\ WAD + g <= WAD + h
    BY <1>2, UnitsAssumption
  <1>4. x * (WAD + g) \in Nat /\ x * (WAD + h) \in Nat /\ x * (WAD + g) <= x * (WAD + h)
    BY <1>3, MulNat, MulMono
  <1> QED BY <1>2, <1>4, DivMono, UnitsAssumption DEF Grown

\* Time alone only ever raises the index.
LEMMA IndexRises ==
    ASSUME LInv, Tick
    PROVE  Accrued'.liquidityIndex \in Nat /\ Accrued'.liquidityIndex >= Accrued.liquidityIndex
  <1>1. GoodReserve(r) /\ now \in Nat /\ r.lastUpdate <= now
    BY InvGood DEF LInv, TypeOK
  <1>2. PICK i \in Nat, l \in Nat : i = r.liquidityIndex /\ l = r.lastUpdate
    BY <1>1, ReserveFields
  <1>3. PICK rate \in Nat : rate = supplyRateAt(r.model, utilizationOf(r))
    BY <1>1, ReserveFields, UnderlyingType, UtilizationType, SupplyRateType DEF GoodReserve, utilizationOf
  <1>4. r' = r /\ now' = now + 1
    BY DEF Tick
  <1>5. Accrued.liquidityIndex = IF l = now THEN i ELSE Grown(i, rate, Pos(now - l))
    BY <1>1, <1>2, <1>3 DEF Accrued, accrue, projectedIndex, Elapsed, GoodReserve, Reserve
  <1>6. Accrued'.liquidityIndex = Grown(i, rate, Pos(now + 1 - l))
    <2>1. l # now + 1
      BY <1>1, <1>2
    <2>2. projectedIndex(r)' = Grown(i, rate, Pos(now + 1 - l))
      <3>1. projectedIndex(r)' = Grown(r.liquidityIndex, supplyRateAt(r.model, utilizationOf(r)),
                                       Pos(now' - r.lastUpdate))
        BY <1>4 DEF projectedIndex, Elapsed, utilizationOf
      <3>2. now' - r.lastUpdate = now + 1 - l
        BY <1>1, <1>2, <1>4
      <3>3. projectedIndex(r)' = Grown(i, rate, Pos(now' - r.lastUpdate))
        BY <1>2, <1>3, <3>1
      <3> QED BY <3>2, <3>3
    <2> QED BY <1>1, <1>2, <1>4, <2>1, <2>2 DEF Accrued, accrue, GoodReserve, Reserve
  <1>7. PICK dt \in Nat, et \in Nat : dt = Pos(now - l) /\ et = Pos(now + 1 - l) /\ dt <= et
    BY <1>1, <1>2 DEF Pos
  <1>8. Grown(i, rate, et) \in Nat /\ i <= Grown(i, rate, et) /\ Grown(i, rate, dt) <= Grown(i, rate, et)
    BY <1>7, GrownType, GrownMono
  <1> QED BY <1>5, <1>6, <1>7, <1>8

\* The numbers of the adapter's books.
LEMMA EarningsFields ==
    ASSUME LInv
    PROVE  /\ net[Adapter] \in Int /\ ledger.interest \in Nat /\ ledger.lastBalance \in Nat
           /\ balanceOf(Adapter) \in Nat /\ scaledBalanceOf[Adapter] \in Nat
           /\ Accrued.liquidityIndex \in Nat \ {0} /\ CeilDiv(Accrued.liquidityIndex, WAD) \in Nat
           /\ txs \in Nat /\ RoundingLoss \in Nat
  <1>1. Accrued.liquidityIndex \in Nat \ {0} /\ CeilDiv(Accrued.liquidityIndex, WAD) \in Nat
    BY AccruedGood, ReserveFields, CeilBounds, UnitsAssumption
  <1>2. txs \in Nat /\ RoundingLoss \in Nat
    BY <1>1, MulNat DEF RoundingLoss, LInv, TypeOK
  <1> QED BY <1>1, <1>2, BalanceType, LendingAssumption DEF LInv, TypeOK

\* A checkpoint books the growth of the balance, no more and no less.
LEMMA CheckpointBooks ==
    ASSUME LInv, EarningsInv
    PROVE  checkpointed = ledger.interest + (balanceOf(Adapter) - ledger.lastBalance)
  BY EarningsFields DEF EarningsInv, checkpointed, Pos

LEMMA LossAllowance ==
    ASSUME LInv, NEW j \in Nat, Accrued.liquidityIndex <= j, NEW n \in Nat, txs <= n
    PROVE  RoundingLoss <= n * (CeilDiv(j, WAD) + 1) /\ n * (CeilDiv(j, WAD) + 1) \in Nat
  <1>1. PICK c \in Nat, d \in Nat :
           c = CeilDiv(Accrued.liquidityIndex, WAD) /\ d = CeilDiv(j, WAD) /\ c <= d
    BY EarningsFields, CeilBounds, CeilMono, UnitsAssumption
  <1>2. txs \in Nat /\ c + 1 \in Nat /\ d + 1 \in Nat /\ c + 1 <= d + 1
    BY <1>1, EarningsFields
  <1>3. txs * (c + 1) <= txs * (d + 1) /\ txs * (d + 1) <= n * (d + 1)
    BY <1>2, MulMono
  <1>4. txs * (c + 1) \in Nat /\ txs * (d + 1) \in Nat /\ n * (d + 1) \in Nat
    BY <1>2, MulNat
  <1> QED BY <1>1, <1>3, <1>4 DEF RoundingLoss

LEMMA EarningsKept ==
    ASSUME LInv, EarningsInv, net'[Adapter] = net[Adapter], ledger' = ledger,
           scaledBalanceOf'[Adapter] = scaledBalanceOf[Adapter],
           Accrued'.liquidityIndex \in Nat, Accrued.liquidityIndex <= Accrued'.liquidityIndex,
           txs' \in Nat, txs <= txs'
    PROVE  EarningsInv'
  <1>1. PICK i \in Nat, j \in Nat, s \in Nat, n \in Nat :
           /\ i = Accrued.liquidityIndex /\ j = Accrued'.liquidityIndex /\ s = scaledBalanceOf[Adapter]
           /\ n = txs' /\ i <= j
    BY EarningsFields
  <1>2. Underlying(s, i) <= Underlying(s, j) /\ Underlying(s, i) \in Nat /\ Underlying(s, j) \in Nat
    BY <1>1, UnderlyingMono, UnderlyingType
  <1>3. balanceOf(Adapter) = Underlying(s, i) /\ balanceOf(Adapter)' = Underlying(s, j)
    BY <1>1 DEF balanceOf, Underlying
  <1>4. RoundingLoss <= n * (CeilDiv(j, WAD) + 1) /\ n * (CeilDiv(j, WAD) + 1) \in Nat
    BY <1>1, LossAllowance
  <1>5. RoundingLoss' = n * (CeilDiv(j, WAD) + 1)
    BY <1>1 DEF RoundingLoss, CeilDiv
  <1>6. Loss' = Loss
    BY DEF Loss
  <1> QED BY <1>2, <1>3, <1>4, <1>5, <1>6, EarningsFields DEF EarningsInv

LEMMA EarningsCalled ==
    ASSUME LInv, EarningsInv, Called, Tx, NEW d \in Int, net'[Adapter] = net[Adapter] + d,
           ledger'.interest = checkpointed, ledger'.lastBalance = balanceAfter,
           balanceOf(Adapter) + d - balanceAfter \in 0 .. CeilDiv(Accrued.liquidityIndex, WAD)
    PROVE  EarningsInv'
  <1>1. now' = now /\ txs' = txs + 1
    BY DEF Tx
  <1>2. Accrued' = r'
    BY <1>1 DEF Called, Accrued, accrue
  <1>3. PICK i \in Nat, c \in Nat : i = Accrued.liquidityIndex /\ c = CeilDiv(i, WAD)
    BY EarningsFields
  <1>4. Accrued'.liquidityIndex = i
    BY <1>2, <1>3 DEF Called
  <1>5. balanceOf(Adapter)' = balanceAfter /\ balanceAfter \in Nat
    BY <1>2, BalanceAfterType DEF balanceOf, balanceAfter, Underlying
  <1>6. Loss' = Loss + (balanceOf(Adapter) + d - balanceAfter)
    BY <1>5, CheckpointBooks, EarningsFields DEF Loss
  <1>7. RoundingLoss' = RoundingLoss + (c + 1)
    <2>1. RoundingLoss' = (txs + 1) * (c + 1) /\ RoundingLoss = txs * (c + 1)
      BY <1>1, <1>3, <1>4 DEF RoundingLoss, CeilDiv
    <2>2. (txs + 1) * (c + 1) = txs * (c + 1) + (c + 1)
      BY EarningsFields
    <2> QED BY <2>1, <2>2
  <1> QED BY <1>3, <1>5, <1>6, <1>7, EarningsFields DEF EarningsInv

LEMMA EarningsSupply ==
    ASSUME LInv, EarningsInv, NEW a \in Nat, AdapterSupply(a) PROVE EarningsInv'
  <1>1. Called /\ Tx /\ poolSupply(Adapter, a)
    BY CalledBySupply, LendingAssumption DEF AdapterSupply
  <1>2. PICK i \in Nat \ {0}, s \in Nat :
           i = Accrued.liquidityIndex /\ s = scaledBalanceOf[Adapter]
    BY EarningsFields
  <1>3. PICK m \in Nat : m = (a * WAD) \div i /\ m * i <= a * WAD
    BY MintedWorth
  <1>4. net'[Adapter] = net[Adapter] + a /\ scaledBalanceOf'[Adapter] = s + m
    BY <1>1, <1>2, <1>3, LendingAssumption DEF poolSupply, scaledFor, LInv, TypeOK
  <1>5. balanceOf(Adapter) = Underlying(s, i) /\ balanceAfter = Underlying(s + m, i)
    BY <1>1, <1>2, <1>4 DEF balanceOf, balanceAfter, Called, Underlying
  <1>6. /\ Underlying(s + m, i) <= Underlying(s, i) + a
        /\ Underlying(s, i) + a <= Underlying(s + m, i) + CeilDiv(i, WAD)
    BY <1>3, UnderlyingAdds, MintLoses
  <1>7. balanceOf(Adapter) + a - balanceAfter \in 0 .. CeilDiv(i, WAD)
    BY <1>2, <1>5, <1>6, <1>1, EarningsFields, BalanceAfterType
  <1>8. ledger'.interest = checkpointed /\ ledger'.lastBalance = balanceAfter
    BY DEF AdapterSupply, ledgerAfterSupply, LInv, TypeOK
  <1> QED BY <1>1, <1>2, <1>4, <1>7, <1>8, EarningsCalled

LEMMA EarningsWithdraw ==
    ASSUME LInv, EarningsInv, NEW a \in Nat, AdapterWithdraw(a) PROVE EarningsInv'
  <1>1. Called /\ Tx /\ poolWithdraw(Adapter, a)
    BY CalledByWithdraw, LendingAssumption DEF AdapterWithdraw
  <1>2. PICK i \in Nat \ {0}, s \in Nat :
           i = Accrued.liquidityIndex /\ s = scaledBalanceOf[Adapter]
    BY EarningsFields
  <1>3. a <= Underlying(s, i)
    BY <1>1, <1>2 DEF poolWithdraw, CanWithdraw
  <1>4. PICK b \in Nat : /\ b = Min2(CeilDiv(a * WAD, i), s)
                         /\ b <= s /\ b <= CeilDiv(a * WAD, i) /\ a * WAD <= b * i
    <2>1. CeilDiv(a * WAD, i) \in Nat
      BY CeilBounds, MulNat, UnitsAssumption
    <2> QED BY <1>3, <2>1, BurntWorth DEF Min2
  <1>5. net'[Adapter] = net[Adapter] - a /\ scaledBalanceOf'[Adapter] = s - b
    BY <1>1, <1>2, <1>4, LendingAssumption DEF poolWithdraw, scaledBurn, LInv, TypeOK
  <1>6. balanceOf(Adapter) = Underlying(s, i) /\ balanceAfter = Underlying(s - b, i)
    BY <1>1, <1>2, <1>5 DEF balanceOf, balanceAfter, Called, Underlying
  <1>7. /\ Underlying(s - b, i) + a <= Underlying(s, i)
        /\ Underlying(s, i) <= Underlying(s - b, i) + a + CeilDiv(i, WAD)
    BY <1>4, UnderlyingSubtracts, BurnLoses
  <1>8. balanceOf(Adapter) + (-a) - balanceAfter \in 0 .. CeilDiv(i, WAD)
    BY <1>2, <1>6, <1>7, <1>1, EarningsFields, BalanceAfterType
  <1>9. ledger'.interest = checkpointed /\ ledger'.lastBalance = balanceAfter
    BY DEF AdapterWithdraw, ledgerAfterWithdrawal, LInv, TypeOK
  <1>10. -a \in Int /\ net'[Adapter] = net[Adapter] + (-a)
    BY <1>5, EarningsFields
  <1> QED BY <1>1, <1>2, <1>8, <1>9, <1>10, EarningsCalled

LEMMA EarningsStart == Init => EarningsInv
  <1> SUFFICES ASSUME Init PROVE EarningsInv
    OBVIOUS
  <1>1. LInv
    BY InitLInv
  <1>2. Loss = 0 /\ ledger.lastBalance = 0
    BY LendingAssumption DEF Init, Loss
  <1> QED BY <1>1, <1>2, EarningsFields DEF EarningsInv

LEMMA StepEarnings ==
    ASSUME LInv, EarningsInv, [Next]_vars PROVE EarningsInv'
  <1> USE LendingAssumption
  <1>1. ASSUME Called, Tx, ledger' = ledger, net'[Adapter] = net[Adapter] PROVE EarningsInv'
    <2>1. Accrued' = r' /\ txs' = txs + 1
      BY <1>1 DEF Called, Tx, Accrued, accrue
    <2>2. scaledBalanceOf'[Adapter] = scaledBalanceOf[Adapter]
      BY <1>1 DEF Called, MovesOwnMoney
    <2>3. Accrued'.liquidityIndex = Accrued.liquidityIndex
      BY <1>1, <2>1 DEF Called
    <2> QED BY <1>1, <2>1, <2>2, <2>3, EarningsFields, EarningsKept
  <1>2. ASSUME NEW x \in Models, SetRateModel(x) PROVE EarningsInv'
    BY <1>1, <1>2, CalledBySetRateModel DEF SetRateModel
  <1>3. ASSUME NEW t \in Utilizations, SetUtilization(t) PROVE EarningsInv'
    BY <1>1, <1>3, CalledBySetUtilization DEF SetUtilization
  <1>4. ASSUME NEW u \in Suppliers, NEW a \in Nat, Supply(u, a) PROVE EarningsInv'
    <2>1. net'[Adapter] = net[Adapter]
      BY <1>4 DEF Supply, poolSupply, LInv, TypeOK
    <2> QED BY <1>1, <1>4, <2>1, CalledBySupply DEF Supply
  <1>5. ASSUME NEW u \in Suppliers, NEW a \in Nat, Withdraw(u, a) PROVE EarningsInv'
    <2>1. net'[Adapter] = net[Adapter]
      BY <1>5 DEF Withdraw, poolWithdraw, LInv, TypeOK
    <2> QED BY <1>1, <1>5, <2>1, CalledByWithdraw DEF Withdraw
  <1>6. ASSUME NEW a \in Nat, AdapterSupply(a) \/ AdapterWithdraw(a) PROVE EarningsInv'
    BY <1>6, EarningsSupply, EarningsWithdraw
  <1>7. CASE AdapterWithdrawNothing
    <2>1. PICK c \in Nat, b \in Nat : c = checkpointed /\ b = balanceOf(Adapter)
      BY CheckpointType, EarningsFields
    <2>2. /\ r' = r /\ scaledBalanceOf' = scaledBalanceOf /\ net' = net /\ now' = now /\ txs' = txs + 1
          /\ ledger'.interest = c /\ ledger'.lastBalance = b
      BY <1>7, <2>1 DEF AdapterWithdrawNothing, Tx, LInv, TypeOK
    <2>3. Accrued' = Accrued
      BY <2>2 DEF Accrued, accrue, projectedIndex, projectedDebt, mintedInterest, Elapsed
    <2>4. balanceOf(Adapter)' = b
      BY <2>1, <2>2, <2>3 DEF balanceOf
    <2>5. Loss' = Loss
      BY <2>1, <2>2, CheckpointBooks, EarningsFields DEF Loss
    <2>6. PICK j \in Nat : j = Accrued.liquidityIndex
      BY EarningsFields
    <2>7. RoundingLoss' = (txs + 1) * (CeilDiv(j, WAD) + 1)
      BY <2>2, <2>3, <2>6 DEF RoundingLoss, CeilDiv
    <2>8. RoundingLoss <= RoundingLoss' /\ RoundingLoss' \in Nat
      <3>1. txs + 1 \in Nat /\ txs <= txs + 1
        BY EarningsFields
      <3> QED BY <2>6, <2>7, <3>1, LossAllowance
    <2> QED BY <2>1, <2>2, <2>4, <2>5, <2>8, EarningsFields DEF EarningsInv
  <1>8. CASE Tick
    <2>1. txs' = txs /\ ledger' = ledger /\ net' = net /\ scaledBalanceOf' = scaledBalanceOf
      BY <1>8 DEF Tick
    <2> QED BY <1>8, <2>1, IndexRises, EarningsKept, EarningsFields
  <1>9. CASE UNCHANGED vars
    <2>1. Accrued' = Accrued /\ txs' = txs /\ ledger' = ledger /\ net' = net /\ scaledBalanceOf' = scaledBalanceOf
      BY <1>9 DEF vars, Accrued, accrue, projectedIndex, projectedDebt, mintedInterest, Elapsed
    <2> QED BY <2>1, EarningsKept, EarningsFields
  <1>10. withdrawable \in Nat /\ \A u \in Suppliers : balanceOf(u) \in Nat
    BY WithdrawableType, BalanceType
  <1> QED BY <1>2, <1>3, <1>4, <1>5, <1>6, <1>7, <1>8, <1>9, <1>10 DEF Next

\* The interest the adapter reports is what its balance holds beyond the money
\* put in, but for the rounding of the pool, however its checkpoints fall.
THEOREM InterestExplainsBalanceHolds == Spec => []InterestExplainsBalance
  <1>1. LInv /\ EarningsInv => InterestExplainsBalance
    <2> SUFFICES ASSUME LInv, EarningsInv PROVE InterestExplainsBalance
      OBVIOUS
    <2>1. (net[Adapter] + cumulativeInterest) - balanceOf(Adapter) = Loss
      BY CheckpointBooks, EarningsFields DEF cumulativeInterest, Loss
    <2> QED BY <2>1 DEF EarningsInv, InterestExplainsBalance
  <1>2. LInv /\ EarningsInv /\ [Next]_vars => LInv' /\ EarningsInv'
    BY StepLInv, StepEarnings
  <1> QED BY <1>1, <1>2, InitLInv, EarningsStart, PTL DEF Spec

-----------------------------------------------------------------------------
(***************************************************************************)
(* Roles and the emergency controller, for any set of accounts.            *)
(***************************************************************************)

\* Typing and the shutdown implication are inductive together.
ControlInv == RolesTypeOK /\ ShutdownClosesEntries

LEMMA InitControl == RolesInit => ControlInv
  BY RiskManagerAssumption DEF RolesInit, ControlInv, RolesTypeOK, ShutdownClosesEntries, RoleNames

LEMMA NextControl == ControlInv /\ [RolesNext]_rolesVars => ControlInv'
  <1> SUFFICES ASSUME ControlInv, [RolesNext]_rolesVars PROVE ControlInv'
    OBVIOUS
  <1> USE DEF ControlInv, RolesTypeOK, ShutdownClosesEntries, flags
  <1>1. CASE UNCHANGED rolesVars
    BY <1>1 DEF rolesVars
  <1>2. ASSUME NEW caller \in Accounts, NEW role \in RoleNames, NEW account \in Accounts,
               GrantRole(caller, role, account) \/ RevokeRole(caller, role, account)
        PROVE  ControlInv'
    <2>1. CASE GrantRole(caller, role, account)
      <3>1. roles' \in [RoleNames -> SUBSET Accounts]
        BY <1>2, <2>1 DEF GrantRole
      <3> QED BY <2>1, <3>1, Zenon DEF GrantRole
    <2>2. CASE RevokeRole(caller, role, account)
      <3>1. roles' \in [RoleNames -> SUBSET Accounts]
        BY <1>2, <2>2 DEF RevokeRole
      <3> QED BY <2>2, <3>1, Zenon DEF RevokeRole
    <2> QED BY <1>2, <2>1, <2>2
  <1>3. ASSUME NEW caller \in Accounts, Initialize(caller) PROVE ControlInv'
    BY <1>3 DEF Initialize
  <1>4. ASSUME NEW caller \in Accounts, PauseDeposits(caller) PROVE ControlInv'
    BY <1>4, Zenon DEF PauseDeposits
  <1>5. ASSUME NEW caller \in Accounts, UnpauseDeposits(caller) PROVE ControlInv'
    BY <1>5, Zenon DEF UnpauseDeposits
  <1>6. ASSUME NEW caller \in Accounts, PauseStrategy(caller) PROVE ControlInv'
    BY <1>6, Zenon DEF PauseStrategy
  <1>7. ASSUME NEW caller \in Accounts, UnpauseStrategy(caller) PROVE ControlInv'
    BY <1>7, Zenon DEF UnpauseStrategy
  <1>8. ASSUME NEW caller \in Accounts, TripCircuitBreaker(caller) PROVE ControlInv'
    BY <1>8, Zenon DEF TripCircuitBreaker
  <1>9. ASSUME NEW caller \in Accounts, EmergencyUnwind(caller) PROVE ControlInv'
    BY <1>9, Zenon DEF EmergencyUnwind
  <1> QED BY <1>1, <1>2, <1>3, <1>4, <1>5, <1>6, <1>7, <1>8, <1>9
        DEF RolesNext

\* The role table and the flags keep their types.
THEOREM RolesTypeCorrect == RolesSpec => []RolesTypeOK
  <1>1. ControlInv => RolesTypeOK
    BY DEF ControlInv
  <1> QED BY InitControl, NextControl, <1>1, PTL DEF RolesSpec

\* From emergencyUnwind on, no deposit and no rebalance is possible
\* (EmergencyController.emergencyUnwind and the two unpause functions).
THEOREM ShutdownClosesEntriesHolds == RolesSpec => []ShutdownClosesEntries
  <1>1. ControlInv => ShutdownClosesEntries
    BY DEF ControlInv
  <1> QED BY InitControl, NextControl, <1>1, PTL DEF RolesSpec

\* Only an ADMIN ever lifts a pause (EmergencyController.sol:12-16), and no step
\* leaves the shutdown or reopens deposits or the strategy after it.
THEOREM OnlySaferHolds == RolesSpec => OnlySafer
  <1> DEFINE Terminal == isShutdown => isShutdown' /\ depositsPaused' /\ strategyPaused'
             ByAdmin == Relaxes => sender' \in roles["ADMIN"]
  <1>1. ControlInv /\ [RolesNext]_rolesVars => [Terminal]_rolesVars
    <2> SUFFICES ASSUME ControlInv, RolesNext, isShutdown
                 PROVE  isShutdown' /\ depositsPaused' /\ strategyPaused'
      OBVIOUS
    <2>1. isShutdown'
      BY DEF RolesNext, GrantRole, RevokeRole, Initialize, PauseDeposits, UnpauseDeposits,
             PauseStrategy, UnpauseStrategy, TripCircuitBreaker, EmergencyUnwind, flags
    <2>2. ControlInv'
      BY NextControl
    <2> QED BY <2>1, <2>2 DEF ControlInv, ShutdownClosesEntries
  <1>2. ControlInv /\ [RolesNext]_rolesVars => [ByAdmin]_rolesVars
    <2> SUFFICES ASSUME ControlInv, RolesNext, Relaxes PROVE sender' \in roles["ADMIN"]
      OBVIOUS
    <2> USE DEF ControlInv, RolesTypeOK, Relaxes, flags
    <2>1. PICK caller \in Accounts : UnpauseDeposits(caller) \/ UnpauseStrategy(caller)
      BY DEF RolesNext, GrantRole, RevokeRole, Initialize, PauseDeposits, PauseStrategy,
             TripCircuitBreaker, EmergencyUnwind
    <2> QED BY <2>1 DEF UnpauseDeposits, UnpauseStrategy, HasRole
  <1>3. ControlInv /\ [RolesNext]_rolesVars => [ByAdmin /\ Terminal]_rolesVars
    BY <1>1, <1>2
  <1> QED BY InitControl, NextControl, <1>3, PTL DEF RolesSpec, OnlySafer

-----------------------------------------------------------------------------

(***************************************************************************)
(* The keeper.                                                             *)
(***************************************************************************)

(* 130% of the estimate cover whatever a call may take. *)
HeadroomCovers == \A used \in GasNeeded : used <= withGasHeadroom(GasEstimate)

(* What a tick knows of the call it is at: the phase says which outcome the
   transaction had and which rows can be there, and only the last call of a
   tick can have made it say that it rebalanced. *)
TickIsConsistent ==
    /\ step = "idle" => phase = "read"
    /\ phase \in {"read", "simulate", "send"} => runRows = {} /\ outcome = "none"
    /\ phase \in {"wait", "record"} => runRows = {}
    /\ phase = "record" => outcome = "ok"
    /\ TRUE \in runRows => outcome = "ok"
    /\ phase = "done" => runRows # {}
    /\ rebalanced => step \in {"performUpkeep", "idle"}
    /\ rebalanced /\ step = "performUpkeep" => phase = "done" /\ outcome = "ok"
    /\ outcome = "pending" => gas = withGasHeadroom(GasEstimate)
    /\ outcome = "out of gas" => ~HeadroomCovers

KInv == KeeperTypeOK /\ TickIsConsistent

(* The counters, typed. *)
Counters ==
    obsAge \in 0..ObsCap /\ feeAge \in 0..FeeCap /\ skew \in 0..MaxSkew
    /\ keeperFaults \in 0..MaxKeeperFaults

LEMMA KInvCounts == KInv => Counters
  BY DEF KInv, KeeperTypeOK, Counters

LEMMA KeeperStarts == KeeperInit => KInv
<1> SUFFICES ASSUME KeeperInit PROVE KInv
  OBVIOUS
<1>1. Counters
  <2>1. obsAge = 0 /\ feeAge = 0 /\ skew = 0 /\ keeperFaults = 0
    BY DEF KeeperInit
  <2>2. QED BY <2>1, KeeperAssumption DEF Counters, ObsCap, FeeCap
<1>2. QED BY <1>1 DEF KeeperInit, KInv, KeeperTypeOK, TickIsConsistent, Counters

(* The next call of a tick starts from nothing, whatever the last one left;
   so does the end of a tick. *)
LEMMA NextCallIsFresh ==
    ASSUME KInv, NextCall, step # "idle", UNCHANGED <<chainVars, rebalanced, orphans, keeperFaults>>,
           step = "performUpkeep" \/ ~rebalanced
    PROVE  KInv'
<1>1. CASE step = "performUpkeep"
  <2>1. Counters'
    <3>1. /\ skew' = 0 /\ obsAge' = obsAge /\ feeAge' = feeAge
          /\ keeperFaults' = keeperFaults /\ Counters
      BY <1>1, KInvCounts DEF NextCall, EndTick, chainVars
    <3>2. QED BY <3>1, KeeperAssumption DEF Counters, ObsCap, FeeCap
  <2>2. QED
    BY <1>1, <2>1 DEF NextCall, EndTick, KInv, KeeperTypeOK, TickIsConsistent, chainVars, Counters
<1>2. CASE step # "performUpkeep"
  <2>1. /\ step' = Successor(step) /\ phase' = "read" /\ runRows' = {}
        /\ outcome' = "none" /\ gas' = 0 /\ skew' = skew
    BY <1>2 DEF NextCall, EnterCall
  <2>2. Successor(step) \in Calls
    BY <1>2 DEF Successor, Calls, KInv, KeeperTypeOK
  <2>3. QED
    BY <1>2, <2>1, <2>2, KeeperAssumption
       DEF KInv, KeeperTypeOK, TickIsConsistent, chainVars, Calls
<1>3. QED BY <1>1, <1>2

(* Mined calls, awaited or given up on, leave the ages within their bounds. *)
LEMMA EffectIsTyped ==
    ASSUME KInv, NEW call \in Calls, Effect(call)
    PROVE  /\ needed' \in BOOLEAN /\ danger' \in BOOLEAN /\ tripped' \in BOOLEAN
           /\ refused' \in SUBSET Refusable /\ trusted' \in BOOLEAN
           /\ obsAge' \in 0..ObsCap /\ feeAge' \in 0..FeeCap
<1>1. needed' \in BOOLEAN /\ tripped' \in BOOLEAN
  BY Zenon DEF Effect, KInv, KeeperTypeOK
<1>2. danger' \in BOOLEAN /\ refused' \in SUBSET Refusable /\ trusted' \in BOOLEAN
  BY DEF Effect, KInv, KeeperTypeOK
<1>3. obsAge' \in 0..ObsCap /\ feeAge' \in 0..FeeCap
  <2>1. /\ obsAge' = 0 \/ obsAge' = obsAge
        /\ feeAge' = 0 \/ feeAge' = feeAge
        /\ Counters
    BY KInvCounts DEF Effect
  <2>2. QED BY <2>1, KeeperAssumption DEF Counters, ObsCap, FeeCap
<1>4. QED BY <1>1, <1>2, <1>3

LEMMA KeeperSteps ==
    ASSUME KInv, [KeeperNext]_keeperVars
    PROVE  KInv'
<1> USE KeeperAssumption
<1>1. CASE StartTick
  <2>1. Counters'
    <3>1. /\ skew' = 0 /\ obsAge' = obsAge /\ feeAge' = feeAge
          /\ keeperFaults' = keeperFaults /\ Counters
      BY <1>1, KInvCounts DEF StartTick, chainVars
    <3>2. QED BY <3>1 DEF Counters, ObsCap, FeeCap
  <2>2. QED
    BY <1>1, <2>1 DEF StartTick, EnterCall, KInv, KeeperTypeOK, TickIsConsistent, chainVars, Calls, Counters
<1>2. CASE Read
  <2>1. CASE Due
    BY <1>2, <2>1 DEF Read, KInv, KeeperTypeOK, TickIsConsistent, chainVars
  <2>2. CASE ~Due
    BY <1>2, <2>2, NextCallIsFresh DEF Read, KInv, TickIsConsistent
  <2>3. QED BY <2>1, <2>2
<1>3. CASE Simulate
  BY <1>3 DEF Simulate, KeeperGoto, KInv, KeeperTypeOK, TickIsConsistent, chainVars
<1>4. CASE Send
  <2>1. CASE Reverts(step)
    BY <1>4, <2>1 DEF Send, KeeperGoto, KInv, KeeperTypeOK, TickIsConsistent, chainVars
  <2>2. CASE ~Reverts(step)
    <3>1. withGasHeadroom(GasEstimate) \in Nat
      BY DEF withGasHeadroom
    <3>2. QED
      BY <1>4, <2>2, <3>1 DEF Send, KInv, KeeperTypeOK, TickIsConsistent, chainVars
  <2>3. QED BY <2>1, <2>2
<1>5. CASE Receipt
  BY <1>5 DEF Receipt, KeeperGoto, KInv, KeeperTypeOK, TickIsConsistent, chainVars
<1>6. CASE Record
  <2>1. rebalanced' \in BOOLEAN /\ (rebalanced' => step = "performUpkeep")
    BY <1>6, Zenon DEF Record, KInv, KeeperTypeOK, TickIsConsistent
  <2>2. QED
    BY <1>6, <2>1 DEF Record, KInv, KeeperTypeOK, TickIsConsistent, chainVars
<1>7. CASE RecordFailure
  BY <1>7 DEF RecordFailure, KInv, KeeperTypeOK, TickIsConsistent, chainVars
<1>8. CASE FinishCall
  BY <1>8, NextCallIsFresh DEF FinishCall, KInv, TickIsConsistent
<1>9. CASE ReadFails
  <2>1. Counters'
    <3>1. /\ skew' = 0 /\ obsAge' = obsAge /\ feeAge' = feeAge /\ Counters
          /\ keeperFaults < MaxKeeperFaults /\ keeperFaults' = keeperFaults + 1
      BY <1>9, KInvCounts DEF ReadFails, Fault, EndTick, chainVars
    <3>2. QED BY <3>1 DEF Counters, ObsCap, FeeCap
  <2>2. QED
    BY <1>9, <2>1 DEF ReadFails, EndTick, KInv, KeeperTypeOK, TickIsConsistent, chainVars, Counters
<1>10. CASE NodeFails
  <2>1. Counters'
    <3>1. /\ skew' = skew /\ obsAge' = obsAge /\ feeAge' = feeAge /\ Counters
          /\ keeperFaults < MaxKeeperFaults /\ keeperFaults' = keeperFaults + 1
      BY <1>10, KInvCounts DEF NodeFails, Fault, chainVars
    <3>2. QED BY <3>1 DEF Counters, ObsCap, FeeCap
  <2>2. QED
    BY <1>10, <2>1 DEF NodeFails, KInv, KeeperTypeOK, TickIsConsistent, chainVars, Counters
<1>11. CASE RecordThrows
  <2>1. Counters'
    <3>1. /\ skew' = skew /\ obsAge' = obsAge /\ feeAge' = feeAge /\ Counters
          /\ keeperFaults < MaxKeeperFaults /\ keeperFaults' = keeperFaults + 1
      BY <1>11, KInvCounts DEF RecordThrows, Fault, chainVars
    <3>2. QED BY <3>1 DEF Counters, ObsCap, FeeCap
  <2>2. QED
    BY <1>11, <2>1 DEF RecordThrows, KInv, KeeperTypeOK, TickIsConsistent, chainVars, Counters
<1>12. CASE AbortTick
  <2>1. Counters'
    <3>1. /\ skew' = 0 /\ obsAge' = obsAge /\ feeAge' = feeAge /\ Counters
          /\ keeperFaults < MaxKeeperFaults /\ keeperFaults' = keeperFaults + 1
      BY <1>12, KInvCounts DEF AbortTick, Fault, EndTick, chainVars
    <3>2. QED BY <3>1 DEF Counters, ObsCap, FeeCap
  <2>2. QED
    BY <1>12, <2>1 DEF AbortTick, EndTick, KInv, KeeperTypeOK, TickIsConsistent, chainVars, Counters
<1>13. CASE Mine
  <2>1. PICK used \in GasNeeded :
           \/ outcome' = "reverted" /\ UNCHANGED chainVars
           \/ used > gas /\ outcome' = "out of gas" /\ UNCHANGED chainVars
           \/ outcome' = "ok" /\ Effect(step)
    BY <1>13 DEF Mine
  <2>2. gas = withGasHeadroom(GasEstimate) /\ phase = "wait" /\ step \in Calls
    BY <1>13 DEF Mine, KInv, KeeperTypeOK, TickIsConsistent
  <2>3. CASE UNCHANGED chainVars /\ outcome' = "out of gas" /\ used > gas
    <3>1. withGasHeadroom(GasEstimate) \in Nat
      BY DEF withGasHeadroom
    <3>2. used \in Nat /\ gas \in Nat /\ ~(used <= gas)
      <4>1. used \in Nat
        OBVIOUS
      <4>2. gas \in Nat
        BY <2>2, <3>1
      <4>3. used > gas
        BY <2>3, Zenon
      <4>4. QED BY <4>1, <4>2, <4>3
    <3>3. ~HeadroomCovers
      BY <2>2, <3>2 DEF HeadroomCovers
    <3>4. QED
      BY <1>13, <2>2, <2>3, <3>3 DEF Mine, keeper, chainVars, KInv, KeeperTypeOK, TickIsConsistent
  <2>4. CASE UNCHANGED chainVars /\ outcome' = "reverted"
    BY <1>13, <2>2, <2>4 DEF Mine, keeper, chainVars, KInv, KeeperTypeOK, TickIsConsistent
  <2>5. CASE outcome' = "ok" /\ Effect(step)
    BY <1>13, <2>2, <2>5, EffectIsTyped DEF Mine, keeper, KInv, KeeperTypeOK, TickIsConsistent
  <2>6. QED BY <2>1, <2>3, <2>4, <2>5
<1>14. CASE MineOrphan
  <2>1. PICK call \in orphans :
           /\ orphans' = orphans \ {call}
           /\ IF Reverts(call) THEN UNCHANGED chainVars ELSE Effect(call)
    BY <1>14 DEF MineOrphan
  <2>2. UNCHANGED <<keeper, skew, outcome, keeperFaults>>
    BY <1>14 DEF MineOrphan
  <2>3. call \in Calls /\ orphans' \in SUBSET Calls
    BY <2>1 DEF KInv, KeeperTypeOK
  <2>4. ASSUME /\ needed' \in BOOLEAN /\ danger' \in BOOLEAN /\ tripped' \in BOOLEAN
               /\ refused' \in SUBSET Refusable /\ trusted' \in BOOLEAN
               /\ obsAge' \in 0..ObsCap /\ feeAge' \in 0..FeeCap
        PROVE  KInv'
    <3>1. /\ step' = step /\ phase' = phase /\ gas' = gas /\ runRows' = runRows
          /\ rebalanced' = rebalanced /\ skew' = skew /\ outcome' = outcome
          /\ keeperFaults' = keeperFaults
      BY <2>2 DEF keeper
    <3>2. KeeperTypeOK'
      BY <2>3, <2>4, <3>1 DEF KInv, KeeperTypeOK
    <3>3. TickIsConsistent'
      BY <3>1 DEF KInv, TickIsConsistent
    <3>4. QED BY <3>2, <3>3 DEF KInv
  <2>5. CASE UNCHANGED chainVars
    <3>1. /\ needed' \in BOOLEAN /\ danger' \in BOOLEAN /\ tripped' \in BOOLEAN
          /\ refused' \in SUBSET Refusable /\ trusted' \in BOOLEAN
          /\ obsAge' \in 0..ObsCap /\ feeAge' \in 0..FeeCap
      <4>1. /\ UNCHANGED <<needed, danger, tripped>>
            /\ UNCHANGED <<refused, trusted, obsAge, feeAge>>
        BY <2>5 DEF chainVars
      <4>2. needed' \in BOOLEAN /\ danger' \in BOOLEAN /\ tripped' \in BOOLEAN
        BY <4>1 DEF KInv, KeeperTypeOK
      <4>3. /\ refused' \in SUBSET Refusable /\ trusted' \in BOOLEAN
            /\ obsAge' \in 0..ObsCap /\ feeAge' \in 0..FeeCap
        BY <4>1 DEF KInv, KeeperTypeOK
      <4>4. QED BY <4>2, <4>3
    <3>2. QED BY <2>4, <3>1
  <2>6. CASE Effect(call)
    <3>1. /\ needed' \in BOOLEAN /\ danger' \in BOOLEAN /\ tripped' \in BOOLEAN
          /\ refused' \in SUBSET Refusable /\ trusted' \in BOOLEAN
          /\ obsAge' \in 0..ObsCap /\ feeAge' \in 0..FeeCap
      BY <2>3, <2>6, EffectIsTyped
    <3>2. QED BY <2>4, <3>1
  <2>7. QED BY <2>1, <2>5, <2>6
<1>15. CASE Market
  <2>1. needed' \in BOOLEAN /\ danger' \in BOOLEAN /\ trusted' \in BOOLEAN
    BY <1>15, Zenon DEF Market, KInv, KeeperTypeOK
  <2>2. refused' \in SUBSET Refusable
    BY <1>15 DEF Market, KInv, KeeperTypeOK
  <2>3. QED
    BY <1>15, <2>1, <2>2 DEF Market, keeper, KInv, KeeperTypeOK, TickIsConsistent
<1>16. CASE Time
  <2>1. Counters'
    <3>1. /\ step = "idle" \/ skew < MaxSkew
          /\ obsAge' = Cap(obsAge + 1, ObsCap) /\ feeAge' = Cap(feeAge + 1, FeeCap)
          /\ skew' = IF step = "idle" THEN skew ELSE skew + 1
          /\ keeperFaults' = keeperFaults /\ Counters
      BY <1>16, KInvCounts DEF Time
    <3>2. QED BY <3>1 DEF Counters, Cap, ObsCap, FeeCap
  <2>2. /\ needed' \in BOOLEAN /\ danger' \in BOOLEAN /\ tripped' \in BOOLEAN
        /\ refused' \in SUBSET Refusable /\ trusted' \in BOOLEAN
    BY <1>16 DEF Time, KInv, KeeperTypeOK
  <2>3. QED
    BY <1>16, <2>1, <2>2 DEF Time, keeper, KInv, KeeperTypeOK, TickIsConsistent, Counters
<1>17. CASE UNCHANGED keeperVars
  <2>1. /\ UNCHANGED <<needed, danger, tripped, refused, trusted>> /\ UNCHANGED <<obsAge, feeAge, skew, keeperFaults>>
        /\ UNCHANGED <<step, phase, gas, orphans>> /\ UNCHANGED <<outcome, runRows, rebalanced>>
    BY <1>17 DEF keeperVars, chainVars, keeper
  <2>2. KeeperTypeOK'
    <3>1. /\ needed' \in BOOLEAN /\ danger' \in BOOLEAN /\ tripped' \in BOOLEAN
          /\ refused' \in SUBSET Refusable /\ trusted' \in BOOLEAN
      BY <2>1 DEF KInv, KeeperTypeOK
    <3>2. /\ obsAge' \in 0..ObsCap /\ feeAge' \in 0..FeeCap /\ skew' \in 0..MaxSkew
          /\ keeperFaults' \in 0..MaxKeeperFaults
      BY <2>1 DEF KInv, KeeperTypeOK
    <3>3. /\ step' \in Calls \cup {"idle"}
          /\ phase' \in {"read", "simulate", "send", "wait", "record", "failed", "done"}
          /\ gas' \in {0, withGasHeadroom(GasEstimate)} /\ orphans' \in SUBSET Calls
      BY <2>1 DEF KInv, KeeperTypeOK
    <3>4. /\ outcome' \in {"none", "pending", "ok", "reverted", "out of gas"}
          /\ runRows' \in SUBSET BOOLEAN /\ rebalanced' \in BOOLEAN
          /\ outcome' = "pending" => phase' = "wait"
      BY <2>1 DEF KInv, KeeperTypeOK
    <3>5. QED BY <3>1, <3>2, <3>3, <3>4 DEF KeeperTypeOK
  <2>3. TickIsConsistent'
    BY <2>1 DEF KInv, TickIsConsistent
  <2>4. QED BY <2>2, <2>3 DEF KInv
<1>18. QED
  BY <1>1, <1>2, <1>3, <1>4, <1>5, <1>6, <1>7, <1>8, <1>9, <1>10, <1>11, <1>12,
     <1>13, <1>14, <1>15, <1>16, <1>17 DEF KeeperNext, KeeperStep, Failure

(* Whatever fails, is lost, is mined late or runs out of gas, in whatever
   order: a success row and a tick that says it rebalanced stand for a mined
   call, and a finished attempt has its row (keeper.ts:72, 89, 102). *)
THEOREM RowsTellTheTruth == KeeperSpec => [](SuccessRowsAreMined /\ AttemptsAreRecorded)
<1>1. KInv => SuccessRowsAreMined /\ AttemptsAreRecorded
  BY DEF KInv, TickIsConsistent, SuccessRowsAreMined, AttemptsAreRecorded
<1>2. QED
  BY KeeperStarts, KeeperSteps, <1>1, PTL DEF KeeperSpec

(* Nor does a call run out of gas, as long as 130% of the estimate cover what
   a call may take (gas.ts:5-11). *)
THEOREM KeeperTellsTheTruthHolds ==
    ASSUME HeadroomCovers
    PROVE  KeeperSpec => []KeeperTellsTheTruth
<1>1. KInv => KeeperTellsTheTruth
  BY DEF KInv, KeeperTypeOK, TickIsConsistent, KeeperTellsTheTruth, SuccessRowsAreMined,
         AttemptsAreRecorded, HeadroomSuffices
<1>2. QED
  BY KeeperStarts, KeeperSteps, <1>1, PTL DEF KeeperSpec

(***************************************************************************)
(* The alerts.                                                             *)
(***************************************************************************)

Row == [key : Keys, severity : Severities, opened : Nat, resolved : Nat, active : BOOLEAN]
Moment == [Keys -> Severities \cup {"none"}]

(* A row that tells the truth about the times it names. *)
Founded(row) ==
    /\ row.active <=> row.resolved = 0
    /\ row.opened \in 1..Len(history) /\ row.key \in Raised(row.opened)
    /\ ~row.active => row.resolved \in 1..Len(history) /\ row.key \notin Raised(row.resolved)

HistoryOK == history \in Seq(Moment) /\ Len(history) \in 1..(MaxChanges + 1)

TableOK ==
    /\ alerts \in Seq(Row)
    /\ \A id \in 1..Len(alerts) : Founded(alerts[id])
    /\ \A id, id2 \in 1..Len(alerts) :
         alerts[id].active /\ alerts[id2].active /\ alerts[id].key = alerts[id2].key => id = id2

(* What a process remembers between two awaits: the ids it knows still belong
   to their keys, however the rows have changed since, and the keys it has
   left were raised, or not raised, at the time it evaluated them. *)
MemoryOK(p) ==
    /\ ts[p] \in 1..Len(history)
    /\ \A k \in DOMAIN known[p] :
         known[p][k] \in 1..Len(alerts) /\ alerts[known[p][k]].key = k
    /\ alertPc[p] = "open" => keysLeft[p] \subseteq Raised(ts[p])
    /\ alertPc[p] = "resolve" => keysLeft[p] \subseteq Unseen(p)

AInv ==
    /\ HistoryOK /\ TableOK
    /\ alertPc \in [Syncers -> {"idle", "read", "open", "resolve"}]
    /\ ts \in [Syncers -> Nat] /\ keysLeft \in [Syncers -> SUBSET Keys]
    /\ known = [p \in Syncers |-> known[p]]
    /\ \A p \in Syncers : MemoryOK(p)
    /\ alertFaults \in 0..MaxAlertFaults

LEMMA AlertsStart == AlertsInit => AInv
<1> SUFFICES ASSUME AlertsInit PROVE AInv
  OBVIOUS
<1>1. NoCondition \in Moment
  BY DEF NoCondition, Moment
<1>2. HistoryOK
  BY <1>1, AlertsAssumption DEF AlertsInit, HistoryOK
<1>3. TableOK
  BY EmptySeq DEF AlertsInit, TableOK
<1>4. ASSUME NEW p \in Syncers PROVE MemoryOK(p)
  BY <1>4 DEF AlertsInit, MemoryOK
<1>5. QED
  BY <1>2, <1>3, <1>4, AlertsAssumption DEF AlertsInit, AInv

(* A row may be rewritten in place as long as it keeps its key, tells the
   truth and does not become active again. *)
LEMMA RowRewritten ==
    ASSUME AInv, NEW id \in 1..Len(alerts), NEW row \in Row, Founded(row),
           row.key = alerts[id].key, row.active => alerts[id].active,
           alerts' = [alerts EXCEPT ![id] = row], UNCHANGED history
    PROVE  /\ TableOK'
           /\ Len(alerts') = Len(alerts)
           /\ \A i \in 1..Len(alerts) : alerts'[i].key = alerts[i].key
<1>1. alerts \in Seq(Row)
  BY DEF AInv, TableOK
<1>2. /\ alerts' \in Seq(Row) /\ Len(alerts') = Len(alerts)
      /\ \A i \in 1..Len(alerts) : alerts'[i] = IF i = id THEN row ELSE alerts[i]
  <2>1. /\ [alerts EXCEPT ![id] = row] \in Seq(Row)
        /\ Len([alerts EXCEPT ![id] = row]) = Len(alerts)
        /\ \A i \in 1..Len(alerts) : [alerts EXCEPT ![id] = row][i] = IF i = id THEN row ELSE alerts[i]
    <3> DEFINE S == Row
    <3>1. alerts \in Seq(S) /\ row \in S
      BY <1>1
    <3> HIDE DEF S
    <3>2. [alerts EXCEPT ![id] = row] \in Seq(S)
      BY <3>1
    <3>3. /\ Len([alerts EXCEPT ![id] = row]) = Len(alerts)
          /\ \A i \in 1..Len(alerts) : [alerts EXCEPT ![id] = row][i] = IF i = id THEN row ELSE alerts[i]
      BY <3>1
    <3>4. QED BY <3>2, <3>3 DEF S
  <2>2. QED BY <2>1, Zenon
<1>3. \A i \in 1..Len(alerts) : alerts'[i].key = alerts[i].key
  BY <1>2
<1>5. ASSUME NEW i \in 1..Len(alerts') PROVE Founded(alerts[i])'
  <2>1. Founded(alerts[i]) /\ i \in 1..Len(alerts)
    BY <1>2, <1>5 DEF AInv, TableOK
  <2>2. CASE i = id
    <3>1. alerts'[i] = row
      BY <1>2, <2>1, <2>2
    <3>2. QED BY <3>1 DEF Founded, Raised
  <2>3. CASE i # id
    <3>1. alerts'[i] = alerts[i]
      BY <1>2, <2>1, <2>3
    <3>2. QED BY <2>1, <3>1 DEF Founded, Raised
  <2>4. QED BY <2>2, <2>3
<1>6. ASSUME NEW i \in 1..Len(alerts'), NEW j \in 1..Len(alerts'),
             alerts'[i].active, alerts'[j].active, alerts'[i].key = alerts'[j].key
      PROVE  i = j
  <2>1. alerts[i].active /\ alerts[j].active /\ alerts[i].key = alerts[j].key
    BY <1>2, <1>3, <1>6, Zenon
  <2>2. QED BY <1>2, <2>1 DEF AInv, TableOK
<1>7. QED BY <1>2, <1>3, <1>5, <1>6 DEF TableOK

(* Where nothing of a process changes, its memory stays right while others
   append to the table or rewrite rows and the conditions of the chain go on. *)
LEMMA MemoryKept ==
    ASSUME AInv, NEW p \in Syncers,
           ts'[p] = ts[p], known'[p] = known[p], alertPc'[p] = alertPc[p],
           keysLeft'[p] \subseteq keysLeft[p],
           Len(history') \in Nat, Len(history) <= Len(history'),
           \A t \in 1..Len(history) : history'[t] = history[t],
           Len(alerts') \in Nat, Len(alerts) <= Len(alerts'),
           \A i \in 1..Len(alerts) : alerts'[i].key = alerts[i].key
    PROVE  MemoryOK(p)'
<1>1. MemoryOK(p)
  BY DEF AInv
<1>2. Len(history) \in Nat /\ Len(alerts) \in Nat
  BY LenProperties DEF AInv, HistoryOK, TableOK
<1>3. Raised(ts[p])' = Raised(ts[p])
  BY <1>1 DEF Raised, MemoryOK
<1>4. Unseen(p)' = Unseen(p)
  BY <1>3 DEF Unseen
<1>5. ts'[p] \in 1..Len(history')
  BY <1>1, <1>2 DEF MemoryOK
<1>6. \A k \in DOMAIN known'[p] :
        known'[p][k] \in 1..Len(alerts') /\ alerts'[known'[p][k]].key = k
  <2>1. ASSUME NEW k \in DOMAIN known[p]
        PROVE  known[p][k] \in 1..Len(alerts') /\ alerts'[known[p][k]].key = k
    <3>1. known[p][k] \in 1..Len(alerts) /\ alerts[known[p][k]].key = k
      BY <1>1 DEF MemoryOK
    <3>2. QED BY <1>2, <3>1
  <2>2. QED BY <2>1
<1>7. QED
  BY <1>1, <1>3, <1>4, <1>5, <1>6 DEF MemoryOK

(* The same for all processes but one, whose memory is shown apart. *)
LEMMA OthersKept ==
    ASSUME AInv, NEW p \in Syncers, MemoryOK(p)',
           \A q \in Syncers \ {p} : /\ ts'[q] = ts[q] /\ known'[q] = known[q]
                                    /\ alertPc'[q] = alertPc[q] /\ keysLeft'[q] = keysLeft[q],
           history' = history, Len(alerts') \in Nat, Len(alerts) <= Len(alerts'),
           \A i \in 1..Len(alerts) : alerts'[i].key = alerts[i].key
    PROVE  \A q \in Syncers : MemoryOK(q)'
<1> SUFFICES ASSUME NEW q \in Syncers \ {p} PROVE MemoryOK(q)'
  OBVIOUS
<1>1. Len(history) \in Nat
  BY LenProperties DEF AInv, HistoryOK
<1>2. QED BY <1>1, MemoryKept

LEMMA ConditionsChange == AInv /\ Change => AInv'
<1> SUFFICES ASSUME AInv, Change PROVE AInv'
  OBVIOUS
<1>1. PICK k \in Keys, s \in Severities \cup {"none"} :
         history' = Append(history, [Last(history) EXCEPT ![k] = s])
  BY DEF Change
<1>2. UNCHANGED <<alerts, alertPc, ts, known, keysLeft, alertFaults>> /\ Len(history) <= MaxChanges
  BY DEF Change
<1>3. history \in Seq(Moment) /\ Len(history) \in 1..(MaxChanges + 1)
  BY DEF AInv, HistoryOK
<1>4. Last(history) \in Moment
  BY <1>3, ElementOfSeq DEF Last
<1>5. [Last(history) EXCEPT ![k] = s] \in Moment
  BY <1>4 DEF Moment
<1>6. /\ history' \in Seq(Moment) /\ Len(history') = Len(history) + 1
      /\ \A t \in 1..Len(history) : history'[t] = history[t]
  BY <1>1, <1>3, <1>5, AppendProperties
<1>7. HistoryOK'
  BY <1>2, <1>3, <1>6, AlertsAssumption DEF HistoryOK
<1>8. \A t \in 1..Len(history) : Raised(t)' = Raised(t)
  BY <1>6 DEF Raised
<1>9. ASSUME NEW id \in 1..Len(alerts) PROVE Founded(alerts[id])'
  <2>1. Founded(alerts[id])
    BY DEF AInv, TableOK
  <2>2. QED BY <1>2, <1>3, <1>6, <1>8, <2>1 DEF Founded
<1>10. TableOK'
  BY <1>2, <1>9 DEF AInv, TableOK
<1>11. ASSUME NEW p \in Syncers PROVE MemoryOK(p)'
  <2>1. Len(alerts) \in Nat
    BY LenProperties DEF AInv, TableOK
  <2>2. QED BY <1>2, <1>3, <1>6, <2>1, MemoryKept
<1>12. QED
  BY <1>2, <1>7, <1>10, <1>11 DEF AInv

(* What is left of a sync that has ended. *)
ForgottenOK(p) == ts[p] = 1 /\ DOMAIN known[p] = {} /\ alertPc[p] = "idle" /\ keysLeft[p] = {}

LEMMA EndIsClean ==
    ASSUME AInv, NEW p \in Syncers, SyncEnds(p)
    PROVE  /\ ForgottenOK(p)'
           /\ \A q \in Syncers \ {p} : /\ ts'[q] = ts[q] /\ known'[q] = known[q]
                                       /\ alertPc'[q] = alertPc[q] /\ keysLeft'[q] = keysLeft[q]
           /\ alertPc' \in [Syncers -> {"idle", "read", "open", "resolve"}]
           /\ ts' \in [Syncers -> Nat] /\ keysLeft' \in [Syncers -> SUBSET Keys]
           /\ known' = [q \in Syncers |-> known'[q]]
<1>1. ts'[p] = 1 /\ known'[p] = <<>> /\ alertPc'[p] = "idle" /\ keysLeft'[p] = {}
  BY DEF AInv, SyncEnds, AlertsGoto
<1>2. ForgottenOK(p)'
  BY <1>1 DEF ForgottenOK
<1>3. \A q \in Syncers \ {p} : /\ ts'[q] = ts[q] /\ known'[q] = known[q]
                              /\ alertPc'[q] = alertPc[q] /\ keysLeft'[q] = keysLeft[q]
  BY DEF AInv, SyncEnds, AlertsGoto
<1>4. /\ alertPc' \in [Syncers -> {"idle", "read", "open", "resolve"}]
      /\ ts' \in [Syncers -> Nat] /\ keysLeft' \in [Syncers -> SUBSET Keys]
  BY DEF AInv, SyncEnds, AlertsGoto
<1>5. known' = [q \in Syncers |-> known'[q]]
  BY DEF AInv, SyncEnds
<1>6. QED BY <1>2, <1>3, <1>4, <1>5

LEMMA ReadsAreRight ==
    ASSUME AInv, NEW p \in Syncers, Evaluate(p) \/ ReadActive(p) \/ Handled(p) \/ Finish(p) \/ AlertsFail(p)
    PROVE  AInv'
<1>1. /\ history' = history /\ alerts' = alerts
      /\ \A q \in Syncers \ {p} : /\ ts'[q] = ts[q] /\ known'[q] = known[q]
                                  /\ alertPc'[q] = alertPc[q] /\ keysLeft'[q] = keysLeft[q]
  BY DEF AInv, Evaluate, ReadActive, Handled, Finish, AlertsFail, AlertsGoto, SyncEnds
<1>2. HistoryOK' /\ TableOK' /\ Len(history) \in 1..(MaxChanges + 1) /\ Len(alerts) \in Nat
  <2>1. HistoryOK' /\ Len(history) \in 1..(MaxChanges + 1)
    BY <1>1 DEF AInv, HistoryOK
  <2>2. \A id \in 1..Len(alerts) : Founded(alerts[id])'
    BY <1>1 DEF AInv, TableOK, Founded, Raised
  <2>3. TableOK' /\ Len(alerts) \in Nat
    BY <1>1, <2>2, LenProperties DEF AInv, TableOK
  <2>4. QED BY <2>1, <2>3
<1>3. MemoryOK(p)
  BY DEF AInv
<1>4. Raised(ts[p]) \subseteq Keys /\ Unseen(p) \subseteq Keys
  <2>1. ASSUME NEW k \in DOMAIN known[p] PROVE k \in Keys
    <3>1. known[p][k] \in 1..Len(alerts) /\ alerts[known[p][k]].key = k
      BY <1>3 DEF MemoryOK
    <3>2. alerts[known[p][k]] \in Row
      BY <3>1, ElementOfSeq DEF AInv, TableOK
    <3>3. QED BY <3>1, <3>2 DEF Row
  <2>2. QED BY <2>1 DEF Raised, Unseen
<1>5. CASE Evaluate(p)
  <2>1. MemoryOK(p)'
    BY <1>1, <1>2, <1>3, <1>5 DEF AInv, Evaluate, AlertsGoto, MemoryOK
  <2>2. QED
    BY <1>1, <1>2, <1>5, <2>1, OthersKept DEF AInv, Evaluate, AlertsGoto
<1>6. CASE ReadActive(p)
  <2>1. keysLeft'[p] = Raised(ts[p]) /\ ts' = ts /\ alertPc'[p] = "open"
    BY <1>6 DEF AInv, ReadActive, AlertsGoto
  <2>2. known'[p] = [k \in {alerts[id].key : id \in ActiveIds} |->
                       CHOOSE id \in ActiveIds : alerts[id].key = k]
    BY <1>6 DEF AInv, ReadActive
  <2>3. ASSUME NEW k \in DOMAIN known'[p]
        PROVE  known'[p][k] \in 1..Len(alerts) /\ alerts[known'[p][k]].key = k
    <3>1. known'[p][k] \in ActiveIds /\ alerts[known'[p][k]].key = k
      BY <2>2
    <3>2. ActiveIds \subseteq 1..Len(alerts)
      BY LenProperties DEF ActiveIds, AInv, TableOK
    <3>3. QED BY <3>1, <3>2
  <2>4. Raised(ts[p])' = Raised(ts[p])
    BY <1>1, <2>1 DEF Raised
  <2>5. MemoryOK(p)'
    BY <1>1, <1>3, <2>1, <2>3, <2>4 DEF MemoryOK
  <2>6. QED
    <3>1. /\ alertPc' \in [Syncers -> {"idle", "read", "open", "resolve"}]
          /\ ts' \in [Syncers -> Nat] /\ alertFaults' \in 0..MaxAlertFaults
      BY <1>6 DEF AInv, ReadActive, AlertsGoto
    <3>2. keysLeft' \in [Syncers -> SUBSET Keys]
      BY <1>4, <1>6 DEF AInv, ReadActive
    <3>3. known' = [q \in Syncers |-> known'[q]]
      BY <1>6 DEF AInv, ReadActive
    <3>4. \A q \in Syncers : MemoryOK(q)'
      BY <1>1, <1>2, <2>5, OthersKept
    <3>5. QED BY <1>2, <3>1, <3>2, <3>3, <3>4 DEF AInv
<1>7. CASE Handled(p)
  <2>1. /\ keysLeft'[p] = Unseen(p) /\ ts' = ts /\ known' = known /\ alertPc'[p] = "resolve"
    BY <1>7 DEF AInv, Handled, AlertsGoto
  <2>2. Unseen(p)' = Unseen(p)
    BY <1>1, <2>1 DEF Raised, Unseen
  <2>3. MemoryOK(p)'
    BY <1>1, <1>3, <2>1, <2>2 DEF MemoryOK
  <2>4. QED
    BY <1>1, <1>2, <1>4, <1>7, <2>3, OthersKept DEF AInv, Handled, AlertsGoto
<1>8. CASE Finish(p) \/ AlertsFail(p)
  <2>1. SyncEnds(p) /\ alertFaults' \in 0..MaxAlertFaults
    BY <1>8, AlertsAssumption DEF AInv, Finish, AlertsFail
  <2>2. ForgottenOK(p)'
    BY <2>1, EndIsClean
  <2>3. MemoryOK(p)'
    BY <1>1, <1>2, <2>2 DEF ForgottenOK, MemoryOK
  <2>4. \A q \in Syncers : MemoryOK(q)'
    BY <1>1, <1>2, <2>3, OthersKept
  <2>5. QED
    BY <1>2, <2>1, <2>4, EndIsClean DEF AInv
<1>9. QED BY <1>5, <1>6, <1>7, <1>8

LEMMA HandleIsRight ==
    ASSUME AInv, NEW p \in Syncers, Handle(p)
    PROVE  /\ AInv'
           /\ \A i \in 1..Len(alerts) : ~alerts[i].active => ~alerts'[i].active
<1>1. PICK k \in keysLeft[p] :
        \/ /\ k \in DOMAIN known[p] /\ alerts' = Refreshed(p, k)
           /\ keysLeft' = [keysLeft EXCEPT ![p] = @ \ {k}] /\ UNCHANGED <<alertPc, ts, known>>
        \/ /\ ~Conflict(k) /\ alerts' = Append(alerts, NewRow(p, k))
           /\ keysLeft' = [keysLeft EXCEPT ![p] = @ \ {k}] /\ UNCHANGED <<alertPc, ts, known>>
        \/ SyncEnds(p) /\ alerts' = alerts
  BY DEF Handle
<1>2. alertPc[p] = "open" /\ UNCHANGED <<history, alertFaults>>
  BY DEF Handle
<1>3. /\ MemoryOK(p) /\ HistoryOK' /\ Len(history) \in 1..(MaxChanges + 1)
      /\ alerts \in Seq(Row) /\ Len(alerts) \in Nat
  BY <1>2, LenProperties DEF AInv, HistoryOK, TableOK
<1>4. k \in Keys /\ ts[p] \in 1..Len(history) /\ k \in Raised(ts[p])
  BY <1>2, <1>3 DEF AInv, MemoryOK
<1>5. history[ts[p]][k] \in Severities
  <2>1. history[ts[p]] \in Moment
    BY <1>4, ElementOfSeq DEF AInv, HistoryOK
  <2>2. QED BY <1>4, <2>1 DEF Moment, Raised
<1>6. CASE k \in DOMAIN known[p] /\ alerts' = Refreshed(p, k)
           /\ keysLeft' = [keysLeft EXCEPT ![p] = @ \ {k}] /\ UNCHANGED <<alertPc, ts, known>>
  <2> DEFINE id == known[p][k]
             row == [alerts[id] EXCEPT !.severity = history[ts[p]][k]]
  <2>1. id \in 1..Len(alerts) /\ alerts[id] \in Row /\ Founded(alerts[id])
    BY <1>3, <1>6, ElementOfSeq DEF MemoryOK, AInv, TableOK
  <2>2. /\ row \in Row /\ row.key = alerts[id].key /\ row.active = alerts[id].active
        /\ row.opened = alerts[id].opened /\ row.resolved = alerts[id].resolved
    BY <1>5, <2>1 DEF Row
  <2>3. Founded(row)
    BY <2>1, <2>2, Zenon DEF Founded
  <2>4. alerts' = [alerts EXCEPT ![id] = row]
    BY <1>6 DEF Refreshed
  <2> HIDE DEF id, row
  <2>5. /\ TableOK' /\ Len(alerts') = Len(alerts)
        /\ \A i \in 1..Len(alerts) : alerts'[i].key = alerts[i].key
    BY <1>2, <2>1, <2>2, <2>3, <2>4, RowRewritten
  <2>6. keysLeft'[p] \subseteq keysLeft[p]
    BY <1>6 DEF AInv
  <2>7. MemoryOK(p)'
    BY <1>2, <1>3, <1>6, <2>5, <2>6, MemoryKept
  <2>8. AInv'
    BY <1>2, <1>3, <1>6, <2>5, <2>7, OthersKept DEF AInv
  <2>9. ASSUME NEW i \in 1..Len(alerts), ~alerts[i].active PROVE ~alerts'[i].active
    BY <1>3, <2>1, <2>2, <2>4, <2>9, ExceptSeq
  <2>10. QED BY <2>8, <2>9
<1>7. CASE ~Conflict(k) /\ alerts' = Append(alerts, NewRow(p, k))
           /\ keysLeft' = [keysLeft EXCEPT ![p] = @ \ {k}] /\ UNCHANGED <<alertPc, ts, known>>
  <2> DEFINE row == NewRow(p, k)
  <2>1. /\ row \in Row /\ row.key = k /\ row.active /\ row.opened = ts[p] /\ row.resolved = 0
    BY <1>3, <1>4, <1>5 DEF NewRow, Row
  <2>2. Founded(row)
    BY <1>4, <2>1, Zenon DEF Founded
  <2>3. alerts' = Append(alerts, row)
    BY <1>7
  <2> HIDE DEF row
  <2>4. /\ alerts' \in Seq(Row) /\ Len(alerts') = Len(alerts) + 1
        /\ \A i \in 1..Len(alerts) : alerts'[i] = alerts[i]
        /\ alerts'[Len(alerts) + 1] = row
    BY <1>3, <2>1, <2>3, AppendProperties
  <2>5. ASSUME NEW i \in 1..Len(alerts') PROVE Founded(alerts[i])'
    <3>1. CASE i = Len(alerts) + 1
      BY <1>2, <2>2, <2>4, <3>1 DEF Founded, Raised
    <3>2. CASE i \in 1..Len(alerts)
      <4>1. Founded(alerts[i])
        BY <3>2 DEF AInv, TableOK
      <4>2. QED BY <1>2, <2>4, <3>2, <4>1 DEF Founded, Raised
    <3>3. QED BY <1>3, <2>4, <3>1, <3>2
  <2>6. \A i \in 1..Len(alerts) : ~(alerts[i].active /\ alerts[i].key = k)
    BY <1>3, <1>7, LenProperties DEF Conflict, ActiveIds
  <2>7. ASSUME NEW i \in 1..Len(alerts'), NEW j \in 1..Len(alerts'),
               alerts'[i].active, alerts'[j].active, alerts'[i].key = alerts'[j].key
        PROVE  i = j
    <3>1. CASE i \in 1..Len(alerts) /\ j \in 1..Len(alerts)
      BY <2>4, <2>7, <3>1 DEF AInv, TableOK
    <3>2. CASE i = Len(alerts) + 1 /\ j \in 1..Len(alerts)
      BY <2>1, <2>4, <2>6, <2>7, <3>2
    <3>3. CASE j = Len(alerts) + 1 /\ i \in 1..Len(alerts)
      BY <2>1, <2>4, <2>6, <2>7, <3>3
    <3>4. QED BY <1>3, <2>4, <3>1, <3>2, <3>3
  <2>8. TableOK'
    BY <2>4, <2>5, <2>7 DEF TableOK
  <2>9. keysLeft'[p] \subseteq keysLeft[p]
    BY <1>7 DEF AInv
  <2>10. MemoryOK(p)'
    BY <1>2, <1>3, <1>7, <2>4, <2>9, MemoryKept
  <2>11. AInv'
    BY <1>2, <1>3, <1>7, <2>4, <2>8, <2>10, OthersKept DEF AInv
  <2>12. QED BY <2>4, <2>11
<1>8. CASE SyncEnds(p) /\ alerts' = alerts
  <2>1. \A i \in 1..Len(alerts) : Founded(alerts[i])'
    BY <1>2, <1>8 DEF AInv, TableOK, Founded, Raised
  <2>2. TableOK'
    BY <1>8, <2>1 DEF AInv, TableOK
  <2>3. MemoryOK(p)'
    BY <1>2, <1>3, <1>8, EndIsClean DEF ForgottenOK, MemoryOK
  <2>4. \A q \in Syncers : MemoryOK(q)'
    BY <1>2, <1>3, <1>8, <2>3, OthersKept, EndIsClean
  <2>5. AInv'
    BY <1>2, <1>3, <1>8, <2>2, <2>4, EndIsClean DEF AInv
  <2>6. QED BY <1>8, <2>5
<1>9. QED BY <1>1, <1>6, <1>7, <1>8

LEMMA ResolveIsRight ==
    ASSUME AInv, NEW p \in Syncers, Resolve(p)
    PROVE  /\ AInv'
           /\ \A i \in 1..Len(alerts) : ~alerts[i].active => ~alerts'[i].active
<1>1. PICK k \in keysLeft[p] :
        /\ alerts' = [alerts EXCEPT ![known[p][k]] = [@ EXCEPT !.active = FALSE, !.resolved = ts[p]]]
        /\ keysLeft' = [keysLeft EXCEPT ![p] = @ \ {k}]
  BY DEF Resolve
<1>2. alertPc[p] = "resolve" /\ UNCHANGED <<history, alertPc, ts, known, alertFaults>>
  BY DEF Resolve
<1>3. /\ MemoryOK(p) /\ HistoryOK' /\ Len(history) \in 1..(MaxChanges + 1)
      /\ alerts \in Seq(Row) /\ Len(alerts) \in Nat
  BY <1>2, LenProperties DEF AInv, HistoryOK, TableOK
<1> DEFINE id == known[p][k]
           row == [alerts[id] EXCEPT !.active = FALSE, !.resolved = ts[p]]
<1>4. k \in DOMAIN known[p] /\ k \notin Raised(ts[p]) /\ ts[p] \in 1..Len(history)
  BY <1>2, <1>3 DEF MemoryOK, Unseen
<1>5. id \in 1..Len(alerts) /\ alerts[id] \in Row /\ Founded(alerts[id]) /\ alerts[id].key = k
  BY <1>3, <1>4, ElementOfSeq DEF MemoryOK, AInv, TableOK
<1>6. /\ row \in Row /\ row.key = k /\ ~row.active
      /\ row.opened = alerts[id].opened /\ row.resolved = ts[p]
  <2>1. ts[p] \in Nat
    BY <1>3, <1>4
  <2> HIDE DEF id
  <2>2. /\ row.key = alerts[id].key /\ row.severity = alerts[id].severity
        /\ row.opened = alerts[id].opened /\ row.resolved = ts[p] /\ row.active = FALSE
    BY <1>5 DEF Row
  <2>3. row \in Row
    BY <1>5, <2>1 DEF Row
  <2>4. QED BY <1>5, <2>2, <2>3
<1>7. Founded(row)
  BY <1>3, <1>4, <1>5, <1>6 DEF Founded
<1>8. alerts' = [alerts EXCEPT ![id] = row]
  BY <1>1
<1> HIDE DEF id, row
<1>9. /\ TableOK' /\ Len(alerts') = Len(alerts)
      /\ \A i \in 1..Len(alerts) : alerts'[i].key = alerts[i].key
  BY <1>2, <1>5, <1>6, <1>7, <1>8, RowRewritten
<1>10. keysLeft'[p] \subseteq keysLeft[p]
  BY <1>1 DEF AInv
<1>11. MemoryOK(p)'
  BY <1>2, <1>3, <1>9, <1>10, MemoryKept
<1>12. AInv'
  BY <1>1, <1>2, <1>3, <1>9, <1>11, OthersKept DEF AInv
<1>13. ASSUME NEW i \in 1..Len(alerts), ~alerts[i].active PROVE ~alerts'[i].active
  BY <1>3, <1>6, <1>8, <1>13, ExceptSeq
<1>14. QED BY <1>12, <1>13

LEMMA AlertsSteps ==
    ASSUME AInv, [AlertsNext]_alertVars
    PROVE  /\ AInv'
           /\ \A i \in 1..Len(alerts) : ~alerts[i].active => ~alerts'[i].active
<1>1. CASE Change
  BY <1>1, ConditionsChange DEF Change
<1>2. ASSUME NEW p \in Syncers, syncAlerts(p) \/ AlertsFail(p)
      PROVE  /\ AInv'
             /\ \A i \in 1..Len(alerts) : ~alerts[i].active => ~alerts'[i].active
  <2>1. CASE Handle(p)
    BY <2>1, HandleIsRight
  <2>2. CASE Resolve(p)
    BY <2>2, ResolveIsRight
  <2>3. CASE Evaluate(p) \/ ReadActive(p) \/ Handled(p) \/ Finish(p) \/ AlertsFail(p)
    <3>1. alerts' = alerts
      BY <2>3 DEF Evaluate, ReadActive, Handled, Finish, AlertsFail
    <3>2. QED BY <2>3, <3>1, ReadsAreRight
  <2>4. QED BY <1>2, <2>1, <2>2, <2>3 DEF syncAlerts
<1>3. CASE UNCHANGED alertVars
  BY <1>3 DEF alertVars, AInv, HistoryOK, TableOK, MemoryOK, Founded, Raised, Unseen
<1>4. QED BY <1>1, <1>2, <1>3 DEF AlertsNext

LEMMA AlertsInvHolds == AlertsSpec => []AInv
<1>1. AInv /\ [AlertsNext]_alertVars => AInv'
  BY AlertsSteps
<1>2. QED BY AlertsStart, <1>1, PTL DEF AlertsSpec

(* For any number of processes and keys, however their awaits interleave and
   whichever of them fail: a key has at most one active alert, and a row says
   opened and resolved of times at which the condition did and did not hold
   (alerts.ts:161-185, 001_init.sql:170-182). *)
THEOREM AlertsAreFoundedHolds == AlertsSpec => []AlertsAreFounded
<1>1. AInv => AlertsAreFounded
  <2> SUFFICES ASSUME AInv PROVE AlertsAreFounded
    OBVIOUS
  <2>1. /\ DOMAIN alerts = 1..Len(alerts) /\ DOMAIN history = 1..Len(history)
        /\ \A id \in 1..Len(alerts) : alerts[id] \in Row
    BY LenProperties, ElementOfSeq DEF AInv, HistoryOK, TableOK
  <2>2. OneActivePerKey
    BY <2>1 DEF AInv, TableOK, OneActivePerKey, ActiveIds
  <2>3. EdgesAreFounded
    BY <2>1 DEF AInv, TableOK, Founded, EdgesAreFounded
  <2>4. \A id \in DOMAIN alerts :
          alerts[id].severity \in Severities /\ (alerts[id].active <=> alerts[id].resolved = 0)
    BY <2>1 DEF AInv, TableOK, Founded, Row
  <2>5. AlertsTypeOK
    BY <2>1, <2>4 DEF AInv, HistoryOK, MemoryOK, AlertsTypeOK
  <2>6. QED BY <2>2, <2>3, <2>5 DEF AlertsAreFounded
<1>2. QED BY AlertsInvHolds, <1>1, PTL

(* No step makes a resolved alert active again: a condition that returns gets
   a row of its own, also when a process still knows the old one as active. *)
THEOREM ResolvedStaysResolvedHolds == AlertsSpec => ResolvedStaysResolved
<1>1. AInv /\ [AlertsNext]_alertVars
      => [\A id \in DOMAIN alerts : ~alerts[id].active => ~alerts'[id].active]_alertVars
  <2>1. AInv => DOMAIN alerts = 1..Len(alerts)
    BY LenProperties DEF AInv, TableOK
  <2>2. QED BY <2>1, AlertsSteps
<1>2. QED BY AlertsInvHolds, <1>1, PTL DEF AlertsSpec, ResolvedStaysResolved

(***************************************************************************)
(* The snapshots.                                                          *)
(***************************************************************************)

SnapshotPlaces == {"idle", "reading", "vault", "position", "pnl", "commit"}
SnapshotRows == [id : Nat, block : Nat, read : SUBSET Nat]

(* The one row a transaction writes, the same in every table: of the block the
   process is pinned to, and read there. *)
RowOf(p, i) == [id |-> i, block |-> bn[p], read |-> {bn[p]}]

Written == [idle |-> {}, reading |-> {}, vault |-> {}, position |-> {"vault"},
            pnl |-> {"vault", "position"}, commit |-> Tables]

Pending(p, i) == [t \in Tables |-> IF t \in Written[snapshotPc[p]] THEN {RowOf(p, i)} ELSE {}]

(* What a process has read and written so far. *)
ProcOK(p) ==
    /\ DOMAIN got[p] \subseteq Groups
    /\ \A g \in DOMAIN got[p] : got[p][g] = bn[p]
    /\ snapshotPc[p] \notin {"idle", "reading"} => DOMAIN got[p] = Groups
    /\ \E i \in Nat : open[p] = Pending(p, i)

(* The three tables hold the same rows. *)
TablesOK ==
    /\ tables = [t \in Tables |-> tables["vault"]]
    /\ tables["vault"] \in SUBSET SnapshotRows /\ IsFiniteSet(tables["vault"])
    /\ \A row \in tables["vault"] : row.read = {row.block}
    /\ \A row, q \in tables["vault"] : row.id = q.id \/ row.block = q.block => row = q

(* Rows of open transactions collide with no other row in identifier or block. *)
Apart ==
    /\ \A p \in Snapshotters : \A row \in open[p]["vault"], q \in tables["vault"] :
         row.id # q.id /\ row.block # q.block
    /\ \A p, p2 \in Snapshotters : \A row \in open[p]["vault"], q \in open[p2]["vault"] :
         p # p2 => row.id # q.id /\ row.block # q.block

SnapshotTypes ==
    /\ height \in 1..MaxHeight
    /\ snapshotPc \in [Snapshotters -> SnapshotPlaces]
    /\ bn \in [Snapshotters -> 0..height]
    /\ got = [p \in Snapshotters |-> got[p]]
    /\ open = [p \in Snapshotters |-> open[p]]
    /\ snapshotFaults \in 0..MaxSnapshotFaults

SInv == SnapshotTypes /\ (\A p \in Snapshotters : ProcOK(p)) /\ TablesOK /\ Apart

LEMMA GroupsAre == Groups = {"block", "vault", "positions", "pnl", "risk", "fees", "oracle",
                             "perp", "delta", "feeShares"}
<1>1. Groups = Rounds[1] \cup Rounds[2] \cup Rounds[3]
  BY 1..3 = {1, 2, 3} DEF Groups
<1>2. QED BY <1>1 DEF Rounds

LEMMA SnapshotsStart == SnapshotsInit => SInv
<1> SUFFICES ASSUME SnapshotsInit PROVE SInv
  OBVIOUS
<1>1. SnapshotTypes
  BY SnapshotsAssumption DEF SnapshotsInit, SnapshotTypes, SnapshotPlaces
<1>2. ASSUME NEW p \in Snapshotters PROVE ProcOK(p)
  <2>1. open[p] = Pending(p, 0)
    BY DEF SnapshotsInit, NoRows, Pending, Written
  <2>2. QED BY <2>1 DEF SnapshotsInit, ProcOK
<1>3. TablesOK
  BY FS_EmptySet DEF SnapshotsInit, TablesOK, NoRows, Tables
<1>4. Apart
  BY DEF SnapshotsInit, Apart, NoRows, Tables
<1>5. QED BY <1>1, <1>2, <1>3, <1>4 DEF SInv

(* A process has at most its own row in the table of vault snapshots. *)
LEMMA OpenRows ==
    ASSUME SInv, NEW p \in Snapshotters
    PROVE  /\ open[p]["vault"] \subseteq SnapshotRows /\ IsFiniteSet(open[p]["vault"])
           /\ snapshotPc[p] \in {"idle", "reading", "vault"} => open[p] = NoRows
<1>1. PICK i \in Nat : open[p] = Pending(p, i)
  BY DEF SInv, ProcOK
<1>2. bn[p] \in Nat
  BY DEF SInv, SnapshotTypes
<1>3. open[p]["vault"] = {} \/ open[p]["vault"] = {RowOf(p, i)}
  BY <1>1 DEF Pending, Tables
<1>4. RowOf(p, i) \in SnapshotRows
  BY <1>2 DEF RowOf, SnapshotRows
<1>5. snapshotPc[p] \in {"idle", "reading", "vault"} => open[p] = NoRows
  BY <1>1 DEF Pending, Written, NoRows
<1>6. QED BY <1>3, <1>4, <1>5, FS_EmptySet, FS_Singleton

LEMMA ImageIsFinite ==
    ASSUME NEW f, IsFiniteSet(DOMAIN f), f = [x \in DOMAIN f |-> f[x]]
    PROVE  IsFiniteSet({f[x] : x \in DOMAIN f})
<1> DEFINE T == {f[x] : x \in DOMAIN f}
<1>1. f \in Surjection(DOMAIN f, T)
  BY DEF Surjection
<1>2. QED BY <1>1, FS_Surjection, Zenon

(* The sequence gives a number no row has, committed or not. *)
LEMMA FreshIdIsFresh ==
    ASSUME SInv
    PROVE  /\ FreshId \in Nat
           /\ \A row \in tables["vault"] : row.id # FreshId
           /\ \A p \in Snapshotters : \A row \in open[p]["vault"] : row.id # FreshId
<1> DEFINE written == UNION {open[q]["vault"] : q \in Snapshotters}
           used == {row.id : row \in tables["vault"] \cup written}
           c == Cardinality(used)
<1>1. IsFiniteSet({open[q]["vault"] : q \in Snapshotters})
  <2> DEFINE f == [q \in Snapshotters |-> open[q]["vault"]]
  <2>1. IsFiniteSet({f[x] : x \in DOMAIN f})
    BY SnapshotsAssumption, ImageIsFinite
  <2>2. {f[x] : x \in DOMAIN f} = {open[q]["vault"] : q \in Snapshotters}
    OBVIOUS
  <2>3. QED BY <2>1, <2>2
<1>2. IsFiniteSet(written)
  BY <1>1, OpenRows, FS_UNION, Zenon
<1>3. IsFiniteSet(tables["vault"] \cup written)
  BY <1>2, FS_Union, Zenon DEF SInv, TablesOK
<1>4. IsFiniteSet(used) /\ c \in Nat
  <2> DEFINE rows == tables["vault"] \cup written
             f == [row \in rows |-> row.id]
  <2>1. IsFiniteSet({f[x] : x \in DOMAIN f})
    <3>1. IsFiniteSet(DOMAIN f) /\ f = [x \in DOMAIN f |-> f[x]]
      BY <1>3
    <3> HIDE DEF f
    <3>2. QED BY <3>1, ImageIsFinite
  <2>2. {f[x] : x \in DOMAIN f} = used
    OBVIOUS
  <2>3. QED BY <2>1, <2>2, FS_CardinalityType
<1>5. \E n \in 1..(c + 1) : n \notin used
  <2> SUFFICES ASSUME 1..(c + 1) \subseteq used PROVE FALSE
    OBVIOUS
  <2>1. Cardinality(1..(c + 1)) <= c
    BY <1>4, FS_Subset, Zenon
  <2>2. Cardinality(1..(c + 1)) = c + 1
    BY <1>4, FS_Interval
  <2>3. QED BY <1>4, <2>1, <2>2
<1>6. FreshId \in 1..(c + 1) /\ FreshId \notin used
  BY <1>5 DEF FreshId
<1>7. \A row \in tables["vault"] \cup written : row.id # FreshId
  BY <1>6
<1>8. QED BY <1>4, <1>6, <1>7

(* A process that reads, fails or rolls back leaves no row of its own and, but
   for a commit, the tables as they are. *)
LEMMA ProcKept ==
    ASSUME NEW p \in Snapshotters, ProcOK(p),
           snapshotPc'[p] = snapshotPc[p], bn'[p] = bn[p], got'[p] = got[p], open'[p] = open[p]
    PROVE  ProcOK(p)'
  BY DEF ProcOK, Pending, RowOf

LEMMA ApartWithout ==
    ASSUME SInv, NEW p \in Snapshotters, open' = [open EXCEPT ![p] = NoRows],
           tables' = tables
    PROVE  Apart'
<1>1. \A q \in Snapshotters : open'[q]["vault"] = IF q = p THEN {} ELSE open[q]["vault"]
  BY DEF SInv, SnapshotTypes, NoRows, Tables
<1>2. QED BY <1>1 DEF SInv, Apart

LEMMA ReadsAreOfOneBlock ==
    ASSUME SInv, NEW p \in Snapshotters, StartRead(p) \/ ReadRound(p)
    PROVE  SInv'
<1>1. /\ open' = open /\ tables' = tables /\ height' = height /\ snapshotFaults' = snapshotFaults
      /\ \A q \in Snapshotters \ {p} :
            snapshotPc'[q] = snapshotPc[q] /\ bn'[q] = bn[q] /\ got'[q] = got[q] /\ open'[q] = open[q]
  BY DEF StartRead, ReadRound, SnapshotGoto, SInv, SnapshotTypes
<1>2. ASSUME NEW q \in Snapshotters \ {p} PROVE ProcOK(q)'
  BY <1>1, ProcKept DEF SInv
<1>3. TablesOK' /\ Apart'
  BY <1>1 DEF SInv, TablesOK, Apart
<1>4. open[p] = NoRows
  BY OpenRows DEF StartRead, ReadRound, SnapshotAt
<1>5. ASSUME snapshotPc'[p] \in {"reading", "vault"} PROVE \E i \in Nat : open'[p] = Pending(p, i)'
  <2>1. open'[p] = Pending(p, 0)'
    BY <1>1, <1>4, <1>5 DEF Pending, Written, NoRows
  <2>2. QED BY <2>1
<1>6. CASE StartRead(p)
  <2>1. SnapshotTypes'
    <3>1. bn' = [bn EXCEPT ![p] = height] /\ height \in 1..MaxHeight /\ bn \in [Snapshotters -> 0..height]
      BY <1>6 DEF StartRead, SInv, SnapshotTypes
    <3>2. height \in 0..height
      BY <3>1, SnapshotsAssumption
    <3>3. bn' \in [Snapshotters -> 0..height']
      BY <1>1, <3>1, <3>2
    <3>4. snapshotPc' \in [Snapshotters -> SnapshotPlaces]
      BY <1>6 DEF StartRead, SnapshotGoto, SInv, SnapshotTypes, SnapshotPlaces
    <3>5. got' = [q \in Snapshotters |-> got'[q]]
      BY <1>6 DEF StartRead, SInv, SnapshotTypes
    <3>6. QED BY <1>1, <3>3, <3>4, <3>5 DEF SInv, SnapshotTypes
  <2>2. got'[p] = <<>> /\ snapshotPc'[p] = "reading"
    BY <1>6 DEF StartRead, SnapshotGoto, SInv, SnapshotTypes
  <2>3. ProcOK(p)'
    BY <1>5, <2>2 DEF ProcOK
  <2>4. QED BY <1>2, <1>3, <2>1, <2>3 DEF SInv
<1>7. CASE ReadRound(p)
  <2>1. PICK i \in 1..3 :
          /\ \A j \in 1..(i - 1) : Rounds[j] \subseteq DOMAIN got[p]
          /\ got' = [got EXCEPT ![p] =
                       [g \in DOMAIN got[p] \cup Rounds[i] |->
                          IF g \in Rounds[i] THEN AnsweredAt(p) ELSE got[p][g]]]
          /\ SnapshotGoto(p, IF i = 3 THEN "vault" ELSE "reading")
    BY <1>7 DEF ReadRound
  <2>2. bn' = bn /\ ProcOK(p)
    BY <1>7 DEF ReadRound, SInv
  <2>3. SnapshotTypes'
    <3>1. snapshotPc' \in [Snapshotters -> SnapshotPlaces]
      BY <2>1 DEF SnapshotGoto, SInv, SnapshotTypes, SnapshotPlaces
    <3>2. got' = [q \in Snapshotters |-> got'[q]]
      BY <2>1 DEF SInv, SnapshotTypes
    <3>3. UNCHANGED <<height, bn, open, snapshotFaults>>
      BY <1>7 DEF ReadRound
    <3>4. QED BY <3>1, <3>2, <3>3 DEF SInv, SnapshotTypes
  <2>4. got'[p] = [g \in DOMAIN got[p] \cup Rounds[i] |->
                     IF g \in Rounds[i] THEN AnsweredAt(p) ELSE got[p][g]]
    BY <2>1 DEF SInv, SnapshotTypes
  <2>5. \A g \in DOMAIN got'[p] : got'[p][g] = bn'[p]
    BY <2>2, <2>4 DEF AnsweredAt, ProcOK
  <2>6. DOMAIN got'[p] = DOMAIN got[p] \cup Rounds[i]
    BY <2>4
  <2>7. Rounds[i] \subseteq Groups
    BY DEF Groups
  <2>8. i = 3 => DOMAIN got'[p] = Groups
    <3> SUFFICES ASSUME i = 3 PROVE Groups \subseteq DOMAIN got'[p]
      BY <2>2, <2>6, <2>7 DEF ProcOK
    <3>1. Rounds[1] \subseteq DOMAIN got[p] /\ Rounds[2] \subseteq DOMAIN got[p]
      BY <2>1
    <3>2. QED BY <2>6, <3>1 DEF Groups
  <2>9. snapshotPc'[p] = IF i = 3 THEN "vault" ELSE "reading"
    BY <2>1 DEF SnapshotGoto, SInv, SnapshotTypes
  <2>10. ProcOK(p)'
    BY <1>5, <2>2, <2>5, <2>6, <2>7, <2>8, <2>9 DEF ProcOK
  <2>11. QED BY <1>2, <1>3, <2>3, <2>10 DEF SInv
<1>8. QED BY <1>6, <1>7

(* What a process inserts is a row of the block it has read. *)
LEMMA RowIsOfTheBlock ==
    ASSUME SInv, NEW p \in Snapshotters, snapshotPc[p] \notin {"idle", "reading"},
           NEW t \in Tables, NEW i
    PROVE  SnapshotRow(p, t, i) = RowOf(p, i)
<1>1. DOMAIN got[p] = Groups /\ \A g \in Groups : got[p][g] = bn[p]
  BY DEF SInv, ProcOK
<1>2. toSnapshotRow[t] \subseteq Groups /\ toSnapshotRow[t] # {}
  BY GroupsAre DEF toSnapshotRow, Tables
<1>3. {got[p][g] : g \in toSnapshotRow[t]} = {bn[p]}
  BY <1>1, <1>2
<1>4. QED BY <1>3 DEF SnapshotRow, RowOf

LEMMA InsertsAreRight ==
    ASSUME SInv, NEW p \in Snapshotters, InsertVault(p) \/ InsertPosition(p) \/ InsertPnl(p)
    PROVE  SInv'
<1>1. /\ tables' = tables /\ height' = height /\ bn' = bn /\ got' = got
      /\ snapshotFaults' = snapshotFaults
  BY DEF InsertVault, InsertPosition, InsertPnl, AddRow
<1>2. /\ open' = [q \in Snapshotters |-> open'[q]] /\ snapshotPc' \in [Snapshotters -> SnapshotPlaces]
      /\ \A q \in Snapshotters \ {p} : snapshotPc'[q] = snapshotPc[q] /\ open'[q] = open[q]
  BY DEF InsertVault, InsertPosition, InsertPnl, AddRow, SnapshotGoto, SInv, SnapshotTypes,
         SnapshotPlaces
<1>3. SnapshotTypes' /\ TablesOK'
  BY <1>1, <1>2 DEF SInv, SnapshotTypes, TablesOK
<1>4. ASSUME NEW q \in Snapshotters \ {p} PROVE ProcOK(q)'
  BY <1>1, <1>2, ProcKept DEF SInv
<1>5. /\ ProcOK(p) /\ DOMAIN got[p] = Groups
      /\ snapshotPc[p] \in {"vault", "position", "pnl"}
  BY DEF InsertVault, InsertPosition, InsertPnl, SnapshotAt, SInv, ProcOK
<1>6. PICK i \in Nat : open[p] = Pending(p, i)
  BY <1>5 DEF ProcOK
<1>7. CASE InsertVault(p) /\ Taken(p)
  <2>1. open' = open /\ snapshotPc'[p] = "idle" /\ open[p] = NoRows
    BY <1>7, OpenRows DEF InsertVault, SnapshotAt, SnapshotGoto, SInv, SnapshotTypes
  <2>2. open'[p] = Pending(p, 0)'
    BY <2>1 DEF Pending, Written, NoRows
  <2>3. ProcOK(p)'
    BY <1>1, <1>5, <2>1, <2>2 DEF ProcOK
  <2>4. Apart'
    BY <1>1, <2>1 DEF SInv, Apart
  <2>5. QED BY <1>3, <1>4, <2>3, <2>4 DEF SInv
<1>8. CASE InsertVault(p) /\ ~Taken(p)
  <2>1. /\ snapshotPc[p] = "vault" /\ snapshotPc'[p] = "position" /\ ~Locked(p)
        /\ open' = [open EXCEPT ![p]["vault"] = @ \cup {SnapshotRow(p, "vault", FreshId)}]
    BY <1>8 DEF InsertVault, AddRow, SnapshotAt, SnapshotGoto, SInv, SnapshotTypes
  <2>2. SnapshotRow(p, "vault", FreshId) = RowOf(p, FreshId)
    BY <2>1, RowIsOfTheBlock DEF Tables
  <2>3. open[p] = NoRows
    BY <2>1, OpenRows
  <2>4. open'[p] = [t \in Tables |-> IF t = "vault" THEN {RowOf(p, FreshId)} ELSE {}]
    BY <2>1, <2>2, <2>3 DEF NoRows, Tables, SInv, SnapshotTypes
  <2>5. \E n \in Nat : open'[p] = Pending(p, n)'
    <3>1. PICK n \in Nat : n = FreshId
      BY FreshIdIsFresh
    <3>2. RowOf(p, n)' = RowOf(p, FreshId)
      BY <1>1, <3>1 DEF RowOf
    <3>3. Written[snapshotPc'[p]] = {"vault"}
      BY <2>1 DEF Written
    <3>4. Pending(p, n)' = [t \in Tables |-> IF t \in {"vault"} THEN {RowOf(p, FreshId)} ELSE {}]
      BY <3>2, <3>3 DEF Pending
    <3>5. QED BY <2>4, <3>4
  <2>6. ProcOK(p)'
    BY <1>1, <1>5, <2>1, <2>5 DEF ProcOK
  <2>7. open'[p]["vault"] = {RowOf(p, FreshId)}
    BY <2>4 DEF Tables
  <2>8. ASSUME NEW q \in tables["vault"] PROVE q.id # FreshId /\ q.block # bn[p]
    BY <1>8, <2>8, FreshIdIsFresh DEF Taken
  <2>9. ASSUME NEW p2 \in Snapshotters \ {p}, NEW q \in open[p2]["vault"]
        PROVE  q.id # FreshId /\ q.block # bn[p]
    BY <2>1, <2>9, FreshIdIsFresh DEF Locked
  <2>10. RowOf(p, FreshId).id = FreshId /\ RowOf(p, FreshId).block = bn[p]
    BY DEF RowOf
  <2>11. Apart'
    BY <1>1, <1>2, <2>7, <2>8, <2>9, <2>10 DEF SInv, Apart
  <2>12. QED BY <1>3, <1>4, <2>6, <2>11 DEF SInv
<1>9. CASE InsertPosition(p) \/ InsertPnl(p)
  <2> DEFINE t == IF snapshotPc[p] = "position" THEN "position" ELSE "pnl"
  <2>1. /\ snapshotPc[p] \in {"position", "pnl"} /\ t \in Tables
        /\ snapshotPc'[p] = IF snapshotPc[p] = "position" THEN "pnl" ELSE "commit"
        /\ open' = [open EXCEPT ![p][t] = @ \cup {SnapshotRow(p, t, TheId(p))}]
    BY <1>9 DEF InsertPosition, InsertPnl, AddRow, SnapshotAt, SnapshotGoto, Tables, SInv,
                SnapshotTypes
  <2>2. open[p]["vault"] = {RowOf(p, i)}
    BY <1>6, <2>1 DEF Pending, Written, Tables
  <2>3. TheId(p) = i
    BY <2>2 DEF TheId, RowOf
  <2>4. SnapshotRow(p, t, TheId(p)) = RowOf(p, i)
    BY <2>1, <2>3, RowIsOfTheBlock
  <2>5. open[p][t] = {}
    BY <1>6, <2>1 DEF Pending, Written, Tables
  <2>6. open'[p] = [u \in Tables |-> IF u = t THEN {RowOf(p, i)} ELSE open[p][u]]
    BY <1>6, <2>1, <2>4, <2>5 DEF SInv, SnapshotTypes, Pending
  <2>7. open'[p] = Pending(p, i)'
    <3>1. RowOf(p, i)' = RowOf(p, i)
      BY <1>1 DEF RowOf
    <3>2. \A u \in Tables :
            u \in Written[snapshotPc'[p]] <=> u = t \/ u \in Written[snapshotPc[p]]
      BY <2>1 DEF Written, Tables
    <3>3. \A u \in Tables : open[p][u] = IF u \in Written[snapshotPc[p]] THEN {RowOf(p, i)} ELSE {}
      BY <1>6 DEF Pending
    <3>4. open'[p] = [u \in Tables |-> IF u \in Written[snapshotPc'[p]] THEN {RowOf(p, i)} ELSE {}]
      BY <2>6, <3>2, <3>3
    <3>5. QED BY <3>1, <3>4 DEF Pending
  <2>8. ProcOK(p)'
    BY <1>1, <1>5, <2>1, <2>7 DEF ProcOK
  <2>9. open'[p]["vault"] = open[p]["vault"]
    BY <2>1, <2>6 DEF Tables
  <2>10. Apart'
    BY <1>1, <1>2, <2>9 DEF SInv, Apart
  <2>11. QED BY <1>3, <1>4, <2>8, <2>10 DEF SInv
<1>10. QED BY <1>7, <1>8, <1>9

(* A commit puts the row of the transaction into all three tables at once. *)
LEMMA CommitIsRight ==
    ASSUME SInv, NEW p \in Snapshotters, snapshotPc[p] = "commit", tables' = Committed(p),
           open' = [open EXCEPT ![p] = NoRows]
    PROVE  TablesOK' /\ Apart'
<1>1. PICK i \in Nat : open[p] = Pending(p, i)
  BY DEF SInv, ProcOK
<1>2. \A t \in Tables : open[p][t] = {RowOf(p, i)}
  BY <1>1 DEF Pending, Written
<1>3. bn[p] \in Nat
  BY DEF SInv, SnapshotTypes
<1>4. /\ RowOf(p, i) \in SnapshotRows /\ RowOf(p, i).id = i
      /\ RowOf(p, i).block = bn[p] /\ RowOf(p, i).read = {bn[p]}
  BY <1>3 DEF RowOf, SnapshotRows
<1> DEFINE new == RowOf(p, i)
<1> HIDE DEF new
<1>5. tables' = [t \in Tables |-> tables["vault"] \cup {new}]
  BY <1>2 DEF Committed, SInv, TablesOK, new
<1>6. tables'["vault"] = tables["vault"] \cup {new}
  BY <1>5 DEF Tables
<1>7. IsFiniteSet(tables'["vault"])
  <2>1. IsFiniteSet(tables["vault"]) /\ IsFiniteSet({new})
    BY FS_Singleton DEF SInv, TablesOK
  <2>2. IsFiniteSet(tables["vault"] \cup {new})
    BY <2>1, FS_Union
  <2>3. QED BY <1>6, <2>2
<1>8. open[p]["vault"] = {new}
  BY <1>2 DEF Tables, new
<1>9. \A q \in tables["vault"] : q.id # new.id /\ q.block # new.block
  BY <1>8 DEF SInv, Apart
<1>10. TablesOK'
  BY <1>4, <1>5, <1>6, <1>7, <1>9 DEF SInv, TablesOK, new
<1>11. \A q \in Snapshotters : open'[q]["vault"] = IF q = p THEN {} ELSE open[q]["vault"]
  BY DEF SInv, SnapshotTypes, NoRows, Tables
<1>12. \A q \in Snapshotters \ {p} : \A row \in open[q]["vault"] : row.id # new.id /\ row.block # new.block
  BY <1>8 DEF SInv, Apart
<1>13. Apart'
  BY <1>6, <1>11, <1>12 DEF SInv, Apart
<1>14. QED BY <1>10, <1>13

LEMMA EndsAreRight ==
    ASSUME SInv, NEW p \in Snapshotters, Commit(p) \/ SnapshotFail(p)
    PROVE  SInv'
<1>1. /\ open' = [open EXCEPT ![p] = NoRows] /\ height' = height /\ bn' = bn /\ got' = got
      /\ snapshotPc' = [snapshotPc EXCEPT ![p] = "idle"]
      /\ snapshotFaults' \in 0..MaxSnapshotFaults
  BY SnapshotsAssumption DEF Commit, SnapshotFail, SnapshotGoto, SInv, SnapshotTypes
<1>2. SnapshotTypes'
  BY <1>1 DEF SInv, SnapshotTypes, SnapshotPlaces
<1>3. ASSUME NEW q \in Snapshotters \ {p} PROVE ProcOK(q)'
  BY <1>1, ProcKept DEF SInv, SnapshotTypes
<1>4. open'[p] = NoRows /\ snapshotPc'[p] = "idle" /\ ProcOK(p)
  BY <1>1 DEF SInv, SnapshotTypes
<1>5. open'[p] = Pending(p, 0)'
  BY <1>4 DEF Pending, Written, NoRows
<1>6. ProcOK(p)'
  BY <1>1, <1>4, <1>5 DEF ProcOK
<1>7. CASE tables' = tables
  <2>1. TablesOK' /\ Apart'
    BY <1>1, <1>7, ApartWithout DEF SInv, TablesOK
  <2>2. QED BY <1>2, <1>3, <1>6, <2>1 DEF SInv
<1>8. CASE snapshotPc[p] = "commit" /\ tables' = Committed(p)
  <2>1. TablesOK' /\ Apart'
    BY <1>1, <1>8, CommitIsRight
  <2>2. QED BY <1>2, <1>3, <1>6, <2>1 DEF SInv
<1>9. QED BY <1>7, <1>8 DEF Commit, SnapshotFail, SnapshotAt

LEMMA SnapshotsSteps == SInv /\ [SnapshotsNext]_snapshotVars => SInv'
<1> SUFFICES ASSUME SInv, [SnapshotsNext]_snapshotVars PROVE SInv'
  OBVIOUS
<1>1. CASE MineHeight
  <2>1. \A p \in Snapshotters : ProcOK(p)'
    BY <1>1, ProcKept DEF MineHeight, SInv
  <2>2. QED
    BY <1>1, <2>1, SnapshotsAssumption DEF MineHeight, SInv, SnapshotTypes, TablesOK, Apart
<1>2. ASSUME NEW p \in Snapshotters, takeSnapshot(p) \/ SnapshotFail(p) PROVE SInv'
  BY <1>2, ReadsAreOfOneBlock, InsertsAreRight, EndsAreRight DEF takeSnapshot
<1>3. CASE UNCHANGED snapshotVars
  <2>1. \A p \in Snapshotters : ProcOK(p)'
    BY <1>3, ProcKept DEF snapshotVars, SInv
  <2>2. QED
    BY <1>3, <2>1 DEF snapshotVars, SInv, SnapshotTypes, TablesOK, Apart
<1>4. QED BY <1>1, <1>2, <1>3 DEF SnapshotsNext

(* For any number of processes and blocks, whoever dies where and however the
   answers of a COMMIT are lost: every stored row was read at the one block it
   is filed under, a snapshot is in all three tables or in none, and no block
   has two (reader.ts:4-5, repo.ts:76-104, 001_init.sql:44, 62). *)
THEOREM SnapshotsAreSoundHolds == SnapshotsSpec => []SnapshotsAreSound
<1>1. SInv => SnapshotsAreSound
  <2> SUFFICES ASSUME SInv PROVE SnapshotsAreSound
    OBVIOUS
  <2>1. \A t \in Tables : tables[t] = tables["vault"]
    BY DEF SInv, TablesOK
  <2>2. SnapshotIsOfOneBlock /\ OneToOne /\ OnePerBlock
    BY <2>1 DEF SInv, TablesOK, SnapshotIsOfOneBlock, OneToOne, OnePerBlock, Tables
  <2>3. \A p \in Snapshotters : open[p] # NoRows => snapshotPc[p] \in {"position", "pnl", "commit"}
    BY OpenRows DEF SInv, SnapshotTypes, SnapshotPlaces
  <2>4. SnapshotsTypeOK
    BY <2>3 DEF SInv, SnapshotTypes, SnapshotPlaces, ProcOK, SnapshotsTypeOK
  <2>5. QED BY <2>2, <2>4 DEF SnapshotsAreSound
<1>2. QED BY SnapshotsStart, SnapshotsSteps, <1>1, PTL DEF SnapshotsSpec
(***************************************************************************)
(* The indexer.                                                            *)
(***************************************************************************)

(* The row of a log by itself: which transactions of its own block unwound is
   all that matters for it. *)
RowAt(m) == LogRow(m, unwindTxs(m[1], m[1]))

FollowedPlaces(l, h) == {m \in Places(l, h) : Followed(LogAt(m))}

(* On-chain numbers tell the rebalances apart. *)
ChainOK ==
    /\ chain \in Seq(Seq([event : STRING, tx : Nat, own : BOOLEAN, id : Nat]))
    /\ IsFiniteSet(Rebalances)
    /\ \A m \in Rebalances : LogAt(m).id \in 1..Cardinality(Rebalances)
    /\ \A m, n \in Rebalances : LogAt(m).id = LogAt(n).id => m = n

StoredOK ==
    /\ \A row \in DOMAIN stored :
         stored[row] = 1 /\ \E m \in FollowedPlaces(1, Len(chain)) : row = RowAt(m)
    /\ RowsOf(1, watermark) \subseteq DOMAIN stored

(* A process at a chunk has everything before the chunk behind it, and what of
   the chunk is not in the tables still before it. *)
ProcessOK(p) ==
    indexerPc[p] \in {"fetch", "insert"} =>
        /\ 1 <= from[p] /\ from[p] <= to[p] /\ to[p] <= head[p]
        /\ RowsOf(1, from[p] - 1) \subseteq DOMAIN stored
        /\ indexerPc[p] = "insert" =>
             /\ todo[p] \subseteq RowsOf(from[p], to[p])
             /\ RowsOf(from[p], to[p]) \subseteq DOMAIN stored \cup todo[p]

(* While the builder runs nobody else does; once the others run, it is done. *)
BuilderFirst ==
    \/ /\ active = Builders
       /\ \A p \in Indexers \ Builders : indexerPc[p] = "idle"
    \/ /\ active = Indexers \ Builders
       /\ \A p \in Indexers : indexerPc[p] # "reset"
       /\ \A p \in Builders : indexerPc[p] = "idle"

IndexerInv ==
    IndexerTypeOK /\ ChainOK /\ StoredOK /\ BuilderFirst /\ \A p \in Indexers : ProcessOK(p)

LEMMA PlaceIs ==
    ASSUME NEW l, NEW h, NEW m
    PROVE  m \in Places(l, h) <=> \E n \in l..h : \E i \in DOMAIN chain[n] : m = <<n, i>>
  BY DEF Places

LEMMA PlacesWithin ==
    ASSUME NEW l \in Int, NEW h \in Int, NEW m \in Places(l, h)
    PROVE  /\ m[1] \in l..h /\ m[2] \in DOMAIN chain[m[1]] /\ m = <<m[1], m[2]>>
           /\ \A k \in Int, j \in Int : m[1] \in k..j => m \in Places(k, j)
<1>1. PICK n \in l..h : \E i \in DOMAIN chain[n] : m = <<n, i>>
  BY PlaceIs
<1>2. PICK i \in DOMAIN chain[n] : m = <<n, i>>
  BY <1>1
<1>3. \A k \in Int, j \in Int : n \in k..j => m \in Places(k, j)
  BY <1>2, PlaceIs
<1>4. QED BY <1>2, <1>3

LEMMA PlacesOfChain ==
    ASSUME Len(chain) \in Nat, NEW m \in Places(1, Len(chain))
    PROVE  /\ m[1] \in 1..Len(chain) /\ m[1] \in Int /\ 1 <= m[1] /\ m[1] <= Len(chain)
           /\ m[2] \in DOMAIN chain[m[1]] /\ m = <<m[1], m[2]>>
<1>1. PICK n \in 1..Len(chain) : \E i \in DOMAIN chain[n] : m = <<n, i>>
  BY PlaceIs
<1>2. PICK i \in DOMAIN chain[n] : m = <<n, i>>
  BY <1>1
<1>3. QED BY <1>2

(* Fetched with other blocks or alone, a log leads to the same row: the
   transactions that unwound are told apart by their block. *)
LEMMA RowIsAlone ==
    ASSUME NEW l \in Int, NEW h \in Int, NEW m \in Places(l, h)
    PROVE  LogRow(m, unwindTxs(l, h)) = RowAt(m)
<1> DEFINE t == <<m[1], LogAt(m).tx>>
<1>1. m[1] \in l..h /\ m[1] \in Int /\ m[1] \in m[1]..m[1]
  BY PlacesWithin
<1>2. ASSUME t \in unwindTxs(l, h) PROVE t \in unwindTxs(m[1], m[1])
  <2>1. PICK n \in Places(l, h) :
           LogAt(n).event = "RedeemWithUnwind" /\ t = <<n[1], LogAt(n).tx>>
    BY <1>2 DEF unwindTxs
  <2>2. n[1] = m[1]
    BY <2>1
  <2>3. n \in Places(m[1], m[1])
    BY <1>1, <2>2, PlacesWithin
  <2>4. QED BY <2>1, <2>3 DEF unwindTxs
<1>3. ASSUME t \in unwindTxs(m[1], m[1]) PROVE t \in unwindTxs(l, h)
  <2>1. PICK n \in Places(m[1], m[1]) :
           LogAt(n).event = "RedeemWithUnwind" /\ t = <<n[1], LogAt(n).tx>>
    BY <1>3 DEF unwindTxs
  <2>2. n[1] = m[1]
    BY <2>1
  <2>3. n \in Places(l, h)
    BY <1>1, <2>2, PlacesWithin
  <2>4. QED BY <2>1, <2>3 DEF unwindTxs
<1>4. QED BY <1>2, <1>3 DEF LogRow, RowAt

LEMMA RowsAre ==
    ASSUME NEW l \in Int, NEW h \in Int
    PROVE  RowsOf(l, h) = {RowAt(m) : m \in FollowedPlaces(l, h)}
  BY RowIsAlone DEF RowsOf, FollowedPlaces

LEMMA RowsSplit ==
    ASSUME NEW k \in Int, NEW l \in Int, NEW h \in Int, k <= l, l <= h + 1
    PROVE  RowsOf(k, h) = RowsOf(k, l - 1) \cup RowsOf(l, h)
<1>1. \A m : m \in FollowedPlaces(k, h) <=> m \in FollowedPlaces(k, l - 1) \/ m \in FollowedPlaces(l, h)
  <2>1. k..h = (k..(l - 1)) \cup (l..h)
    OBVIOUS
  <2>2. \A m : m \in Places(k, h) <=> m \in Places(k, l - 1) \/ m \in Places(l, h)
    BY <2>1, PlaceIs
  <2>3. QED BY <2>2 DEF FollowedPlaces
<1>2. QED BY <1>1, RowsAre

LEMMA NoRowsOfNothing ==
    ASSUME NEW l \in Int, NEW h \in Int, h < l PROVE RowsOf(l, h) = {}
<1>1. l..h = {}
  OBVIOUS
<1>2. QED BY <1>1, PlaceIs DEF RowsOf

LEMMA RowFields ==
    ASSUME NEW m
    PROVE  /\ RowAt(m).block = m[1] /\ RowAt(m).index = m[2]
           /\ RowAt(m).id = LogAt(m).id /\ RowAt(m).table = Kept[LogAt(m).event][2]
  BY DEF RowAt, LogRow

LEMMA RebalancesTable ==
    ASSUME NEW event \in DOMAIN Kept
    PROVE  Kept[event][2] = "rebalances" <=> event = "Rebalanced"
  BY DEF Kept

(* What the tables' uniqueness compares tells the logs of the chain apart. *)
LEMMA KeysTellApart ==
    ASSUME ChainOK,
           NEW m \in FollowedPlaces(1, Len(chain)), NEW n \in FollowedPlaces(1, Len(chain)),
           LogKey(RowAt(m)) = LogKey(RowAt(n))
    PROVE  m = n
<1>1. m \in Places(1, Len(chain)) /\ n \in Places(1, Len(chain)) /\ Followed(LogAt(m)) /\ Followed(LogAt(n))
  BY DEF FollowedPlaces
<1>2. RowAt(m).table = RowAt(n).table
  BY DEF LogKey
<1>3. CASE RowAt(m).table = "rebalances"
  <2>1. LogAt(m).event = "Rebalanced" /\ LogAt(n).event = "Rebalanced"
    BY <1>1, <1>2, <1>3, RowFields, RebalancesTable DEF Followed
  <2>2. LogAt(m).id = LogAt(n).id
    BY <1>2, <1>3, RowFields DEF LogKey
  <2>3. QED BY <1>1, <2>1, <2>2 DEF ChainOK, Rebalances
<1>4. CASE RowAt(m).table # "rebalances"
  <2>1. m[1] = n[1] /\ m[2] = n[2]
    BY <1>2, <1>4, RowFields DEF LogKey
  <2>2. Len(chain) \in Nat
    BY DEF ChainOK
  <2>3. m = <<m[1], m[2]>> /\ n = <<n[1], n[2]>>
    BY <1>1, <2>2, PlacesOfChain
  <2>4. QED BY <2>1, <2>3
<1>5. QED BY <1>3, <1>4

LEMMA IndexerStarts == IndexerInit => IndexerInv
<1> SUFFICES ASSUME IndexerInit PROVE IndexerInv
  OBVIOUS
<1>1. Len(chain) = 0 /\ chain \in Seq(Seq([event : STRING, tx : Nat, own : BOOLEAN, id : Nat]))
  BY DEF IndexerInit
<1>2. IndexerTypeOK
  BY <1>1, IndexerAssumption DEF IndexerInit, IndexerTypeOK
<1>3. ChainOK
  <2>1. 1..Len(chain) = {}
    BY <1>1
  <2>2. Rebalances = {}
    BY <2>1, PlaceIs DEF Rebalances
  <2>3. QED BY <1>1, <2>2, FS_EmptySet DEF ChainOK
<1>4. StoredOK
  <2>1. DOMAIN stored = {}
    BY DEF IndexerInit
  <2>2. RowsOf(1, watermark) = {}
    BY NoRowsOfNothing DEF IndexerInit
  <2>3. QED BY <2>1, <2>2 DEF StoredOK
<1>5. BuilderFirst
  BY IndexerAssumption DEF IndexerInit, BuilderFirst
<1>6. \A p \in Indexers : ProcessOK(p)
  BY DEF IndexerInit, ProcessOK
<1>7. QED BY <1>2, <1>3, <1>4, <1>5, <1>6 DEF IndexerInv

(* The chain of a step that mines no block. *)
LEMMA SameRows ==
    ASSUME chain' = chain
    PROVE  /\ \A l, h : Places(l, h)' = Places(l, h) /\ RowsOf(l, h)' = RowsOf(l, h)
                        /\ FollowedPlaces(l, h)' = FollowedPlaces(l, h)
           /\ \A m : RowAt(m)' = RowAt(m) /\ LogAt(m)' = LogAt(m)
           /\ Rebalances' = Rebalances
           /\ ChainOK => ChainOK'
<1>1. ASSUME NEW m PROVE LogAt(m)' = LogAt(m)
  BY DEF LogAt
<1>2. ASSUME NEW l, NEW h PROVE Places(l, h)' = Places(l, h)
  BY DEF Places
<1>3. ASSUME NEW l, NEW h PROVE unwindTxs(l, h)' = unwindTxs(l, h)
  BY <1>1, <1>2 DEF unwindTxs
<1>4. ASSUME NEW l, NEW h, NEW m PROVE LogRow(m, unwindTxs(l, h))' = LogRow(m, unwindTxs(l, h))
  BY <1>1, <1>3 DEF LogRow
<1>5. ASSUME NEW l, NEW h PROVE FollowedPlaces(l, h)' = FollowedPlaces(l, h)
  BY <1>1, <1>2 DEF FollowedPlaces, Followed
<1>6. ASSUME NEW l, NEW h PROVE RowsOf(l, h)' = RowsOf(l, h)
  BY <1>1, <1>2, <1>4 DEF RowsOf, Followed
<1>7. ASSUME NEW m PROVE RowAt(m)' = RowAt(m)
  BY <1>4 DEF RowAt
<1>8. Rebalances' = Rebalances
  BY <1>1, <1>2 DEF Rebalances
<1>9. ChainOK => ChainOK'
  BY <1>1, <1>8 DEF ChainOK
<1>10. QED BY <1>1, <1>2, <1>5, <1>6, <1>7, <1>8, <1>9

(* A process whose own state is not touched, with nothing taken from the tables. *)
LEMMA ProcessKept ==
    ASSUME NEW p \in Indexers, ProcessOK(p), chain' = chain, DOMAIN stored \subseteq DOMAIN stored',
           indexerPc'[p] = indexerPc[p], from'[p] = from[p], to'[p] = to[p],
           head'[p] = head[p], todo'[p] = todo[p]
    PROVE  ProcessOK(p)'
<1>1. \A l, h : RowsOf(l, h)' = RowsOf(l, h)
  BY SameRows
<1>2. QED BY <1>1 DEF ProcessOK

LEMMA BuilderFirstKept ==
    ASSUME IndexerTypeOK, BuilderFirst, NEW p \in active, active' = active, NEW place,
           IndexerGoto(p, place), place # "reset"
    PROVE  BuilderFirst'
<1>1. p \in Indexers
  BY DEF IndexerTypeOK
<1>2. \A q \in Indexers : indexerPc'[q] = IF q = p THEN place ELSE indexerPc[q]
  BY <1>1 DEF IndexerGoto, IndexerTypeOK
<1>3. QED BY <1>1, <1>2, IndexerAssumption DEF BuilderFirst

(* To the next chunk: what lies before it is in the tables. *)
LEMMA AdvanceKeeps ==
    ASSUME IndexerInv, NEW p \in active, NEW start \in Nat \ {0},
           Advance(p, start, head[p]), RowsOf(1, start - 1) \subseteq DOMAIN stored,
           watermark' \in 0..Len(chain), RowsOf(1, watermark)' \subseteq DOMAIN stored,
           UNCHANGED <<chain, stored, active, head, indexerFaults>>
    PROVE  IndexerInv'
<1>1. p \in Indexers /\ head[p] \in 0..Len(chain) /\ Len(chain) \in Nat
  BY DEF IndexerInv, IndexerTypeOK, ChainOK
<1>2. /\ from'[p] = start /\ todo'[p] = {}
      /\ to'[p] = IF start + Chunk - 1 > head[p] THEN head[p] ELSE start + Chunk - 1
      /\ indexerPc'[p] = IF start <= head[p] THEN "fetch" ELSE "idle"
      /\ \A q \in Indexers \ {p} : /\ from'[q] = from[q] /\ to'[q] = to[q] /\ todo'[q] = todo[q]
                                   /\ indexerPc'[q] = indexerPc[q] /\ head'[q] = head[q]
  <2>1. \A q \in Indexers : todo'[q] = IF q = p THEN {} ELSE todo[q]
    BY <1>1 DEF Advance, IndexerInv, IndexerTypeOK
  <2>2. QED BY <1>1, <2>1 DEF Advance, IndexerGoto, IndexerInv, IndexerTypeOK
<1>3. to'[p] \in 0..Len(chain)
  BY <1>1, <1>2, IndexerAssumption
<1>4. IndexerTypeOK'
  BY <1>1, <1>2, <1>3 DEF Advance, IndexerGoto, IndexerInv, IndexerTypeOK
<1>5. ChainOK'
  BY SameRows DEF IndexerInv
<1>6. StoredOK'
  BY SameRows DEF IndexerInv, StoredOK
<1>7. BuilderFirst'
  BY <1>1, BuilderFirstKept DEF Advance, IndexerInv
<1>8. ASSUME NEW q \in Indexers PROVE ProcessOK(q)'
  <2>1. CASE q # p
    BY <1>2, <2>1, ProcessKept DEF IndexerInv
  <2>2. CASE q = p
    <3>1. RowsOf(1, start - 1)' \subseteq DOMAIN stored'
      BY SameRows
    <3>2. indexerPc'[p] = "fetch" => 1 <= from'[p] /\ from'[p] <= to'[p] /\ to'[p] <= head'[p]
      BY <1>1, <1>2, IndexerAssumption
    <3>3. QED BY <1>2, <2>2, <3>1, <3>2 DEF ProcessOK
  <2>3. QED BY <2>1, <2>2
<1>9. QED BY <1>4, <1>5, <1>6, <1>7, <1>8 DEF IndexerInv

(* The steps that leave the tables and the watermark alone. *)
LEMMA IndexerReads ==
    ASSUME IndexerInv, NEW p \in active, Start(p) \/ Begin(p) \/ Fetch(p) \/ IndexerFail(p)
    PROVE  IndexerInv'
<1>1. p \in Indexers /\ Len(chain) \in Nat /\ watermark \in 0..Len(chain)
  BY DEF IndexerInv, IndexerTypeOK, ChainOK
<1>2. /\ chain' = chain /\ stored' = stored /\ watermark' = watermark
      /\ RowsOf(1, watermark)' = RowsOf(1, watermark)
  <2>1. chain' = chain /\ stored' = stored /\ watermark' = watermark
    BY DEF Start, Begin, Fetch, IndexerFail
  <2>2. QED BY <2>1, SameRows
<1>3. ChainOK' /\ StoredOK'
  BY <1>2, SameRows DEF IndexerInv, StoredOK
<1>4. CASE Begin(p)
  <2>1. RowsOf(1, (watermark + 1) - 1) \subseteq DOMAIN stored
    BY <1>1 DEF IndexerInv, StoredOK
  <2>2. QED BY <1>1, <1>2, <1>4, <2>1, AdvanceKeeps DEF Begin, IndexerInv, StoredOK
<1>5. CASE Start(p)
  <2>1. IndexerTypeOK'
    <3>1. head' \in [Indexers -> 0..Len(chain)]
      <4>1. Len(chain) \in 0..Len(chain)
        BY <1>1
      <4>2. QED BY <1>5, <4>1 DEF Start, IndexerInv, IndexerTypeOK
    <3>2. \A q \in Indexers : todo'[q] # {} => indexerPc'[q] = "insert"
      BY <1>5 DEF Start, IndexerGoto, IndexerAt, IndexerInv, IndexerTypeOK
    <3>3. indexerPc' \in [Indexers -> {"reset", "idle", "begin", "fetch", "insert"}]
      BY <1>5 DEF Start, IndexerGoto, IndexerInv, IndexerTypeOK
    <3>4. QED BY <1>2, <1>5, <3>1, <3>2, <3>3 DEF Start, IndexerInv, IndexerTypeOK
  <2>2. indexerPc'[p] = "begin"
    BY <1>1, <1>5 DEF Start, IndexerGoto, IndexerInv, IndexerTypeOK
  <2>3. ASSUME NEW q \in Indexers, q # p PROVE ProcessOK(q)'
    BY <1>1, <1>2, <1>5, <2>3, ProcessKept DEF Start, IndexerGoto, IndexerInv, IndexerTypeOK
  <2>4. BuilderFirst'
    BY <1>5, BuilderFirstKept DEF Start, IndexerInv
  <2>5. QED BY <1>3, <2>1, <2>2, <2>3, <2>4 DEF IndexerInv, ProcessOK
<1>6. CASE Fetch(p)
  <2>1. indexerPc[p] = "fetch" /\ indexerPc'[p] = "insert" /\ todo'[p] = RowsOf(from[p], to[p])
    <3>1. indexerPc[p] = "fetch" /\ indexerPc'[p] = "insert"
      BY <1>1, <1>6 DEF Fetch, IndexerGoto, IndexerAt, IndexerInv, IndexerTypeOK
    <3>2. p \in DOMAIN todo
      BY <1>1 DEF IndexerInv, IndexerTypeOK
    <3>3. QED BY <1>6, <3>1, <3>2 DEF Fetch
  <2>2. ASSUME NEW q \in Indexers, q # p
        PROVE  ProcessOK(q)' /\ indexerPc'[q] = indexerPc[q] /\ todo'[q] = todo[q]
    BY <1>1, <1>2, <1>6, <2>2, ProcessKept DEF Fetch, IndexerGoto, IndexerInv, IndexerTypeOK
  <2>3. IndexerTypeOK'
    BY <1>1, <1>6, <2>1, <2>2 DEF Fetch, IndexerGoto, IndexerInv, IndexerTypeOK
  <2>4. ProcessOK(p)'
    <3>1. /\ from' = from /\ to' = to /\ head' = head /\ ProcessOK(p)
      BY <1>1, <1>6 DEF Fetch, IndexerInv
    <3>2. \A l, h : RowsOf(l, h)' = RowsOf(l, h)
      BY <1>2, SameRows
    <3>3. QED BY <1>2, <2>1, <3>1, <3>2 DEF ProcessOK
  <2>5. BuilderFirst'
    BY <1>6, BuilderFirstKept DEF Fetch, IndexerInv
  <2>6. QED BY <1>3, <2>2, <2>3, <2>4, <2>5 DEF IndexerInv
<1>7. CASE IndexerFail(p)
  <2>1. /\ indexerPc'[p] = IF p \in Builders THEN "reset" ELSE "idle"
        /\ \A q \in Indexers : indexerPc'[q] = IF q = p THEN indexerPc'[p] ELSE indexerPc[q]
    BY <1>1, <1>7 DEF IndexerFail, IndexerGoto, IndexerInv, IndexerTypeOK
  <2>2. ASSUME NEW q \in Indexers, q # p PROVE ProcessOK(q)' /\ todo'[q] = todo[q]
    BY <1>1, <1>2, <1>7, <2>2, ProcessKept DEF IndexerFail, IndexerGoto, IndexerInv, IndexerTypeOK
  <2>3. todo'[p] = {}
    BY <1>1, <1>7 DEF IndexerFail, IndexerInv, IndexerTypeOK
  <2>4. IndexerTypeOK'
    BY <1>1, <1>7, <2>1, <2>2, <2>3, IndexerAssumption
       DEF IndexerFail, IndexerGoto, IndexerInv, IndexerTypeOK
  <2>5. BuilderFirst'
    BY <1>1, <1>7, <2>1, IndexerAssumption DEF IndexerFail, IndexerInv, BuilderFirst
  <2>6. QED BY <1>3, <2>1, <2>2, <2>4, <2>5 DEF IndexerInv, ProcessOK
<1>8. QED BY <1>4, <1>5, <1>6, <1>7

(* A row of the chain is in the tables once it was inserted, whether it had to
   be written or was there already, and nothing else is new. *)
LEMMA InsertedIs ==
    ASSUME ChainOK, StoredOK, NEW m \in FollowedPlaces(1, Len(chain)),
           stored' = Inserted(RowAt(m))
    PROVE  /\ DOMAIN stored' = DOMAIN stored \cup {RowAt(m)}
           /\ \A row \in DOMAIN stored' : stored'[row] = 1
           /\ stored' = stored <=> RowAt(m) \in DOMAIN stored
<1>1. ASSUME NEW row \in DOMAIN stored, LogKey(row) = LogKey(RowAt(m)) PROVE row = RowAt(m)
  <2>1. PICK n \in FollowedPlaces(1, Len(chain)) : row = RowAt(n)
    BY DEF StoredOK
  <2>2. QED BY <1>1, <2>1, KeysTellApart
<1>2. CASE \E row \in DOMAIN stored : LogKey(row) = LogKey(RowAt(m))
  <2>1. RowAt(m) \in DOMAIN stored /\ stored' = stored
    BY <1>1, <1>2 DEF Inserted
  <2>2. DOMAIN stored' = DOMAIN stored \cup {RowAt(m)}
    BY <2>1
  <2>3. \A row \in DOMAIN stored' : stored'[row] = 1
    BY <2>1 DEF StoredOK
  <2>4. QED BY <2>1, <2>2, <2>3
<1>3. CASE ~ \E row \in DOMAIN stored : LogKey(row) = LogKey(RowAt(m))
  <2>1. RowAt(m) \notin DOMAIN stored
    BY <1>3
  <2>2. stored' = [row \in DOMAIN stored \cup {RowAt(m)} |-> IF row = RowAt(m) THEN 1 ELSE stored[row]]
    BY <1>3 DEF Inserted
  <2>3. QED BY <2>1, <2>2 DEF StoredOK
<1>4. QED BY <1>2, <1>3

LEMMA RowsOfChain ==
    ASSUME NEW l \in Int, NEW h \in Int, 1 <= l, Len(chain) \in Nat, h <= Len(chain),
           NEW row \in RowsOf(l, h)
    PROVE  \E m \in FollowedPlaces(1, Len(chain)) : row = RowAt(m)
<1>1. PICK m \in FollowedPlaces(l, h) : row = RowAt(m)
  BY RowsAre
<1>2. m \in Places(l, h) /\ m[1] \in l..h
  BY PlacesWithin DEF FollowedPlaces
<1>3. m \in Places(1, Len(chain))
  <2>1. m[1] \in 1..Len(chain)
    BY <1>2
  <2>2. QED BY <1>2, <2>1, PlacesWithin
<1>4. QED BY <1>1, <1>3 DEF FollowedPlaces

(* The row of an insert, and the tables after it. *)
LEMMA InsertIs ==
    ASSUME IndexerInv, NEW p \in active, Insert(p)
    PROVE  \E m \in FollowedPlaces(1, Len(chain)) :
             /\ RowAt(m) \in todo[p] /\ todo'[p] = todo[p] \ {RowAt(m)}
             /\ stored' = Inserted(RowAt(m))
<1>1. p \in Indexers /\ Len(chain) \in Nat /\ from[p] \in Nat /\ to[p] \in 0..Len(chain)
  BY DEF IndexerInv, IndexerTypeOK, ChainOK
<1>2. PICK row \in todo[p] : stored' = Inserted(row) /\ todo' = [todo EXCEPT ![p] = @ \ {row}]
  BY DEF Insert
<1>3. row \in RowsOf(from[p], to[p]) /\ 1 <= from[p]
  BY <1>1 DEF Insert, IndexerAt, IndexerInv, ProcessOK
<1>4. PICK m \in FollowedPlaces(1, Len(chain)) : row = RowAt(m)
  BY <1>1, <1>3, RowsOfChain
<1>5. todo'[p] = todo[p] \ {row}
  BY <1>1, <1>2 DEF IndexerInv, IndexerTypeOK
<1>6. QED BY <1>2, <1>4, <1>5

LEMMA IndexerInserts ==
    ASSUME IndexerInv, NEW p \in active, Insert(p)
    PROVE  IndexerInv'
<1>1. p \in Indexers /\ indexerPc[p] = "insert"
  BY DEF Insert, IndexerAt, IndexerInv, IndexerTypeOK
<1>2. UNCHANGED <<chain, watermark, active, indexerPc, head, from, to, indexerFaults>>
  BY DEF Insert
<1>3. PICK m \in FollowedPlaces(1, Len(chain)) :
         RowAt(m) \in todo[p] /\ todo'[p] = todo[p] \ {RowAt(m)} /\ stored' = Inserted(RowAt(m))
  BY InsertIs
<1>4. /\ DOMAIN stored' = DOMAIN stored \cup {RowAt(m)}
      /\ \A row \in DOMAIN stored' : stored'[row] = 1
  BY <1>3, InsertedIs DEF IndexerInv
<1>5. \A q \in Indexers \ {p} : todo'[q] = todo[q]
  BY <1>1 DEF Insert, IndexerInv, IndexerTypeOK
<1>6. /\ \A l, h : RowsOf(l, h)' = RowsOf(l, h) /\ FollowedPlaces(l, h)' = FollowedPlaces(l, h)
      /\ \A n : RowAt(n)' = RowAt(n)
      /\ Len(chain)' = Len(chain)
  BY <1>2, SameRows
<1>7. IndexerTypeOK'
  <2>1. DOMAIN todo' = Indexers
    BY DEF Insert, IndexerInv, IndexerTypeOK
  <2>2. \A q \in Indexers : todo'[q] # {} => indexerPc'[q] = "insert"
    BY <1>1, <1>2, <1>5 DEF IndexerInv, IndexerTypeOK
  <2>3. QED BY <1>2, <2>1, <2>2 DEF IndexerInv, IndexerTypeOK
<1>8. ChainOK'
  BY <1>2, SameRows DEF IndexerInv
<1>9. StoredOK'
  <2>1. ASSUME NEW row \in DOMAIN stored' PROVE \E n \in FollowedPlaces(1, Len(chain)) : row = RowAt(n)
    BY <1>4 DEF IndexerInv, StoredOK
  <2>2. RowsOf(1, watermark) \subseteq DOMAIN stored'
    BY <1>4 DEF IndexerInv, StoredOK
  <2>3. QED BY <1>2, <1>4, <1>6, <2>1, <2>2 DEF StoredOK
<1>10. BuilderFirst'
  BY <1>2 DEF IndexerInv, BuilderFirst
<1>11. ASSUME NEW q \in Indexers PROVE ProcessOK(q)'
  <2>1. CASE q # p
    BY <1>2, <1>4, <1>5, <2>1, ProcessKept DEF IndexerInv
  <2>2. CASE q = p
    <3>1. RowsOf(from[p], to[p]) \subseteq DOMAIN stored' \cup todo'[p]
      BY <1>1, <1>3, <1>4 DEF IndexerInv, ProcessOK
    <3>2. todo'[p] \subseteq RowsOf(from[p], to[p])
      BY <1>1, <1>3 DEF IndexerInv, ProcessOK
    <3>3. RowsOf(1, from[p] - 1) \subseteq DOMAIN stored'
      BY <1>1, <1>4 DEF IndexerInv, ProcessOK
    <3>4. 1 <= from[p] /\ from[p] <= to[p] /\ to[p] <= head[p]
      BY <1>1 DEF IndexerInv, ProcessOK
    <3>5. QED BY <1>2, <1>6, <2>2, <3>1, <3>2, <3>3, <3>4 DEF ProcessOK
  <2>3. QED BY <2>1, <2>2
<1>12. QED BY <1>7, <1>8, <1>9, <1>10, <1>11 DEF IndexerInv

(* The chunk is written: with what was there before it, everything up to its end. *)
LEMMA IndexerMarks ==
    ASSUME IndexerInv, NEW p \in active, SetLastBlock(p)
    PROVE  IndexerInv'
<1>1. /\ p \in Indexers /\ indexerPc[p] = "insert" /\ todo[p] = {}
      /\ from[p] \in Nat /\ to[p] \in 0..Len(chain) /\ Len(chain) \in Nat
      /\ Advance(p, to[p] + 1, head[p]) /\ watermark' = to[p]
      /\ UNCHANGED <<chain, stored, active, head, indexerFaults>>
  BY DEF SetLastBlock, IndexerAt, IndexerInv, IndexerTypeOK, ChainOK
<1>2. /\ 1 <= from[p] /\ from[p] <= to[p]
      /\ RowsOf(1, from[p] - 1) \subseteq DOMAIN stored /\ RowsOf(from[p], to[p]) \subseteq DOMAIN stored
  BY <1>1 DEF IndexerInv, ProcessOK
<1>3. RowsOf(1, to[p]) \subseteq DOMAIN stored
  BY <1>1, <1>2, RowsSplit
<1>4. RowsOf(1, (to[p] + 1) - 1) \subseteq DOMAIN stored
  BY <1>1, <1>3
<1>5. RowsOf(1, watermark)' \subseteq DOMAIN stored
  BY <1>1, <1>3, SameRows
<1>6. to[p] + 1 \in Nat \ {0} /\ watermark' \in 0..Len(chain)
  BY <1>1
<1>7. QED BY <1>1, <1>4, <1>5, <1>6, AdvanceKeeps

(* Only the builder wipes, and while it runs nobody else is at a chunk. *)
LEMMA IndexerWipes ==
    ASSUME IndexerInv, NEW p \in active, ResetData(p)
    PROVE  IndexerInv'
<1>1. p \in Indexers /\ indexerPc[p] = "reset" /\ Len(chain) \in Nat
  BY DEF ResetData, IndexerAt, IndexerInv, IndexerTypeOK, ChainOK
<1>2. \A q \in Indexers \ {p} : indexerPc[q] = "idle"
  BY <1>1, IndexerAssumption DEF IndexerInv, BuilderFirst
<1>3. \A q \in Indexers : indexerPc'[q] = "idle"
  BY <1>1, <1>2 DEF ResetData, IndexerGoto, IndexerInv, IndexerTypeOK
<1>4. IndexerTypeOK'
  BY <1>1, <1>3 DEF ResetData, IndexerGoto, IndexerAt, IndexerInv, IndexerTypeOK
<1>5. chain' = chain /\ active' = active /\ watermark' = 0 /\ stored' = <<>>
  BY DEF ResetData
<1>6. StoredOK'
  <2>1. DOMAIN stored' = {}
    BY <1>5
  <2>2. RowsOf(1, 0)' = {}
    BY <1>5, SameRows, NoRowsOfNothing
  <2>3. QED BY <1>5, <2>1, <2>2 DEF StoredOK
<1>7. BuilderFirst'
  BY <1>1, <1>3, <1>5 DEF IndexerInv, BuilderFirst
<1>8. QED BY <1>3, <1>4, <1>5, <1>6, <1>7, SameRows DEF IndexerInv, ProcessOK

LEMMA IndexerBuilt ==
    ASSUME IndexerInv, NEW p \in active, Built(p)
    PROVE  IndexerInv'
<1>1. /\ active' = Indexers \ Builders /\ p \in Builders /\ indexerPc[p] = "idle"
      /\ UNCHANGED <<chain, stored, watermark, indexerPc, head, from, to, todo, indexerFaults>>
  BY DEF Built, IndexerAt
<1>2. IndexerTypeOK' /\ BuilderFirst'
  BY <1>1, IndexerAssumption DEF IndexerInv, IndexerTypeOK, BuilderFirst
<1>3. ChainOK' /\ StoredOK'
  BY <1>1, SameRows DEF IndexerInv, StoredOK
<1>4. \A q \in Indexers : ProcessOK(q)'
  BY <1>1, ProcessKept DEF IndexerInv
<1>5. QED BY <1>2, <1>3, <1>4 DEF IndexerInv

(* A block is added at the end: the logs, the rows and the transactions that
   unwound of the blocks before it stay what they are. *)
LEMMA BlocksAreFinal ==
    ASSUME ChainOK, NEW block \in Seq([event : STRING, tx : Nat, own : BOOLEAN, id : Nat]),
           chain' = Append(chain, block)
    PROVE  /\ Len(chain') = Len(chain) + 1 /\ Len(chain) \in Nat
           /\ \A n \in 1..Len(chain) : chain'[n] = chain[n]
           /\ chain'[Len(chain) + 1] = block
           /\ \A m \in Places(1, Len(chain)) : LogAt(m)' = LogAt(m) /\ RowAt(m)' = RowAt(m)
           /\ \A l \in Int, h \in Int : 1 <= l /\ h <= Len(chain) =>
                Places(l, h)' = Places(l, h) /\ RowsOf(l, h)' = RowsOf(l, h)
                /\ FollowedPlaces(l, h)' = FollowedPlaces(l, h)
<1>1. /\ Len(chain') = Len(chain) + 1 /\ Len(chain) \in Nat
      /\ \A n \in 1..Len(chain) : chain'[n] = chain[n]
      /\ chain'[Len(chain) + 1] = block
  BY AppendProperties DEF ChainOK
<1>2. ASSUME NEW l \in Int, NEW h \in Int, 1 <= l, h <= Len(chain)
      PROVE  Places(l, h)' = Places(l, h)
  <2>1. \A n \in l..h : chain'[n] = chain[n]
    BY <1>1, <1>2
  <2>2. QED BY <2>1 DEF Places
<1>3. ASSUME NEW l \in Int, NEW h \in Int, 1 <= l, h <= Len(chain), NEW m \in Places(l, h)
      PROVE  LogAt(m)' = LogAt(m)
  <2>1. m[1] \in 1..Len(chain)
    BY <1>1, <1>3, PlacesWithin
  <2>2. QED BY <1>1, <2>1 DEF LogAt
<1>4. ASSUME NEW l \in Int, NEW h \in Int, 1 <= l, h <= Len(chain)
      PROVE  unwindTxs(l, h)' = unwindTxs(l, h)
  BY <1>2, <1>3, <1>4 DEF unwindTxs
<1>5. ASSUME NEW m \in Places(1, Len(chain)) PROVE RowAt(m)' = RowAt(m)
  <2>1. m[1] \in Int /\ 1 <= m[1] /\ m[1] <= Len(chain)
    BY <1>1, PlacesOfChain
  <2>2. unwindTxs(m[1], m[1])' = unwindTxs(m[1], m[1])
    BY <1>4, <2>1
  <2>3. LogAt(m)' = LogAt(m)
    BY <1>1, <1>3
  <2>4. QED BY <2>2, <2>3 DEF RowAt, LogRow
<1>6. ASSUME NEW l \in Int, NEW h \in Int, 1 <= l, h <= Len(chain)
      PROVE  FollowedPlaces(l, h)' = FollowedPlaces(l, h) /\ RowsOf(l, h)' = RowsOf(l, h)
  <2>1. FollowedPlaces(l, h)' = FollowedPlaces(l, h)
    BY <1>2, <1>3, <1>6 DEF FollowedPlaces, Followed
  <2>2. \A m \in Places(l, h) : LogRow(m, unwindTxs(l, h))' = LogRow(m, unwindTxs(l, h))
    <3>1. \A m \in Places(l, h) : LogAt(m)' = LogAt(m)
      BY <1>3, <1>6
    <3>2. QED BY <1>4, <1>6, <3>1 DEF LogRow
  <2>3. RowsOf(l, h)' = RowsOf(l, h)
    <3> DEFINE S == {m \in Places(l, h) : Followed(LogAt(m))}
    <3>1. {m \in Places(l, h) : Followed(LogAt(m))}' = S
      <4>1. \A m \in Places(l, h) : LogAt(m)' = LogAt(m)
        BY <1>3, <1>6
      <4>2. Places(l, h)' = Places(l, h)
        BY <1>2, <1>6
      <4>3. QED BY <4>1, <4>2 DEF Followed
    <3>2. S \subseteq Places(l, h)
      OBVIOUS
    <3>3. RowsOf(l, h) = {LogRow(m, unwindTxs(l, h)) : m \in S}
      BY DEF RowsOf
    <3> HIDE DEF S
    <3>4. RowsOf(l, h)' = {LogRow(m, unwindTxs(l, h))' : m \in S}
      BY <3>1 DEF RowsOf
    <3>5. QED BY <2>2, <3>2, <3>3, <3>4
  <2>4. QED BY <2>1, <2>3
<1>7. QED BY <1>1, <1>2, <1>3, <1>5, <1>6

(* The place of a log in a block that is a sequence of rebalances and others,
   counted among the rebalances, is a number between 1 and their count, and
   grows from one to the next. *)
LEMMA CountsGrow ==
    ASSUME NEW length \in Nat, NEW J \in SUBSET (1..length)
    PROVE  /\ IsFiniteSet(J) /\ Cardinality(J) \in Nat
           /\ \A i \in 1..length : Cardinality({j \in 1..i : j \in J}) \in 0..Cardinality(J)
           /\ \A i \in J : Cardinality({j \in 1..i : j \in J}) >= 1
           /\ \A i \in J, k \in J : i < k =>
                Cardinality({j \in 1..i : j \in J}) < Cardinality({j \in 1..k : j \in J})
<1> DEFINE P(i) == {j \in 1..i : j \in J}
<1>1. IsFiniteSet(J) /\ Cardinality(J) \in Nat
  <2>1. IsFiniteSet(1..length)
    BY FS_Interval
  <2>2. IsFiniteSet(J)
    BY <2>1, FS_Subset
  <2>3. QED BY <2>2, FS_CardinalityType
<1>2. ASSUME NEW i \in 1..length
      PROVE  IsFiniteSet(P(i)) /\ Cardinality(P(i)) \in Nat /\ Cardinality(P(i)) <= Cardinality(J)
  <2>1. P(i) \in SUBSET J
    OBVIOUS
  <2>2. QED BY <1>1, <2>1, FS_Subset, FS_CardinalityType
<1>3. ASSUME NEW i \in J PROVE Cardinality(P(i)) >= 1
  <2>1. i \in P(i) /\ i \in 1..length
    OBVIOUS
  <2>2. Cardinality(P(i)) # 0
    BY <1>2, <2>1, FS_EmptySet
  <2>3. QED BY <1>2, <2>1, <2>2
<1>4. ASSUME NEW i \in J, NEW k \in J, i < k PROVE Cardinality(P(i)) < Cardinality(P(k))
  <2>1. i \in 1..length /\ k \in 1..length
    OBVIOUS
  <2>2. P(i) \in SUBSET P(k) /\ k \in P(k) /\ k \notin P(i)
    BY <1>4, <2>1
  <2>3. Cardinality(P(i)) <= Cardinality(P(k)) /\ Cardinality(P(i)) # Cardinality(P(k))
    BY <1>2, <2>1, <2>2, FS_Subset
  <2>4. QED BY <1>2, <2>1, <2>3
<1>5. QED BY <1>1, <1>2, <1>3, <1>4

(* What the blocks there were leave to write stays the same. *)
LEMMA RowsAreFinal ==
    ASSUME ChainOK, NEW block \in Seq([event : STRING, tx : Nat, own : BOOLEAN, id : Nat]),
           chain' = Append(chain, block),
           NEW l \in Int, NEW h \in Int, 1 <= l, h <= Len(chain)
    PROVE  RowsOf(l, h)' = RowsOf(l, h)
  BY BlocksAreFinal

LEMMA IndexerProduces ==
    ASSUME IndexerInv, Produce
    PROVE  IndexerInv'
<1>1. UNCHANGED <<stored, watermark, procVars, indexerFaults>>
  BY DEF Produce
<1>2. IsFiniteSet(Rebalances) /\ Cardinality(Rebalances) \in Nat /\ Len(chain) \in Nat
  BY FS_CardinalityType DEF IndexerInv, ChainOK
<1>3. PICK count \in Nat : count = Cardinality(Rebalances)
  BY <1>2
<1>4. PICK next \in Nat : next = Len(chain) + 1
  BY <1>2
<1>5. PICK batch \in Batches :
        chain' = Append(chain,
            [i \in DOMAIN batch |->
                [event |-> batch[i].event, tx |-> batch[i].tx, own |-> batch[i].own,
                 id |-> IF batch[i].event = "Rebalanced"
                        THEN count + Cardinality({j \in 1..i : batch[j].event = "Rebalanced"})
                        ELSE 0]])
  BY <1>3 DEF Produce
<1> DEFINE length == Len(batch)
           J == {j \in 1..length : batch[j].event = "Rebalanced"}
           rank == [i \in 1..length |-> Cardinality({j \in 1..i : j \in J})]
           block == [i \in 1..length |->
                [event |-> batch[i].event, tx |-> batch[i].tx, own |-> batch[i].own,
                 id |-> IF i \in J THEN count + rank[i] ELSE 0]]
           added == {<<next, i>> : i \in J}
<1>6. /\ length \in Nat /\ DOMAIN batch = 1..length /\ J \in SUBSET (1..length)
      /\ batch \in [1..length -> [event : STRING, tx : Nat, own : BOOLEAN]]
  <2>1. batch \in Seq([event : STRING, tx : Nat, own : BOOLEAN])
    BY IndexerAssumption
  <2> DEFINE S == [event : STRING, tx : Nat, own : BOOLEAN]
  <2>2. batch \in Seq(S)
    BY <2>1
  <2> HIDE DEF S
  <2>3. length \in Nat /\ DOMAIN batch = 1..length /\ batch \in [1..length -> S]
    BY <2>2, LenProperties
  <2>4. QED BY <2>3 DEF S
<1>7. \A i \in 1..length : rank[i] = Cardinality({j \in 1..i : batch[j].event = "Rebalanced"})
  <2>1. \A i \in 1..length : {j \in 1..i : j \in J} = {j \in 1..i : batch[j].event = "Rebalanced"}
    BY <1>6
  <2>2. QED BY <2>1
<1>8. /\ IsFiniteSet(J) /\ Cardinality(J) \in Nat
      /\ \A i \in 1..length : rank[i] \in 0..Cardinality(J)
      /\ \A i \in J : rank[i] >= 1
      /\ \A i \in J, k \in J : i < k => rank[i] < rank[k]
  BY <1>6, CountsGrow
<1>9. IsFiniteSet(Rebalances) /\ count \in Nat /\ Len(chain) \in Nat /\ next \in Nat
  BY <1>2, <1>3, <1>4
<1> HIDE DEF rank
<1>10. block \in Seq([event : STRING, tx : Nat, own : BOOLEAN, id : Nat])
  <2>1. \A i \in 1..length : block[i] \in [event : STRING, tx : Nat, own : BOOLEAN, id : Nat]
    BY <1>6, <1>8, <1>9
  <2>2. QED BY <1>6, <2>1
<1>11. chain' = Append(chain, block)
  <2>1. [i \in DOMAIN batch |->
                [event |-> batch[i].event, tx |-> batch[i].tx, own |-> batch[i].own,
                 id |-> IF batch[i].event = "Rebalanced"
                        THEN count + Cardinality({j \in 1..i : batch[j].event = "Rebalanced"})
                        ELSE 0]] = block
    BY <1>6, <1>7
  <2>2. QED BY <1>5, <2>1
<1> HIDE DEF block
<1>12. /\ Len(chain') = next
      /\ chain'[next] = block
      /\ \A m \in Places(1, Len(chain)) : LogAt(m)' = LogAt(m) /\ RowAt(m)' = RowAt(m)
      /\ \A l \in Int, h \in Int : 1 <= l /\ h <= Len(chain) =>
           Places(l, h)' = Places(l, h) /\ RowsOf(l, h)' = RowsOf(l, h)
           /\ FollowedPlaces(l, h)' = FollowedPlaces(l, h)
  BY <1>10, <1>11, <1>4, BlocksAreFinal DEF IndexerInv
<1>13. chain' \in Seq(Seq([event : STRING, tx : Nat, own : BOOLEAN, id : Nat]))
  BY <1>10, <1>11, AppendProperties DEF IndexerInv, ChainOK
<1>14. \A m : m \in Places(1, Len(chain))' <=>
         m \in Places(1, Len(chain)) \/ \E i \in 1..length : m = <<next, i>>
  <2>1. 1..Len(chain') = (1..Len(chain)) \cup {next}
    BY <1>9, <1>12, <1>4
  <2>2. DOMAIN block = 1..length
    BY DEF block
  <2>3. \A m : m \in Places(1, Len(chain))' <=> \E n \in 1..Len(chain') : \E i \in DOMAIN chain'[n] : m = <<n, i>>
    BY DEF Places
  <2>4. \A n \in 1..Len(chain) : chain'[n] = chain[n]
    BY <1>10, <1>11, BlocksAreFinal DEF IndexerInv
  <2>5. QED BY <1>12, <2>1, <2>2, <2>3, <2>4, PlaceIs
<1>15. \A i \in 1..length : LogAt(<<next, i>>)' = block[i]
  BY <1>12 DEF LogAt
<1>16. Rebalances' = Rebalances \cup added
  <2>1. \A i \in 1..length : block[i].event = "Rebalanced" <=> i \in J
    BY <1>6 DEF block
  <2>2. Rebalances' = {m \in Places(1, Len(chain))' : LogAt(m)'.event = "Rebalanced"}
    BY DEF Rebalances
  <2>3. ASSUME NEW m PROVE m \in Rebalances' <=> m \in Rebalances \cup added
    BY <1>12, <1>14, <1>15, <2>1, <2>2 DEF Rebalances
  <2>4. QED BY <2>3
<1>17. \A m \in Rebalances : m[1] \in 1..Len(chain) /\ LogAt(m)' = LogAt(m)
  BY <1>9, <1>12, PlacesOfChain DEF Rebalances
<1>18. IsFiniteSet(Rebalances') /\ Cardinality(Rebalances') = count + Cardinality(J)
  <2>1. IsFiniteSet(added) /\ Cardinality(added) = Cardinality(J)
    <3> DEFINE f == [i \in J |-> <<next, i>>]
    <3>1. f \in Bijection(J, added)
      <4>1. f \in Surjection(J, added)
        BY DEF Surjection
      <4>2. f \in Injection(J, added)
        BY DEF Injection, IsInjective
      <4>3. QED BY <4>1, <4>2 DEF Bijection
    <3>2. ExistsBijection(J, added)
      BY <3>1 DEF ExistsBijection
    <3> HIDE DEF added
    <3>3. QED BY <1>8, <3>2, FS_Bijection
  <2>2. Rebalances \cap added = {}
    BY <1>9, <1>4, <1>17
  <2>3. Cardinality(Rebalances \cap added) = 0
    BY <2>2, FS_EmptySet
  <2>4. /\ IsFiniteSet(Rebalances \cup added)
        /\ Cardinality(Rebalances \cup added) = Cardinality(Rebalances) + Cardinality(added)
                                                 - Cardinality(Rebalances \cap added)
    BY <1>9, <2>1, FS_Union
  <2>5. QED BY <1>8, <1>9, <1>16, <2>1, <2>3, <2>4, <1>3
<1>19. \A i \in J : LogAt(<<next, i>>)'.id = count + rank[i]
  <2>1. \A i \in J : i \in 1..length /\ block[i].id = count + rank[i]
    BY DEF block
  <2>2. QED BY <1>15, <2>1
<1>20. \A m \in Rebalances' : LogAt(m)'.id \in 1..Cardinality(Rebalances')
  <2>1. ASSUME NEW m \in Rebalances PROVE LogAt(m)'.id \in 1..Cardinality(Rebalances')
    <3>1. LogAt(m).id \in 1..count
      BY <1>3 DEF IndexerInv, ChainOK
    <3>2. QED BY <1>8, <1>9, <1>17, <1>18, <3>1
  <2>2. ASSUME NEW i \in J PROVE LogAt(<<next, i>>)'.id \in 1..Cardinality(Rebalances')
    <3>1. LogAt(<<next, i>>)'.id = count + rank[i] /\ rank[i] \in 1..Cardinality(J)
      BY <1>8, <1>19
    <3>2. count \in Nat /\ Cardinality(J) \in Nat
      BY <1>8, <1>9
    <3>3. QED BY <1>18, <3>1, <3>2
  <2>3. QED BY <1>16, <2>1, <2>2
<1>21. \A m, n \in Rebalances' : LogAt(m)'.id = LogAt(n)'.id => m = n
  <2>1. \A m \in Rebalances : LogAt(m)'.id = LogAt(m).id /\ LogAt(m).id \in 1..count
    BY <1>17, <1>3 DEF IndexerInv, ChainOK
  <2>2. ASSUME NEW m \in Rebalances, NEW n \in Rebalances, LogAt(m)'.id = LogAt(n)'.id PROVE m = n
    BY <2>1, <2>2 DEF IndexerInv, ChainOK
  <2>3. ASSUME NEW m \in Rebalances, NEW i \in J PROVE LogAt(m)'.id < LogAt(<<next, i>>)'.id
    BY <1>8, <1>9, <1>19, <2>1
  <2>4. ASSUME NEW i \in J, NEW k \in J, LogAt(<<next, i>>)'.id = LogAt(<<next, k>>)'.id PROVE i = k
    <3>1. rank[i] = rank[k] /\ i \in Int /\ k \in Int
      BY <1>6, <1>8, <1>9, <1>19, <2>4
    <3>2. ~(i < k) /\ ~(k < i)
      BY <1>6, <1>8, <3>1
    <3>3. QED BY <3>1, <3>2
  <2>5. ASSUME NEW m \in Rebalances', NEW n \in Rebalances', LogAt(m)'.id = LogAt(n)'.id PROVE m = n
    <3>1. CASE m \in Rebalances /\ n \in Rebalances
      BY <2>2, <2>5, <3>1
    <3>2. CASE m \in Rebalances /\ n \in added
      <4>1. LogAt(m)'.id < LogAt(n)'.id /\ LogAt(m)'.id \in Int
        BY <2>1, <2>3, <3>2
      <4>2. QED BY <2>5, <4>1
    <3>3. CASE m \in added /\ n \in Rebalances
      <4>1. LogAt(n)'.id < LogAt(m)'.id /\ LogAt(n)'.id \in Int
        BY <2>1, <2>3, <3>3
      <4>2. QED BY <2>5, <4>1
    <3>4. CASE m \in added /\ n \in added
      BY <2>4, <2>5, <3>4
    <3>5. QED BY <1>16, <2>5, <3>1, <3>2, <3>3, <3>4
  <2>6. QED BY <2>5
<1>22. ChainOK'
  BY <1>13, <1>18, <1>20, <1>21 DEF ChainOK
<1>23. IndexerTypeOK' /\ BuilderFirst'
  <2>1. Len(chain)' = Len(chain) + 1
    BY <1>12, <1>4
  <2>2. 0..Len(chain) \subseteq 0..Len(chain)'
    BY <1>9, <2>1
  <2>3. QED BY <1>1, <2>2 DEF procVars, IndexerInv, IndexerTypeOK, BuilderFirst
<1>24. \A row \in {RowAt(m) : m \in FollowedPlaces(1, Len(chain))} :
          \E m \in FollowedPlaces(1, Len(chain))' : row = RowAt(m)'
  <2>1. ASSUME NEW m \in FollowedPlaces(1, Len(chain)) PROVE m \in FollowedPlaces(1, Len(chain))'
    <3>1. m \in Places(1, Len(chain))' /\ LogAt(m)' = LogAt(m) /\ Followed(LogAt(m))
      BY <1>12, <1>14 DEF FollowedPlaces
    <3>2. QED BY <3>1 DEF FollowedPlaces, Followed
  <2>2. \A m \in FollowedPlaces(1, Len(chain)) : RowAt(m)' = RowAt(m)
    BY <1>12 DEF FollowedPlaces
  <2>3. QED BY <2>1, <2>2
<1>. HIDE DEF J, added, length
<1>25. ASSUME NEW l \in Int, NEW h \in Int, 1 <= l, h <= Len(chain)
       PROVE  RowsOf(l, h)' = RowsOf(l, h)
  BY <1>10, <1>11, <1>25, RowsAreFinal DEF IndexerInv
<1>26. StoredOK'
  <2>1. PICK w \in Int : w = watermark /\ w <= Len(chain)
    BY <1>9 DEF IndexerInv, IndexerTypeOK
  <2>2. RowsOf(1, watermark)' = RowsOf(1, watermark)
    <3>1. RowsOf(1, w)' = RowsOf(1, w)
      BY <1>25, <2>1
    <3>2. watermark' = w
      BY <1>1, <2>1
    <3>3. QED BY <2>1, <3>1, <3>2
  <2>3. \A row \in DOMAIN stored : stored[row] = 1 /\ row \in {RowAt(m) : m \in FollowedPlaces(1, Len(chain))}
    BY DEF IndexerInv, StoredOK
  <2>4. QED BY <1>1, <1>24, <2>2, <2>3 DEF IndexerInv, StoredOK
<1>27. ASSUME NEW q \in Indexers PROVE ProcessOK(q)'
  <2>1. /\ from[q] \in Nat /\ to[q] \in 0..Len(chain) /\ head[q] \in 0..Len(chain)
        /\ ProcessOK(q)
    BY DEF IndexerInv, IndexerTypeOK
  <2>2. SUFFICES ASSUME indexerPc[q] \in {"fetch", "insert"} PROVE ProcessOK(q)'
    BY <1>1 DEF ProcessOK, procVars
  <2>3. 1 <= from[q] /\ from[q] <= to[q] /\ to[q] <= head[q]
    BY <2>1, <2>2 DEF ProcessOK
  <2>4. PICK f \in Int, t \in Int : f = from[q] /\ t = to[q]
    BY <1>9, <2>1
  <2>5. from'[q] = f /\ to'[q] = t
    BY <1>1, <2>4 DEF procVars
  <2>6. 1 <= f /\ f - 1 \in Int /\ f - 1 <= Len(chain) /\ t <= Len(chain)
    BY <1>9, <2>1, <2>3, <2>4
  <2>7. RowsOf(1, f - 1)' = RowsOf(1, f - 1) /\ RowsOf(f, t)' = RowsOf(f, t)
    BY <1>25, <2>6
  <2>8. RowsOf(1, from[q] - 1)' = RowsOf(1, from[q] - 1) /\ RowsOf(from[q], to[q])' = RowsOf(from[q], to[q])
    BY <2>4, <2>5, <2>7
  <2>9. QED BY <1>1, <2>1, <2>2, <2>8 DEF ProcessOK, procVars
<1>28. QED BY <1>22, <1>23, <1>26, <1>27 DEF IndexerInv

LEMMA IndexerKeeps == IndexerInv /\ [IndexerNext]_indexerVars => IndexerInv'
<1> SUFFICES ASSUME IndexerInv, [IndexerNext]_indexerVars PROVE IndexerInv'
  OBVIOUS
<1>1. CASE Produce
  BY <1>1, IndexerProduces
<1>2. ASSUME NEW p \in active, Run(p) \/ IndexerFail(p) \/ Built(p) PROVE IndexerInv'
  BY <1>2, IndexerReads, IndexerInserts, IndexerMarks, IndexerWipes, IndexerBuilt DEF Run
<1>3. CASE UNCHANGED indexerVars
  <2>1. UNCHANGED <<chain, stored, watermark, active, indexerPc, head, from, to, todo, indexerFaults>>
    BY <1>3 DEF indexerVars, procVars
  <2>2. IndexerTypeOK' /\ BuilderFirst'
    BY <2>1 DEF IndexerInv, IndexerTypeOK, BuilderFirst
  <2>3. ChainOK' /\ StoredOK'
    BY <2>1, SameRows DEF IndexerInv, StoredOK
  <2>4. \A q \in Indexers : ProcessOK(q)'
    BY <2>1, ProcessKept DEF IndexerInv
  <2>5. QED BY <2>2, <2>3, <2>4 DEF IndexerInv
<1>4. QED BY <1>1, <1>2, <1>3 DEF IndexerNext

LEMMA IndexerInvIsSound == IndexerInv => IndexerIsSound
<1> SUFFICES ASSUME IndexerInv PROVE IndexerIsSound
  OBVIOUS
<1>1. WatermarkIsIndexed
  BY DEF IndexerInv, StoredOK, WatermarkIsIndexed
<1>2. ASSUME NEW row \in DOMAIN stored, NEW q \in DOMAIN stored
      PROVE  stored[row] = 1 /\ (<<row.block, row.index>> = <<q.block, q.index>> => row = q)
  <2>1. PICK m \in FollowedPlaces(1, Len(chain)) : row = RowAt(m)
    BY DEF IndexerInv, StoredOK
  <2>2. PICK n \in FollowedPlaces(1, Len(chain)) : q = RowAt(n)
    BY DEF IndexerInv, StoredOK
  <2>3. m = <<m[1], m[2]>> /\ n = <<n[1], n[2]>>
    <3>1. Len(chain) \in Nat
      BY DEF IndexerInv, ChainOK
    <3>2. QED BY <3>1, PlacesOfChain DEF FollowedPlaces
  <2>4. QED BY <2>1, <2>2, <2>3, RowFields DEF IndexerInv, StoredOK
<1>3. QED BY <1>1, <1>2 DEF IndexerInv, IndexerIsSound, EachLogOnce

(* Whatever awaits fail, wherever a process dies and however two of them
   interleave, every followed log up to the stored watermark is in the tables,
   and no log is there twice (indexer.ts:33-60, 001_init.sql). *)
THEOREM IndexerIsSoundHolds == IndexerSpec => []IndexerIsSound
<1>1. IndexerSpec => []IndexerInv
  BY IndexerStarts, IndexerKeeps, PTL DEF IndexerSpec
<1>2. QED BY <1>1, IndexerInvIsSound, PTL

(* A followed log concerns the vault: the events of the perpetual venue that
   are stored are exactly those the other contracts do not have. *)
LEMMA FollowedConcerns == \A log : Followed(log) => Concerns(log)
<1>1. \A event \in DOMAIN Kept :
        /\ event \notin {"Transfer", "RedeemWithUnwind", "PeakSharePriceUpdated"}
        /\ event \in {"FundingSettled", "Liquidated", "AutoDeleveraged"} => Kept[event][1] = 3
  BY DEF Kept
<1>2. QED BY <1>1 DEF Followed, Concerns

(* A row written for the first time holds a log that was not held. *)
LEMMA InsertHolds ==
    ASSUME IndexerInv, NEW p \in active, Insert(p)
    PROVE  Store!Hold \/ UNCHANGED Store!vars
<1>1. chain' = chain
  BY DEF Insert
<1>2. PICK m \in FollowedPlaces(1, Len(chain)) : stored' = Inserted(RowAt(m))
  BY InsertIs
<1>3. DOMAIN stored' = DOMAIN stored \cup {RowAt(m)}
  BY <1>2, InsertedIs DEF IndexerInv
<1>4. Emitted' = Emitted
  BY <1>1, SameRows DEF Emitted
<1>5. m = <<m[1], m[2]>> /\ <<RowAt(m).block, RowAt(m).index>> = m
  <2>1. Len(chain) \in Nat /\ m \in Places(1, Len(chain))
    BY DEF IndexerInv, ChainOK, FollowedPlaces
  <2>2. QED BY <2>1, RowFields, PlacesOfChain
<1>6. Held' = Held \cup {m}
  BY <1>3, <1>5 DEF Held
<1>7. m \in Emitted
  BY FollowedConcerns DEF FollowedPlaces, Emitted
<1>8. CASE m \in Held
  BY <1>4, <1>6, <1>8 DEF Store!vars
<1>9. CASE m \notin Held
  BY <1>4, <1>6, <1>7, <1>9 DEF Store!Hold
<1>10. QED BY <1>8, <1>9

LEMMA IndexerStepsImplement ==
    IndexerInv /\ [IndexerNext]_indexerVars => [Store!Next]_(Store!vars)
<1> SUFFICES ASSUME IndexerInv, [IndexerNext]_indexerVars PROVE Store!Next \/ UNCHANGED Store!vars
  BY DEF Store!Next
<1>1. ASSUME chain' = chain, stored' = stored PROVE UNCHANGED Store!vars
  BY <1>1, SameRows DEF Store!vars, Emitted, Held
<1>2. CASE Produce
  <2>1. stored' = stored
    BY <1>2 DEF Produce
  <2>2. ChainOK' /\ ChainOK
    BY <1>2, IndexerProduces DEF IndexerInv
  <2>3. PICK block : chain' = Append(chain, block)
    BY <1>2 DEF Produce
  <2>4. \A n \in 1..Len(chain) : chain'[n] = chain[n]
    BY <2>2, <2>3 DEF ChainOK
  <2>5. Len(chain) \in Nat /\ Len(chain') = Len(chain) + 1
    BY <2>2, <2>3 DEF ChainOK
  <2>6. ASSUME NEW m \in Emitted PROVE m \in Emitted'
    <3>1. /\ m[1] \in 1..Len(chain) /\ m[2] \in DOMAIN chain[m[1]] /\ m = <<m[1], m[2]>>
          /\ Concerns(LogAt(m))
      BY <2>5, PlacesOfChain DEF Emitted
    <3>2. m[1] \in 1..Len(chain') /\ chain'[m[1]] = chain[m[1]]
      BY <2>4, <2>5, <3>1
    <3>3. LogAt(m)' = LogAt(m) /\ m \in Places(1, Len(chain))'
      BY <3>1, <3>2 DEF LogAt, Places
    <3>4. QED BY <3>1, <3>3 DEF Emitted, Concerns
  <2>7. Held' = Held
    BY <2>1 DEF Held
  <2>8. QED BY <2>6, <2>7 DEF Store!Next, Store!Emit
<1>3. ASSUME NEW p \in active, ResetData(p) PROVE Store!Wipe
  <2>1. chain' = chain /\ stored' = <<>>
    BY <1>3 DEF ResetData
  <2>2. Emitted' = Emitted
    BY <2>1, SameRows DEF Emitted
  <2>3. DOMAIN stored' = {}
    BY <2>1
  <2>4. QED BY <2>2, <2>3 DEF Store!Wipe, Held
<1>4. ASSUME NEW p \in active, Insert(p) PROVE Store!Next \/ UNCHANGED Store!vars
  BY <1>4, InsertHolds DEF Store!Next
<1>5. ASSUME NEW p \in active,
             Start(p) \/ Begin(p) \/ Fetch(p) \/ SetLastBlock(p) \/ IndexerFail(p) \/ Built(p)
      PROVE  UNCHANGED Store!vars
  BY <1>1, <1>5 DEF Start, Begin, Fetch, SetLastBlock, IndexerFail, Built
<1>6. CASE UNCHANGED indexerVars
  BY <1>1, <1>6 DEF indexerVars
<1>7. QED BY <1>2, <1>3, <1>4, <1>5, <1>6 DEF IndexerNext, Run, Store!Next

LEMMA IndexerStartsImplement == IndexerInit => Store!Init
<1> SUFFICES ASSUME IndexerInit PROVE Store!Init
  OBVIOUS
<1>1. 1..Len(chain) = {} /\ DOMAIN stored = {}
  BY DEF IndexerInit
<1>2. QED BY <1>1, PlaceIs DEF Store!Init, Emitted, Held

(* The tables implement the abstract store, its progress aside: a row is only
   ever added for a log of the chain that concerns the vault and was not held,
   and only wiping the data takes rows away (indexer.ts:100-215). *)
THEOREM IndexerImplementsStore == IndexerSpec => Store!Init /\ [][Store!Next]_(Store!vars)
<1>1. IndexerSpec => []IndexerInv
  BY IndexerStarts, IndexerKeeps, PTL DEF IndexerSpec
<1>2. QED BY <1>1, IndexerStartsImplement, IndexerStepsImplement, PTL DEF IndexerSpec
=============================================================================
