----------------------------- MODULE VaultProofs -----------------------------
(***************************************************************************)
(* Theorems about Vault and FeeManager, for every fee rate, scale, amount  *)
(* and bound.                                                              *)
(***************************************************************************)
EXTENDS Vault, TLAPS

-----------------------------------------------------------------------------
(***************************************************************************)
(* FeeManager._compute.                                                    *)
(***************************************************************************)

LEMMA FeeFields ==
    ASSUME NEW f \in FeeState
    PROVE  /\ f.management \in Nat
           /\ f.performance \in 0 .. BPS
           /\ f.withdrawal \in 0 .. (BPS - 1)
           /\ f.recipient \in Recipients
           /\ f.lastAccrual \in Nat /\ f.hwm \in Nat /\ f.performanceAssets \in Nat
  BY FeeAssumption, UnitsAssumption DEF FeeState

LEMMA ManagementSharesType ==
    ASSUME NEW f \in FeeState, NEW s \in Nat, NEW t \in Nat
    PROVE  managementShares(f, s, t) \in Nat
  <1> DEFINE fraction == (f.management * Pos(t - f.lastAccrual) * WAD) \div (BPS * YEAR)
  <1>1. f.management * Pos(t - f.lastAccrual) * WAD \in Nat
    <2>1. f.management \in Nat /\ Pos(t - f.lastAccrual) \in Nat /\ WAD \in Nat
      BY FeeFields, PosType, UnitsAssumption
    <2> QED BY <2>1, MulNat
  <1>2. BPS * YEAR \in Nat \ {0}
    BY UnitsAssumption, FeeAssumption
  <1>3. fraction \in Nat
    BY <1>1, <1>2, DivBounds
  <1>4. ASSUME fraction < WAD PROVE (s * fraction) \div (WAD - fraction) \in Nat
    <2>1. s * fraction \in Nat /\ WAD - fraction \in Nat \ {0}
      BY <1>3, <1>4, UnitsAssumption, MulNat
    <2> QED BY <2>1, DivBounds
  <1> HIDE DEF fraction
  <1> QED BY <1>4 DEF managementShares, fraction

\* What is due is part of the assets, and never more than the gain above the
\* mark: after paying it, the old mark is still covered.
LEMMA DueBounds ==
    ASSUME NEW f \in FeeState, NEW a \in Nat \ {0}, NEW s1 \in Nat \ {0}
    PROVE  /\ performanceDue(f, a, s1) \in Nat
           /\ performanceDue(f, a, s1) < a
           /\ sharePriceOf(a, s1) \in Nat
           /\ sharePriceOf(a, s1) > f.hwm =>
                 f.hwm * s1 <= (a - performanceDue(f, a, s1)) * WAD
  <1> DEFINE pps  == sharePriceOf(a, s1)
             up   == Pos(pps - f.hwm)
             gain == (up * s1) \div WAD
             due  == (gain * f.performance) \div BPS
  <1>1. f.hwm \in Nat /\ f.performance \in Nat /\ f.performance <= BPS /\ BPS \in Nat \ {0} /\ WAD \in Nat \ {0}
    BY FeeFields, UnitsAssumption
  <1>2. pps \in Nat /\ pps * s1 <= a * WAD
    BY <1>1, MulNat, DivBounds DEF sharePriceOf
  <1>3. up \in Nat
    BY <1>1, <1>2, PosType
  <1>4. gain \in Nat /\ gain * WAD <= up * s1
    BY <1>1, <1>3, MulNat, DivBounds
  <1>5. due \in Nat /\ due <= gain
    <2>1. gain * f.performance \in Nat /\ gain * f.performance <= gain * BPS
      BY <1>1, <1>4, MulNat, MulMono
    <2> QED BY <1>1, <1>4, <2>1, DivBounds, DivAtMost
  <1>6. performanceDue(f, a, s1) = IF due < a THEN due ELSE 0
    BY DEF performanceDue
  <1>7. ASSUME pps > f.hwm, NEW x \in Nat, x <= gain, x < a
        PROVE  f.hwm * s1 <= (a - x) * WAD
    <2>1. up = pps - f.hwm
      BY <1>1, <1>2, <1>7 DEF Pos
    <2>2. up * s1 = pps * s1 - f.hwm * s1
      BY <1>1, <1>2, <2>1
    <2>3. x * WAD <= gain * WAD
      BY <1>1, <1>4, <1>7, MulMono
    <2>4. f.hwm * s1 + x * WAD <= a * WAD
      <3>1. f.hwm * s1 \in Nat /\ x * WAD \in Nat /\ a * WAD \in Nat /\ pps * s1 \in Nat
            /\ gain * WAD \in Nat
        BY <1>1, <1>2, <1>4, MulNat
      <3> QED BY <3>1, <1>2, <1>4, <2>2, <2>3
    <2>5. (a - x) * WAD = a * WAD - x * WAD
      BY <1>1
    <2> QED BY <2>4, <2>5, <1>1, MulNat
  <1>8. performanceDue(f, a, s1) \in Nat /\ performanceDue(f, a, s1) < a
        /\ performanceDue(f, a, s1) <= gain
    BY <1>4, <1>5, <1>6
  <1> HIDE DEF pps, up, gain, due
  <1>9. pps > f.hwm => f.hwm * s1 <= (a - performanceDue(f, a, s1)) * WAD
    BY <1>7, <1>8
  <1> QED BY <1>2, <1>8, <1>9 DEF pps

LEMMA PerformanceSharesType ==
    ASSUME NEW f \in FeeState, NEW a \in Nat \ {0}, NEW s1 \in Nat \ {0}
    PROVE  performanceShares(f, a, s1) \in Nat
  <1>1. performanceDue(f, a, s1) \in Nat /\ performanceDue(f, a, s1) < a
    BY DueBounds
  <1>2. performanceDue(f, a, s1) * s1 \in Nat /\ a - performanceDue(f, a, s1) \in Nat \ {0}
    BY <1>1, MulNat
  <1> QED BY <1>2, DivBounds DEF performanceShares

LEMMA FeeSharesType ==
    ASSUME NEW f \in FeeState, NEW a \in Nat, NEW s \in Nat, NEW t \in Nat
    PROVE  feeShares(f, a, s, t) \in Nat
  <1>1. CASE Chargeable(f, a, s)
    <2>1. a \in Nat \ {0} /\ s \in Nat \ {0}
      BY <1>1 DEF Chargeable
    <2>2. managementShares(f, s, t) \in Nat
      BY ManagementSharesType
    <2>3. s + managementShares(f, s, t) \in Nat \ {0}
      BY <2>1, <2>2
    <2>4. performanceShares(f, a, s + managementShares(f, s, t)) \in Nat
      BY <2>1, <2>3, PerformanceSharesType
    <2> QED BY <2>2, <2>4 DEF feeShares
  <1>2. CASE ~Chargeable(f, a, s)
    BY <1>2 DEF feeShares
  <1> QED BY <1>1, <1>2

\* The mark after the fee shares are minted is never below the old one: the
\* shares minted are worth what is due, and what is due leaves the old mark
\* covered.
LEMMA MarkNeverFalls ==
    ASSUME NEW f \in FeeState, NEW a \in Nat \ {0}, NEW s1 \in Nat \ {0}
    PROVE  markAfter(f, a, s1) \in Nat /\ markAfter(f, a, s1) >= f.hwm
  <1> DEFINE due    == performanceDue(f, a, s1)
             minted == performanceShares(f, a, s1)
             rest   == a - due
  <1>1. f.hwm \in Nat /\ WAD \in Nat \ {0}
    BY FeeFields, UnitsAssumption
  <1>2. due \in Nat /\ rest \in Nat \ {0}
    BY DueBounds
  <1>3. minted \in Nat /\ minted * rest <= due * s1
    BY <1>2, MulNat, DivBounds DEF performanceShares
  <1>4. CASE sharePriceOf(a, s1) > f.hwm
    <2>1. f.hwm * s1 <= rest * WAD
      BY <1>4, DueBounds
    <2>2. (s1 + minted) * rest <= a * s1
      <3>1. (s1 + minted) * rest = s1 * rest + minted * rest
        BY <1>2, <1>3
      <3>2. s1 * rest = s1 * a - s1 * due
        BY <1>2
      <3> QED BY <3>1, <3>2, <1>2, <1>3
    <2>3. (f.hwm * (s1 + minted)) * rest <= (f.hwm * s1) * a
      <3>1. f.hwm * ((s1 + minted) * rest) <= f.hwm * (a * s1)
        BY <1>1, <1>2, <1>3, <2>2, MulMono
      <3> QED BY <3>1, <1>1, <1>2, <1>3
    <2>4. (f.hwm * s1) * a <= (rest * WAD) * a
      BY <1>1, <1>2, <2>1, MulMono, MulNat
    <2>5. (f.hwm * (s1 + minted)) * rest <= (a * WAD) * rest
      <3>1. (rest * WAD) * a = (a * WAD) * rest
        BY <1>1, <1>2
      <3>2. /\ (f.hwm * (s1 + minted)) * rest \in Int /\ (f.hwm * s1) * a \in Int
            /\ (rest * WAD) * a \in Int
        BY <1>1, <1>2, <1>3
      <3> QED BY <3>1, <3>2, <2>3, <2>4
    <2>6. f.hwm * (s1 + minted) <= a * WAD
      <3>1. f.hwm * (s1 + minted) \in Nat /\ a * WAD \in Nat
        BY <1>1, <1>3, MulNat
      <3> QED BY <1>2, <2>5, <3>1, MulCancel
    <2>7. s1 + minted \in Nat \ {0} /\ a * WAD \in Nat
      BY <1>1, <1>3, MulNat
    <2>8. (a * WAD) \div (s1 + minted) >= f.hwm /\ (a * WAD) \div (s1 + minted) \in Nat
      BY <1>1, <2>6, <2>7, DivAtLeast, DivBounds
    <2> QED BY <1>4, <2>8 DEF markAfter, sharePriceOf
  <1>5. CASE ~(sharePriceOf(a, s1) > f.hwm)
    BY <1>1, <1>5 DEF markAfter
  <1> QED BY <1>4, <1>5

\* Field-wise form of the updates FeeManager makes.
LEMMA FeeUpdate ==
    ASSUME NEW f \in FeeState, NEW t \in Nat, NEW mark \in Nat, NEW paid \in Nat
    PROVE  [f EXCEPT !.lastAccrual = t, !.hwm = mark, !.performanceAssets = paid] \in FeeState
  BY DEF FeeState

LEMMA AccrueType ==
    ASSUME NEW f \in FeeState, NEW a \in Nat, NEW s \in Nat, NEW t \in Nat
    PROVE  /\ accrue(f, a, s, t) \in FeeState
           /\ accrue(f, a, s, t).hwm >= f.hwm
           /\ accrue(f, a, s, t).lastAccrual = t
  <1>1. CASE ~Chargeable(f, a, s)
    <2>1. accrue(f, a, s, t) = [f EXCEPT !.lastAccrual = t]
      BY <1>1 DEF accrue
    <2>2. f.hwm \in Nat
      BY FeeFields
    <2> QED BY <2>1, <2>2 DEF FeeState
  <1>2. CASE Chargeable(f, a, s)
    <2> DEFINE s1   == s + managementShares(f, s, t)
               paid == IF performanceShares(f, a, s1) = 0 THEN 0 ELSE performanceDue(f, a, s1)
               mark == markAfter(f, a, s1)
               total == f.performanceAssets + paid
    <2>1. a \in Nat \ {0} /\ s \in Nat \ {0}
      BY <1>2 DEF Chargeable
    <2>2. s1 \in Nat \ {0}
      <3>1. managementShares(f, s, t) \in Nat
        BY ManagementSharesType
      <3> QED BY <2>1, <3>1
    <2>3. mark \in Nat /\ mark >= f.hwm
      BY <2>1, <2>2, MarkNeverFalls
    <2>4. paid \in Nat
      BY <2>1, <2>2, DueBounds
    <2>5. total \in Nat
      BY <2>4, FeeFields
    <2>6. accrue(f, a, s, t) = [f EXCEPT !.lastAccrual = t, !.hwm = mark,
                                         !.performanceAssets = total]
      BY <1>2 DEF accrue
    <2> HIDE DEF s1, paid, mark, total
    <2>7. accrue(f, a, s, t) \in FeeState
      <3>1. mark \in Nat
        BY <2>3
      <3>2. [f EXCEPT !.lastAccrual = t, !.hwm = mark, !.performanceAssets = total] \in FeeState
        BY <2>5, <3>1, FeeUpdate
      <3> QED BY <2>6, <3>2, Zenon
    <2>8. accrue(f, a, s, t).hwm = mark /\ accrue(f, a, s, t).lastAccrual = t
      BY <2>6 DEF FeeState
    <2> QED BY <2>3, <2>7, <2>8
  <1> QED BY <1>1, <1>2

\* No gain above the mark, no performance shares.
LEMMA NoGainNoShares ==
    ASSUME NEW f \in FeeState, NEW a \in Nat \ {0}, NEW s1 \in Nat \ {0},
           sharePriceOf(a, s1) <= f.hwm
    PROVE  performanceShares(f, a, s1) = 0
  <1>1. f.hwm \in Nat /\ f.performance \in Nat /\ BPS \in Nat \ {0} /\ WAD \in Nat \ {0}
    BY FeeFields, UnitsAssumption
  <1>2. sharePriceOf(a, s1) \in Nat
    BY DueBounds
  <1>3. Pos(sharePriceOf(a, s1) - f.hwm) = 0
    BY <1>1, <1>2 DEF Pos
  <1>4. (0 * s1) \div WAD = 0 /\ (0 * f.performance) \div BPS = 0
    BY <1>1
  <1>5. performanceDue(f, a, s1) = 0
    BY <1>3, <1>4 DEF performanceDue
  <1>6. (0 * s1) \div (a - 0) = 0
    OBVIOUS
  <1> QED BY <1>5, <1>6 DEF performanceShares

\* After an accrual, a second one at the same instant mints nothing.
LEMMA AccruedOnce ==
    ASSUME NEW f \in FeeState, NEW a \in Nat \ {0}, NEW s \in Nat \ {0}, NEW t \in Nat \ {0},
           f.lastAccrual > 0
    PROVE  feeShares(accrue(f, a, s, t), a, s + feeShares(f, a, s, t), t) = 0
  <1> DEFINE s1 == s + managementShares(f, s, t)
             g  == accrue(f, a, s, t)
             s2 == s1 + performanceShares(f, a, s1)
  <1>1. Chargeable(f, a, s)
    BY DEF Chargeable
  <1>2. s1 \in Nat \ {0} /\ managementShares(f, s, t) \in Nat
    <2>1. s \in Nat
      OBVIOUS
    <2>2. managementShares(f, s, t) \in Nat
      BY <2>1, ManagementSharesType
    <2> QED BY <2>2
  <1>3. performanceShares(f, a, s1) \in Nat /\ s2 \in Nat \ {0}
    BY <1>2, PerformanceSharesType
  <1>4. s + feeShares(f, a, s, t) = s2
    BY <1>1, <1>2, <1>3 DEF feeShares
  <1>5. g \in FeeState /\ g.lastAccrual = t
    BY AccrueType
  <1>6. g.hwm = markAfter(f, a, s1)
    BY <1>1 DEF accrue, FeeState
  <1>7. sharePriceOf(a, s2) <= g.hwm
    <2>1. sharePriceOf(a, s1) \in Nat /\ sharePriceOf(a, s2) \in Nat /\ f.hwm \in Nat
      BY <1>2, <1>3, DueBounds, FeeFields
    <2>2. CASE sharePriceOf(a, s1) > f.hwm
      BY <1>6, <2>1, <2>2 DEF markAfter
    <2>3. CASE ~(sharePriceOf(a, s1) > f.hwm)
      <3>1. performanceShares(f, a, s1) = 0
        BY <1>2, <2>1, <2>3, NoGainNoShares
      <3>2. s2 = s1
        BY <1>2, <3>1
      <3> QED BY <1>6, <2>1, <2>3, <3>2 DEF markAfter
    <2> QED BY <2>2, <2>3
  <1> HIDE DEF g, s1, s2
  <1>8. managementShares(g, s2, t) = 0
    <2>1. g.management \in Nat /\ WAD \in Nat \ {0} /\ BPS * YEAR \in Nat \ {0}
      BY <1>5, FeeFields, UnitsAssumption, FeeAssumption
    <2>2. Pos(t - g.lastAccrual) = 0
      BY <1>5 DEF Pos
    <2>3. (g.management * 0 * WAD) \div (BPS * YEAR) = 0
      BY <2>1
    <2>4. (s2 * 0) \div (WAD - 0) = 0
      BY <1>3, <2>1
    <2> QED BY <2>1, <2>2, <2>3, <2>4 DEF managementShares
  <1>9. performanceShares(g, a, s2 + 0) = 0
    BY <1>3, <1>5, <1>7, NoGainNoShares
  <1>10. Chargeable(g, a, s2)
    BY <1>3, <1>5 DEF Chargeable
  <1>11. feeShares(g, a, s2, t) = 0
    BY <1>8, <1>9, <1>10 DEF feeShares
  <1> QED BY <1>4, <1>11 DEF g

-----------------------------------------------------------------------------
(***************************************************************************)
(* The inductive invariant: typing, and the fee clock runs as soon as      *)
(* there are shares (every entry accrues first).                           *)
(***************************************************************************)
VInv == TypeOK /\ (fee.lastAccrual = 0 => totalSupply = 0)

AssetsPriced == totalAssets + 1

\* The numbers of the pricing window.
LEMMA WindowTypes ==
    ASSUME VInv
    PROVE  /\ totalAssets \in Nat /\ AssetsPriced \in Nat \ {0}
           /\ pendingFeeShares \in Nat /\ PricedSupply \in Nat \ {0}
           /\ totalSupply + VIRTUAL_SHARES <= PricedSupply
           /\ SharesAfterFees \in [Holders -> Nat]
  <1>1. idle \in Nat /\ nav \in Nat /\ totalSupply \in Nat /\ fee \in FeeState /\ now \in Nat
        /\ shares \in [Holders -> Nat] /\ VIRTUAL_SHARES \in Nat \ {0}
    BY VaultAssumption DEF VInv, TypeOK
  <1>2. totalAssets \in Nat /\ AssetsPriced \in Nat \ {0}
    BY <1>1 DEF totalAssets, AssetsPriced
  <1>3. pendingFeeShares \in Nat
    <2>1. totalAssets + 1 \in Nat /\ totalSupply + VIRTUAL_SHARES \in Nat
      BY <1>1, <1>2
    <2>2. feeShares(fee, totalAssets + 1, totalSupply + VIRTUAL_SHARES, now) \in Nat
      BY <1>1, <2>1, FeeSharesType
    <2> QED BY <2>2 DEF pendingFeeShares
  <1>4. PricedSupply \in Nat \ {0} /\ totalSupply + VIRTUAL_SHARES <= PricedSupply
    BY <1>1, <1>3 DEF PricedSupply
  <1>5. SharesAfterFees \in [Holders -> Nat]
    <2>1. fee.recipient \in Holders
      BY <1>1, FeeFields, VaultAssumption
    <2> QED BY <1>1, <1>3, <2>1 DEF SharesAfterFees
  <1> QED BY <1>2, <1>3, <1>4, <1>5

\* _openPricing keeps the fee state well formed, never lowers the mark, and
\* starts the clock when the NAV is trusted.
LEMMA AccruedType ==
    ASSUME VInv
    PROVE  /\ Accrued \in FeeState /\ Accrued.hwm >= fee.hwm
           /\ isOperational => Accrued.lastAccrual = now
  <1>1. fee \in FeeState /\ now \in Nat /\ 0 \in Nat
    BY DEF VInv, TypeOK
  <1>2. totalAssets + 1 \in Nat /\ totalSupply + VIRTUAL_SHARES \in Nat
    BY WindowTypes, VaultAssumption DEF VInv, TypeOK
  <1>3. CASE ~isOperational
    <2>1. fee.hwm \in Nat
      BY <1>1, FeeFields
    <2> QED BY <1>1, <1>3, <2>1 DEF Accrued
  <1>4. CASE isOperational /\ totalSupply = 0
    <2>1. Accrued = accrue(fee, 0, 0, now)
      BY <1>4 DEF Accrued
    <2> QED BY <1>1, <2>1, AccrueType
  <1>5. CASE isOperational /\ totalSupply # 0
    <2>1. Accrued = accrue(fee, totalAssets + 1, totalSupply + VIRTUAL_SHARES, now)
      BY <1>5 DEF Accrued
    <2> QED BY <1>1, <1>2, <2>1, AccrueType
  <1> QED BY <1>3, <1>4, <1>5

\* The four conversions round in favour of the vault.
LEMMA Conversions ==
    ASSUME VInv, NEW x \in Nat
    PROVE  /\ SharesDown(x) \in Nat /\ SharesDown(x) * AssetsPriced <= x * PricedSupply
           /\ SharesUp(x) \in Nat /\ x * PricedSupply <= SharesUp(x) * AssetsPriced
           /\ AssetsDown(x) \in Nat /\ AssetsDown(x) * PricedSupply <= x * AssetsPriced
           /\ AssetsUp(x) \in Nat /\ x * AssetsPriced <= AssetsUp(x) * PricedSupply
  <1>1. AssetsPriced \in Nat \ {0} /\ PricedSupply \in Nat \ {0}
    BY WindowTypes
  <1>2. x * PricedSupply \in Nat /\ x * AssetsPriced \in Nat
    BY <1>1, MulNat
  <1>3. SharesDown(x) = (x * PricedSupply) \div AssetsPriced
        /\ SharesUp(x) = CeilDiv(x * PricedSupply, AssetsPriced)
        /\ AssetsDown(x) = (x * AssetsPriced) \div PricedSupply
        /\ AssetsUp(x) = CeilDiv(x * AssetsPriced, PricedSupply)
    BY DEF SharesDown, SharesUp, AssetsDown, AssetsUp, AssetsPriced
  <1>4. SharesDown(x) \in Nat /\ SharesDown(x) * AssetsPriced <= x * PricedSupply
    BY <1>1, <1>2, <1>3, DivBounds
  <1>5. SharesUp(x) \in Nat /\ x * PricedSupply <= SharesUp(x) * AssetsPriced
    BY <1>1, <1>2, <1>3, CeilBounds
  <1>6. AssetsDown(x) \in Nat /\ AssetsDown(x) * PricedSupply <= x * AssetsPriced
    BY <1>1, <1>2, <1>3, DivBounds
  <1>7. AssetsUp(x) \in Nat /\ x * AssetsPriced <= AssetsUp(x) * PricedSupply
    BY <1>1, <1>2, <1>3, CeilBounds
  <1> QED BY <1>4, <1>5, <1>6, <1>7

\* The fee contained in a gross amount is part of it.
LEMMA FeeOnTotalBound ==
    ASSUME NEW f \in FeeState, NEW x \in Nat
    PROVE  feeOnTotal(f, x) \in Nat /\ feeOnTotal(f, x) <= x
  <1>1. f.withdrawal \in Nat /\ f.withdrawal + BPS \in Nat \ {0}
    BY FeeFields, UnitsAssumption
  <1>2. x * f.withdrawal \in Nat /\ x * f.withdrawal <= x * (f.withdrawal + BPS)
    BY <1>1, UnitsAssumption, MulNat, MulMono
  <1> QED BY <1>1, <1>2, CeilBounds, CeilAtMost DEF feeOnTotal

\* What a redemption pays is worth at most the shares burnt.
LEMMA RedeemBound ==
    ASSUME VInv, NEW x \in Nat
    PROVE  previewRedeem(x) \in Nat /\ previewRedeem(x) * PricedSupply <= x * AssetsPriced
  <1>1. fee \in FeeState /\ AssetsDown(x) \in Nat /\ PricedSupply \in Nat
    BY Conversions, WindowTypes DEF VInv, TypeOK
  <1>2. feeOnTotal(fee, AssetsDown(x)) \in Nat /\ feeOnTotal(fee, AssetsDown(x)) <= AssetsDown(x)
    BY <1>1, FeeOnTotalBound
  <1>3. previewRedeem(x) \in Nat /\ previewRedeem(x) <= AssetsDown(x)
    BY <1>1, <1>2 DEF previewRedeem
  <1>4. previewRedeem(x) * PricedSupply <= AssetsDown(x) * PricedSupply
    BY <1>1, <1>3, MulMono
  <1>5. AssetsDown(x) * PricedSupply <= x * AssetsPriced
    BY Conversions
  <1>6. /\ previewRedeem(x) * PricedSupply \in Int /\ AssetsDown(x) * PricedSupply \in Int
        /\ x * AssetsPriced \in Int
    BY <1>1, <1>3, WindowTypes
  <1> QED BY <1>3, <1>4, <1>5, <1>6

\* What a withdrawal burns is worth at least the assets paid.
LEMMA WithdrawBound ==
    ASSUME VInv, NEW x \in Nat
    PROVE  previewWithdraw(x) \in Nat /\ x * PricedSupply <= previewWithdraw(x) * AssetsPriced
  <1> DEFINE raw == feeOnRaw(fee, x)
             gross == x + raw
  <1>1. raw \in Nat
    <2>1. fee.withdrawal \in Nat /\ BPS \in Nat \ {0}
      BY FeeFields, UnitsAssumption DEF VInv, TypeOK
    <2>2. x * fee.withdrawal \in Nat
      BY <2>1, MulNat
    <2> QED BY <2>1, <2>2, CeilBounds DEF feeOnRaw
  <1>2. gross \in Nat /\ x <= gross /\ PricedSupply \in Nat /\ AssetsPriced \in Nat
    BY <1>1, WindowTypes
  <1>3. x * PricedSupply <= gross * PricedSupply
    BY <1>2, MulMono
  <1> HIDE DEF gross
  <1>4. SharesUp(gross) \in Nat /\ gross * PricedSupply <= SharesUp(gross) * AssetsPriced
    BY <1>2, Conversions
  <1>5. previewWithdraw(x) = SharesUp(gross)
    BY DEF previewWithdraw, gross
  <1>6. /\ x * PricedSupply \in Int /\ gross * PricedSupply \in Int
        /\ SharesUp(gross) * AssetsPriced \in Int
    BY <1>2, <1>4
  <1> QED BY <1>3, <1>4, <1>5, <1>6

-----------------------------------------------------------------------------
(***************************************************************************)
(* The price of a share across a transaction.                              *)
(***************************************************************************)

LEMMA EntryKeepsPrice ==
    ASSUME NEW T \in Nat, NEW P \in Nat, NEW assets \in Nat, NEW minted \in Nat,
           minted * T <= assets * P
    PROVE  T * (P + minted) <= (T + assets) * P
  <1>1. T * (P + minted) = T * P + minted * T
    OBVIOUS
  <1>2. (T + assets) * P = T * P + assets * P
    OBVIOUS
  <1> QED BY <1>1, <1>2, MulNat

LEMMA ExitKeepsPrice ==
    ASSUME NEW T \in Nat, NEW P \in Nat, NEW assets \in Nat, NEW burnt \in Nat,
           assets * P <= burnt * T
    PROVE  T * (P - burnt) <= (T - assets) * P
  <1>1. T * (P - burnt) = T * P - burnt * T
    OBVIOUS
  <1>2. (T - assets) * P = T * P - assets * P
    OBVIOUS
  <1> QED BY <1>1, <1>2, MulNat

\* The price with these assets and shares is not below the price of the window.
KeepsPrice(assetsAfter, supplyAfter) ==
    AssetsPriced * (supplyAfter + VIRTUAL_SHARES) <= (assetsAfter + 1) * PricedSupply

LEMMA HistoryType ==
    ASSUME VInv, NEW a \in Nat, NEW s \in Nat, KeepsPrice(a, s), History(a, s)
    PROVE  profit' \in Nat /\ emptied' \in BOOLEAN
  <1>1. AssetsPriced \in Nat /\ PricedSupply \in Nat \ {0} /\ s + VIRTUAL_SHARES \in Nat /\ a + 1 \in Nat
    BY WindowTypes, VaultAssumption
  <1>2. AssetsPriced * (s + VIRTUAL_SHARES) \in Nat
    BY <1>1, MulNat
  <1>3. (AssetsPriced * (s + VIRTUAL_SHARES)) \div PricedSupply \in Nat
        /\ (AssetsPriced * (s + VIRTUAL_SHARES)) \div PricedSupply <= a + 1
    BY <1>1, <1>2, DivBounds, DivAtMost DEF KeepsPrice
  <1>4. Gift(a, s) \in Nat
    BY <1>1, <1>3 DEF Gift, AssetsPriced
  <1>5. profit' \in Nat
    BY <1>4 DEF History, VInv, TypeOK
  <1>6. emptied' \in BOOLEAN
    BY Zenon DEF History
  <1> QED BY <1>5, <1>6

LEMMA PriceKept ==
    ASSUME VInv, NEW a \in Nat, NEW s \in Nat, totalAssets' = a, totalSupply' = s, KeepsPrice(a, s)
    PROVE  ~PriceFalls
  <1>1. /\ AssetsPriced \in Nat /\ PricedSupply \in Nat /\ a + 1 \in Nat
        /\ s + VIRTUAL_SHARES \in Nat
    <2>1. AssetsPriced \in Nat /\ PricedSupply \in Nat
      BY WindowTypes
    <2>2. s + VIRTUAL_SHARES \in Nat
      BY VaultAssumption
    <2> QED BY <2>1, <2>2
  <1>2. (a + 1) * PricedSupply \in Nat /\ AssetsPriced * (s + VIRTUAL_SHARES) \in Nat
    BY <1>1, MulNat
  <1>3. AssetsPriced * (s + VIRTUAL_SHARES) <= (a + 1) * PricedSupply
    BY DEF KeepsPrice
  <1> QED BY <1>2, <1>3 DEF PriceFalls, AssetsPriced

LEMMA TxType == ASSUME VInv, Tx PROVE txs' \in 0 .. MaxTxs
  BY VaultAssumption DEF VInv, TypeOK, Tx

\* What every transaction of a user keeps.
Sound == VInv' /\ ~PriceFalls /\ fee'.hwm >= fee.hwm

\* What an entry or an exit does at the price of its window.
Priced ==
    /\ isOperational /\ fee' = Accrued /\ txs' = txs + 1
    /\ \E a, s \in Nat : totalAssets' = a /\ totalSupply' = s /\ KeepsPrice(a, s) /\ History(a, s)

LEMMA StepEnter ==
    ASSUME VInv, isOperational, NEW receiver \in Holders, NEW assets \in Nat, NEW minted \in Nat,
           minted * AssetsPriced <= assets * PricedSupply, Tx, Enter(receiver, assets, minted)
    PROVE  Sound /\ Priced
  <1>1. /\ SharesAfterFees \in [Holders -> Nat] /\ pendingFeeShares \in Nat
        /\ totalAssets \in Nat /\ AssetsPriced \in Nat /\ PricedSupply \in Nat
    BY WindowTypes
  <1>2. totalSupply' \in Nat /\ shares' \in [Holders -> Nat] /\ idle' \in Nat
    BY <1>1 DEF Enter, VInv, TypeOK
  <1>3. totalSupply' + VIRTUAL_SHARES = PricedSupply + minted
    BY <1>1, VaultAssumption DEF Enter, PricedSupply, VInv, TypeOK
  <1>4. totalAssets' = totalAssets + assets /\ totalAssets + assets \in Nat
    BY <1>1 DEF Enter, totalAssets, strategyVars, VInv, TypeOK
  <1>5. KeepsPrice(totalAssets + assets, totalSupply')
    <2>1. AssetsPriced * (PricedSupply + minted) <= (AssetsPriced + assets) * PricedSupply
      BY <1>1, EntryKeepsPrice
    <2>2. AssetsPriced + assets = totalAssets + assets + 1
      BY <1>1 DEF AssetsPriced
    <2> QED BY <1>3, <2>1, <2>2 DEF KeepsPrice
  <1>6. profit' \in Nat /\ emptied' \in BOOLEAN
    BY <1>2, <1>4, <1>5, HistoryType DEF Enter
  <1>7. fee' \in FeeState /\ fee'.hwm >= fee.hwm /\ fee'.lastAccrual = now
    BY AccruedType DEF Enter
  <1>8. VInv'
    <2>1. txs' \in 0 .. MaxTxs
      BY TxType DEF Enter
    <2>2. now' \in Nat \ {0} /\ now' = now
      BY DEF Enter, VInv, TypeOK
    <2>3. nav' \in Nat /\ liquid' \in 0 .. nav' /\ depositCap' \in Caps
      BY DEF Enter, VInv, TypeOK, strategyVars, adminVars
    <2>4. dependent' \in BOOLEAN /\ healthy' \in BOOLEAN /\ gates' \in [GateNames -> BOOLEAN]
      BY Zenon DEF Enter, VInv, TypeOK, strategyVars, adminVars
    <2>5. TypeOK'
      BY <1>2, <1>6, <1>7, <2>1, <2>2, <2>3, <2>4, Zenon DEF TypeOK
    <2>6. ~(fee'.lastAccrual = 0)
      BY <1>7, <2>2
    <2> QED BY <2>5, <2>6 DEF VInv
  <1>9. ~PriceFalls
    BY <1>2, <1>4, <1>5, PriceKept
  <1>10. Priced
    <2>1. fee' = Accrued /\ History(totalAssets + assets, totalSupply') /\ txs' = txs + 1
      BY DEF Enter, Tx
    <2> QED BY <1>2, <1>4, <1>5, <2>1 DEF Priced
  <1> QED BY <1>7, <1>8, <1>9, <1>10 DEF Sound

\* The shares burnt are covered by the balance, so the supply keeps being the
\* priced supply less what is burnt.
LEMMA BurnTypes ==
    ASSUME VInv, isOperational, NEW owner \in Holders, NEW burnt \in Nat, Burn(owner, burnt)
    PROVE  /\ shares' \in [Holders -> Nat] /\ totalSupply' \in Nat
           /\ totalSupply' + VIRTUAL_SHARES = PricedSupply - burnt
           /\ fee' \in FeeState /\ fee'.hwm >= fee.hwm /\ fee'.lastAccrual = now
  <1>1. SharesAfterFees \in [Holders -> Nat] /\ pendingFeeShares \in Nat /\ totalSupply \in Nat
    BY WindowTypes DEF VInv, TypeOK
  <1>2. SharesAfterFees[owner] - burnt \in Nat
    BY <1>1 DEF Burn
  <1>3. shares' \in [Holders -> Nat]
    BY <1>1, <1>2 DEF Burn
  <1>4. totalSupply' \in Nat /\ totalSupply' + VIRTUAL_SHARES = PricedSupply - burnt
    BY <1>1, VaultAssumption DEF Burn, PricedSupply
  <1>5. fee' \in FeeState /\ fee'.hwm >= fee.hwm /\ fee'.lastAccrual = now
    BY AccruedType DEF Burn
  <1> QED BY <1>3, <1>4, <1>5

\* Paying out at most what the burnt shares are worth keeps the price.
LEMMA PaidKeepsPrice ==
    ASSUME VInv, NEW burnt \in Nat, NEW paid \in Nat, paid * PricedSupply <= burnt * AssetsPriced,
           NEW s \in Nat, s + VIRTUAL_SHARES = PricedSupply - burnt,
           NEW a \in Nat, a = totalAssets - paid
    PROVE  KeepsPrice(a, s)
  <1>1. AssetsPriced \in Nat /\ PricedSupply \in Nat /\ totalAssets \in Nat
    BY WindowTypes
  <1>2. AssetsPriced * (PricedSupply - burnt) <= (AssetsPriced - paid) * PricedSupply
    BY <1>1, ExitKeepsPrice
  <1>3. AssetsPriced - paid = a + 1
    BY <1>1 DEF AssetsPriced
  <1> QED BY <1>2, <1>3 DEF KeepsPrice

LEMMA DeliveredBound ==
    ASSUME VInv, NEW w \in Int
    PROVE  Delivered(w) \in Nat /\ Delivered(w) <= liquid /\ liquid <= nav
           /\ Delivered(w) <= Pos(w)
  <1>1. liquid \in Nat /\ liquid <= nav /\ nav \in Nat /\ Pos(w) \in Nat
    BY PosType DEF VInv, TypeOK
  <1> QED BY <1>1 DEF Delivered, Min2

LEMMA StepLeave ==
    ASSUME VInv, isOperational, NEW owner \in Holders, NEW assets \in Nat, NEW burnt \in Nat,
           assets * PricedSupply <= burnt * AssetsPriced, Tx, Leave(owner, assets, burnt)
    PROVE  Sound /\ Priced
  <1> DEFINE got == Delivered(assets - idle)
             left == totalAssets - assets
  <1>1. idle \in Nat /\ nav \in Nat /\ liquid \in Nat /\ totalAssets = idle + nav
    BY DEF VInv, TypeOK, totalAssets
  <1>2. got \in Nat /\ got <= liquid /\ liquid <= nav
    BY <1>1, DeliveredBound
  <1>3. /\ idle' \in Nat /\ nav' \in Nat /\ liquid' \in 0 .. nav'
        /\ totalAssets' = left /\ left \in Nat
    <2>1. /\ idle + got >= assets /\ idle' = idle + got - assets
          /\ nav' = nav - got /\ liquid' = liquid - got
      BY DEF Leave
    <2> HIDE DEF got
    <2>2. idle' \in Nat /\ nav' \in Nat /\ liquid' \in 0 .. nav' /\ idle' + nav' = left /\ left \in Nat
      BY <1>1, <1>2, <2>1
    <2> QED BY <2>2 DEF totalAssets
  <1>4. Burn(owner, burnt)
    BY DEF Leave
  <1>5. /\ shares' \in [Holders -> Nat] /\ totalSupply' \in Nat
        /\ totalSupply' + VIRTUAL_SHARES = PricedSupply - burnt
        /\ fee' \in FeeState /\ fee'.hwm >= fee.hwm /\ fee'.lastAccrual = now
    BY <1>4, BurnTypes
  <1>6. PICK s \in Nat : s = totalSupply'
    BY <1>5
  <1>7. KeepsPrice(left, s)
    BY <1>3, <1>5, <1>6, PaidKeepsPrice
  <1>8. History(left, s)
    BY <1>6 DEF Leave
  <1> HIDE DEF left, got
  <1>9. profit' \in Nat /\ emptied' \in BOOLEAN
    BY <1>3, <1>7, <1>8, HistoryType
  <1>10. ~PriceFalls
    BY <1>3, <1>6, <1>7, PriceKept
  <1>11. VInv'
    <2>1. txs' \in 0 .. MaxTxs
      BY TxType DEF Leave
    <2>2. now' \in Nat \ {0} /\ now' = now /\ depositCap' \in Caps
      BY DEF Leave, VInv, TypeOK, adminVars
    <2>3. dependent' \in BOOLEAN /\ healthy' \in BOOLEAN /\ gates' \in [GateNames -> BOOLEAN]
      BY Zenon DEF Leave, VInv, TypeOK, adminVars
    <2>4. TypeOK'
      BY <1>3, <1>5, <1>9, <2>1, <2>2, <2>3, Zenon DEF TypeOK
    <2>5. ~(fee'.lastAccrual = 0)
      BY <1>5, <2>2
    <2> QED BY <2>4, <2>5 DEF VInv
  <1>12. Priced
    <2>1. fee' = Accrued /\ txs' = txs + 1
      BY <1>4 DEF Burn, Tx
    <2> QED BY <1>3, <1>6, <1>7, <1>8, <2>1 DEF Priced
  <1> QED BY <1>5, <1>10, <1>11, <1>12 DEF Sound

\* redeemWithUnwind: the costs of the unwind are paid out of the request, so
\* what leaves the vault, costs included, is worth at most the shares burnt.
LEMMA StepUnwind ==
    ASSUME VInv, NEW owner \in Holders, NEW burnt \in Nat, RedeemWithUnwind(owner, burnt)
    PROVE  Sound /\ Priced
  <1> DEFINE gross == previewRedeem(burnt)
             got == Delivered(gross - idle)
             missing == Pos(gross - idle - got)
  <1>1. idle \in Nat /\ nav \in Nat /\ liquid \in Nat /\ totalAssets = idle + nav
    BY DEF VInv, TypeOK, totalAssets
  <1>2. gross \in Nat /\ gross * PricedSupply <= burnt * AssetsPriced
    BY RedeemBound
  <1>3. got \in Nat /\ got <= liquid /\ liquid <= nav /\ got <= Pos(gross - idle)
    BY <1>1, <1>2, DeliveredBound
  <1>4. missing \in Nat
    BY <1>1, <1>2, <1>3, PosType
  <1>5. PICK delivered \in {0, missing \div 2, missing}, lost \in {0, 1} :
             /\ delivered + lost <= missing
             /\ got + delivered + lost <= nav
             /\ idle' = idle + got + delivered - Min2(gross, idle + got + delivered)
             /\ nav' = nav - got - delivered - lost
             /\ History(totalAssets - lost - Min2(gross, idle + got + delivered), totalSupply')
    BY Zenon DEF RedeemWithUnwind
  <1>6. delivered \in Nat /\ lost \in Nat
    BY <1>4, <1>5
  <1> DEFINE paid == Min2(gross, idle + got + delivered)
             out  == paid + lost
             left == totalAssets - out
  <1>7. liquid' = liquid - got /\ isOperational /\ Burn(owner, burnt)
    BY DEF RedeemWithUnwind
  <1>8. paid \in Nat /\ out \in Nat /\ out <= gross
    <2>1. CASE gross - idle - got > 0
      <3>1. missing = gross - idle - got
        BY <2>1 DEF Pos
      <3> HIDE DEF gross, got, missing
      <3> QED BY <1>1, <1>2, <1>3, <1>5, <1>6, <3>1 DEF Min2
    <2>2. CASE ~(gross - idle - got > 0)
      <3>1. missing = 0
        BY <2>2 DEF Pos
      <3> HIDE DEF gross, got, missing
      <3> QED BY <1>1, <1>2, <1>3, <1>5, <1>6, <3>1 DEF Min2
    <2> QED BY <2>1, <2>2
  <1>9. /\ idle' \in Nat /\ nav' \in Nat /\ totalAssets' = left /\ left \in Nat
        /\ left = totalAssets - lost - paid
    <2> HIDE DEF gross, got, missing
    <2>1. idle' \in Nat /\ nav' \in Nat
      BY <1>1, <1>2, <1>3, <1>5, <1>6, <1>8 DEF Min2
    <2>2. idle' + nav' = left /\ left = totalAssets - lost - paid
      BY <1>1, <1>2, <1>3, <1>5, <1>6, <1>8
    <2>3. totalAssets' = idle' + nav'
      BY DEF totalAssets
    <2>4. left = idle' + nav' /\ left \in Nat
      BY <2>1, <2>2
    <2> QED BY <2>1, <2>2, <2>3, <2>4
  <1>10. liquid' \in 0 .. nav'
    <2>1. CASE missing = 0
      <3> HIDE DEF gross, got, missing
      <3> QED BY <1>1, <1>3, <1>5, <1>6, <1>7, <2>1
    <2>2. CASE missing # 0
      <3>1. gross - idle - got > 0
        BY <2>2 DEF Pos
      <3>2. got = liquid
        <4>1. got = Min2(Pos(gross - idle), liquid)
          BY DEF Delivered
        <4> HIDE DEF gross, got, missing
        <4> QED BY <1>1, <1>2, <1>3, <3>1, <4>1 DEF Min2, Pos
      <3> HIDE DEF gross, got, missing
      <3> QED BY <1>1, <1>5, <1>6, <1>7, <1>9, <3>2
    <2> QED BY <2>1, <2>2
  <1>11. /\ shares' \in [Holders -> Nat] /\ totalSupply' \in Nat
         /\ totalSupply' + VIRTUAL_SHARES = PricedSupply - burnt
         /\ fee' \in FeeState /\ fee'.hwm >= fee.hwm /\ fee'.lastAccrual = now
    BY <1>7, BurnTypes
  <1>12. PICK s \in Nat : s = totalSupply'
    BY <1>11
  <1>13. out * PricedSupply <= burnt * AssetsPriced
    <2>1. PricedSupply \in Nat /\ AssetsPriced \in Nat
      BY WindowTypes
    <2> HIDE DEF gross, out
    <2>2. out * PricedSupply <= gross * PricedSupply
      BY <1>2, <1>8, <2>1, MulMono
    <2>3. out * PricedSupply \in Nat /\ gross * PricedSupply \in Nat /\ burnt * AssetsPriced \in Nat
      BY <1>2, <1>8, <2>1, MulNat
    <2> QED BY <1>2, <2>2, <2>3
  <1>14. KeepsPrice(left, s)
    BY <1>8, <1>9, <1>11, <1>12, <1>13, PaidKeepsPrice
  <1>15. History(left, s)
    BY <1>5, <1>9, <1>12
  <1> HIDE DEF left, out, paid, gross, got, missing
  <1>16. profit' \in Nat /\ emptied' \in BOOLEAN
    BY <1>9, <1>14, <1>15, HistoryType
  <1>17. ~PriceFalls
    BY <1>9, <1>12, <1>14, PriceKept
  <1>18. VInv'
    <2>1. txs' \in 0 .. MaxTxs
      BY TxType DEF RedeemWithUnwind
    <2>2. now' \in Nat \ {0} /\ now' = now /\ depositCap' \in Caps
      BY DEF RedeemWithUnwind, VInv, TypeOK, adminVars
    <2>3. dependent' \in BOOLEAN /\ healthy' \in BOOLEAN /\ gates' \in [GateNames -> BOOLEAN]
      BY Zenon DEF RedeemWithUnwind, VInv, TypeOK, adminVars
    <2>4. TypeOK'
      BY <1>9, <1>10, <1>11, <1>16, <2>1, <2>2, <2>3, Zenon DEF TypeOK
    <2>5. ~(fee'.lastAccrual = 0)
      BY <1>11, <2>2
    <2> QED BY <2>4, <2>5 DEF VInv
  <1>19. Priced
    <2>1. fee' = Accrued /\ txs' = txs + 1
      BY <1>7 DEF RedeemWithUnwind, Burn, Tx
    <2> QED BY <1>7, <1>9, <1>12, <1>14, <1>15, <2>1 DEF Priced
  <1> QED BY <1>11, <1>17, <1>18, <1>19 DEF Sound

-----------------------------------------------------------------------------
(***************************************************************************)
(* The calls of users.                                                     *)
(***************************************************************************)

LEMMA StepDeposit ==
    ASSUME VInv, NEW receiver \in Holders, NEW assets \in Nat, Deposit(receiver, assets)
    PROVE  Sound /\ Priced
  <1>1. SharesDown(assets) \in Nat /\ SharesDown(assets) * AssetsPriced <= assets * PricedSupply
    BY Conversions
  <1>2. Tx /\ Enter(receiver, assets, SharesDown(assets)) /\ assets <= maxDeposit
    BY DEF Deposit
  <1>3. SharesDown(assets) > 0
    BY <1>2 DEF Enter
  <1>4. isOperational
    <2>1. SUFFICES ASSUME ~isOperational PROVE FALSE
      OBVIOUS
    <2>2. assets = 0
      BY <1>2, <2>1 DEF maxDeposit
    <2>3. AssetsPriced \in Nat \ {0} /\ PricedSupply \in Nat
      BY WindowTypes
    <2>4. SharesDown(assets) * AssetsPriced <= 0
      BY <1>1, <2>2, <2>3
    <2>5. SharesDown(assets) * AssetsPriced > 0
      BY <1>1, <1>3, <2>3
    <2>6. SharesDown(assets) * AssetsPriced \in Int
      BY <1>1, <2>3
    <2> QED BY <2>4, <2>5, <2>6
  <1> QED BY <1>1, <1>2, <1>4, StepEnter

LEMMA StepMint ==
    ASSUME VInv, NEW receiver \in Holders, NEW minted \in Nat, Mint(receiver, minted)
    PROVE  Sound /\ Priced
  <1>1. AssetsUp(minted) \in Nat /\ minted * AssetsPriced <= AssetsUp(minted) * PricedSupply
    BY Conversions
  <1>2. Tx /\ Enter(receiver, AssetsUp(minted), minted) /\ minted <= maxMint /\ minted > 0
    BY DEF Mint, Enter
  <1>3. isOperational
    BY <1>2 DEF maxMint, maxDeposit
  <1> QED BY <1>1, <1>2, <1>3, StepEnter

LEMMA StepWithdraw ==
    ASSUME VInv, NEW owner \in Holders, NEW assets \in Nat, Withdraw(owner, assets)
    PROVE  Sound /\ Priced
  <1>1. previewWithdraw(assets) \in Nat
        /\ assets * PricedSupply <= previewWithdraw(assets) * AssetsPriced
    BY WithdrawBound
  <1>2. isOperational
    BY DEF Withdraw, maxWithdraw
  <1>3. Tx /\ Leave(owner, assets, previewWithdraw(assets))
    BY DEF Withdraw
  <1> QED BY <1>1, <1>2, <1>3, StepLeave

LEMMA StepRedeem ==
    ASSUME VInv, NEW owner \in Holders, NEW burnt \in Nat, Redeem(owner, burnt)
    PROVE  Sound /\ Priced
  <1>1. previewRedeem(burnt) \in Nat /\ previewRedeem(burnt) * PricedSupply <= burnt * AssetsPriced
    BY RedeemBound
  <1>2. isOperational
    BY DEF Redeem, maxRedeem
  <1>3. Tx /\ Leave(owner, previewRedeem(burnt), burnt)
    BY DEF Redeem
  <1> QED BY <1>1, <1>2, <1>3, StepLeave

\* Steps that leave assets and shares as they are, or mint only pending fees.
LEMMA SameAssetsKeepPrice ==
    ASSUME VInv, totalAssets' = totalAssets, NEW s \in Nat, totalSupply' = s,
           s + VIRTUAL_SHARES <= PricedSupply
    PROVE  ~PriceFalls
  <1>1. AssetsPriced \in Nat /\ PricedSupply \in Nat /\ totalAssets \in Nat /\ s + VIRTUAL_SHARES \in Nat
    BY WindowTypes, VaultAssumption
  <1>2. AssetsPriced * (s + VIRTUAL_SHARES) <= AssetsPriced * PricedSupply
    BY <1>1, MulMono
  <1>3. KeepsPrice(totalAssets, s)
    BY <1>1, <1>2 DEF KeepsPrice, AssetsPriced
  <1> QED BY <1>1, <1>3, PriceKept

LEMMA StepAccrueFees == ASSUME VInv, AccrueFees PROVE Sound
  <1>1. /\ pendingFeeShares \in Nat /\ SharesAfterFees \in [Holders -> Nat] /\ totalSupply \in Nat
    BY WindowTypes DEF VInv, TypeOK
  <1>2. totalSupply + pendingFeeShares \in Nat /\ totalSupply' = totalSupply + pendingFeeShares
    BY <1>1 DEF AccrueFees
  <1>3. totalSupply' + VIRTUAL_SHARES <= PricedSupply
    BY <1>1, <1>2, VaultAssumption DEF PricedSupply
  <1>4. fee' \in FeeState /\ fee'.hwm >= fee.hwm /\ fee'.lastAccrual = now
    BY AccruedType DEF AccrueFees
  <1>5. totalAssets' = totalAssets
    BY DEF AccrueFees, totalAssets, strategyVars
  <1>6. ~PriceFalls
    BY <1>2, <1>3, <1>5, SameAssetsKeepPrice
  <1>7. VInv'
    <2>1. txs' \in 0 .. MaxTxs
      BY TxType DEF AccrueFees
    <2>2. /\ now' \in Nat \ {0} /\ now' = now /\ depositCap' \in Caps
          /\ idle' \in Nat /\ nav' \in Nat /\ liquid' \in 0 .. nav' /\ profit' \in Nat
      BY DEF AccrueFees, VInv, TypeOK, adminVars, strategyVars
    <2>3. /\ dependent' \in BOOLEAN /\ healthy' \in BOOLEAN /\ gates' \in [GateNames -> BOOLEAN]
          /\ emptied' \in BOOLEAN
      BY Zenon DEF AccrueFees, VInv, TypeOK, adminVars, strategyVars
    <2>4. shares' \in [Holders -> Nat]
      BY <1>1 DEF AccrueFees
    <2>5. TypeOK'
      BY <1>2, <1>4, <2>1, <2>2, <2>3, <2>4, Zenon DEF TypeOK
    <2>6. ~(fee'.lastAccrual = 0)
      BY <1>4, <2>2
    <2> QED BY <2>5, <2>6 DEF VInv
  <1> QED BY <1>4, <1>6, <1>7 DEF Sound

LEMMA StepPush == ASSUME VInv, NEW amount \in Nat, PushToStrategy(amount) PROVE Sound
  <1>1. /\ idle \in Nat /\ nav \in Nat /\ liquid \in Nat /\ liquid <= nav
        /\ totalSupply \in Nat /\ fee \in FeeState
    BY DEF VInv, TypeOK
  <1>2. /\ idle' = idle - amount /\ amount <= idle /\ nav' = nav + amount
        /\ liquid' = liquid + amount /\ totalSupply' = totalSupply /\ fee' = fee
    BY DEF PushToStrategy
  <1>3. totalAssets' = totalAssets
    BY <1>1, <1>2 DEF totalAssets
  <1>4. ~PriceFalls
    BY <1>1, <1>2, <1>3, WindowTypes, SameAssetsKeepPrice
  <1>5. VInv'
    <2>1. txs' \in 0 .. MaxTxs
      BY TxType DEF PushToStrategy
    <2>2. idle' \in Nat /\ nav' \in Nat /\ liquid' \in 0 .. nav'
      BY <1>1, <1>2
    <2>3. TypeOK'
      BY <1>2, <2>1, <2>2, Zenon DEF PushToStrategy, VInv, TypeOK, adminVars
    <2> QED BY <1>2, <2>3 DEF VInv
  <1>6. fee.hwm \in Nat
    BY <1>1, FeeFields
  <1> QED BY <1>2, <1>4, <1>5, <1>6 DEF Sound

LEMMA StepTransfer ==
    ASSUME VInv, NEW from \in Holders, NEW to \in Holders, NEW amount \in Nat,
           Transfer(from, to, amount)
    PROVE  Sound
  <1>1. shares \in [Holders -> Nat] /\ totalSupply \in Nat /\ fee \in FeeState
    BY DEF VInv, TypeOK
  <1>2. totalSupply' = totalSupply /\ fee' = fee /\ totalAssets' = totalAssets
    BY DEF Transfer, totalAssets, strategyVars
  <1>3. shares' \in [Holders -> Nat]
    BY <1>1 DEF Transfer
  <1>4. ~PriceFalls
    BY <1>1, <1>2, WindowTypes, SameAssetsKeepPrice
  <1>5. VInv'
    <2>1. txs' \in 0 .. MaxTxs
      BY TxType DEF Transfer
    <2>2. TypeOK'
      BY <1>2, <1>3, <2>1, Zenon DEF Transfer, VInv, TypeOK, adminVars, strategyVars
    <2> QED BY <1>2, <2>2 DEF VInv
  <1>6. fee.hwm \in Nat
    BY <1>1, FeeFields
  <1> QED BY <1>2, <1>4, <1>5, <1>6 DEF Sound

\* The limits are numbers, so asking for exactly the limit is one of the calls.
LEMMA LimitTypes ==
    ASSUME VInv, NEW b \in Nat
    PROVE  maxWithdraw(b) \in Nat /\ maxRedeem(b) \in Nat
  <1>1. availableLiquidity \in Nat /\ fee \in FeeState
    BY DEF availableLiquidity, VInv, TypeOK
  <1>2. previewRedeem(b) \in Nat
    BY RedeemBound
  <1>3. maxWithdraw(b) \in Nat
    BY <1>1, <1>2 DEF maxWithdraw, Min2
  <1> DEFINE gross == (availableLiquidity * BPS) \div (BPS - fee.withdrawal)
  <1>4. gross \in Nat
    <2>1. BPS - fee.withdrawal \in Nat \ {0} /\ BPS \in Nat
      BY <1>1, FeeFields, UnitsAssumption
    <2>2. availableLiquidity * BPS \in Nat
      BY <1>1, <2>1, MulNat
    <2> QED BY <2>1, <2>2, DivBounds
  <1> HIDE DEF gross
  <1>5. SharesDown(gross) \in Nat
    BY <1>4, Conversions
  <1>6. maxRedeem(b) \in Nat
    BY <1>5 DEF maxRedeem, Min2, gross
  <1> QED BY <1>3, <1>6

LEMMA StepUserCall == ASSUME VInv, UserCall PROVE Sound
  <1>1. Amounts \subseteq Nat /\ idle \in Nat /\ shares \in [Holders -> Nat]
    BY VaultAssumption DEF VInv, TypeOK
  <1>2. ASSUME NEW h \in Holders, NEW x \in Amounts,
               Deposit(h, x) \/ Mint(h, x) \/ Withdraw(h, x) \/ Redeem(h, x)
        PROVE  Sound
    BY <1>1, <1>2, StepDeposit, StepMint, StepWithdraw, StepRedeem
  <1>3. ASSUME NEW h \in Holders,
               Withdraw(h, maxWithdraw(shares[h])) \/ Redeem(h, maxRedeem(shares[h]))
        PROVE  Sound
    <2>1. shares[h] \in Nat
      BY <1>1
    <2>2. maxWithdraw(shares[h]) \in Nat /\ maxRedeem(shares[h]) \in Nat
      BY <2>1, LimitTypes
    <2>3. CASE Withdraw(h, maxWithdraw(shares[h]))
      BY <2>2, <2>3, StepWithdraw
    <2>4. CASE Redeem(h, maxRedeem(shares[h]))
      BY <2>2, <2>4, StepRedeem
    <2> QED BY <1>3, <2>3, <2>4
  <1>4. ASSUME NEW h \in Holders, NEW x \in Amounts \cup {shares[h]}, RedeemWithUnwind(h, x)
        PROVE  Sound
    <2>1. x \in Nat
      BY <1>1
    <2> QED BY <1>4, <2>1, StepUnwind
  <1>5. ASSUME NEW h \in Holders, NEW k \in Holders, Transfer(h, k, shares[h]) PROVE Sound
    <2>1. shares[h] \in Nat
      BY <1>1
    <2> QED BY <1>5, <2>1, StepTransfer
  <1>6. ASSUME NEW x \in Amounts \cup {idle}, PushToStrategy(x) PROVE Sound
    <2>1. x \in Nat
      BY <1>1
    <2> QED BY <1>6, <2>1, StepPush
  <1> QED BY <1>2, <1>3, <1>4, <1>5, <1>6, StepAccrueFees DEF UserCall

-----------------------------------------------------------------------------
(***************************************************************************)
(* Administration and the environment keep the invariant and the mark.     *)
(***************************************************************************)

LEMMA StepSetFees == ASSUME VInv, NEW rates \in FeeChoices, SetFees(rates)
                     PROVE  VInv' /\ fee'.hwm >= fee.hwm
  <1>1. fee \in FeeState /\ fee.hwm \in Nat
    BY FeeFields DEF VInv, TypeOK
  <1>2. /\ rates[1] \in 0 .. MAX_MANAGEMENT_FEE_BPS /\ rates[2] \in 0 .. MAX_PERFORMANCE_FEE_BPS
        /\ rates[3] \in 0 .. MAX_WITHDRAWAL_FEE_BPS
    BY VaultAssumption
  <1>3. fee' \in FeeState /\ fee'.hwm = fee.hwm /\ fee'.lastAccrual = fee.lastAccrual
    BY <1>1, <1>2 DEF SetFees, setFees, FeeState
  <1>4. txs' \in 0 .. MaxTxs
    BY TxType DEF SetFees
  <1>5. TypeOK'
    BY <1>3, <1>4, Zenon DEF SetFees, VInv, TypeOK, adminVars, strategyVars
  <1>6. totalSupply' = totalSupply
    BY DEF SetFees
  <1> QED BY <1>1, <1>3, <1>5, <1>6 DEF VInv

LEMMA StepSetFeeRecipient == ASSUME VInv, NEW r \in Recipients, SetFeeRecipient(r)
                             PROVE  VInv' /\ fee'.hwm >= fee.hwm
  <1>1. fee \in FeeState /\ fee.hwm \in Nat
    BY FeeFields DEF VInv, TypeOK
  <1>2. fee' \in FeeState /\ fee'.hwm = fee.hwm /\ fee'.lastAccrual = fee.lastAccrual
    BY <1>1 DEF SetFeeRecipient, FeeState
  <1>3. txs' \in 0 .. MaxTxs
    BY TxType DEF SetFeeRecipient
  <1>4. TypeOK'
    BY <1>2, <1>3, Zenon DEF SetFeeRecipient, VInv, TypeOK, adminVars, strategyVars
  <1>5. totalSupply' = totalSupply
    BY DEF SetFeeRecipient
  <1> QED BY <1>1, <1>2, <1>4, <1>5 DEF VInv

\* Steps outside the fee state and the shares.
LEMMA SameFees == ASSUME VInv, TypeOK', fee' = fee, totalSupply' = totalSupply
                  PROVE  VInv' /\ fee'.hwm >= fee.hwm
  <1>1. fee.hwm \in Nat
    BY FeeFields DEF VInv, TypeOK
  <1> QED BY <1>1 DEF VInv

LEMMA StepSetDepositCap == ASSUME VInv, NEW cap \in Caps, SetDepositCap(cap)
                           PROVE  VInv' /\ fee'.hwm >= fee.hwm
  <1>1. txs' \in 0 .. MaxTxs
    BY TxType DEF SetDepositCap
  <1>2. TypeOK'
    BY <1>1, Zenon DEF SetDepositCap, VInv, TypeOK, strategyVars
  <1> QED BY <1>2, SameFees DEF SetDepositCap

LEMMA StepSetGates == ASSUME VInv, NEW g \in [GateNames -> BOOLEAN], SetGates(g)
                      PROVE  VInv' /\ fee'.hwm >= fee.hwm
  <1>1. txs' \in 0 .. MaxTxs
    BY TxType DEF SetGates
  <1>2. TypeOK'
    BY <1>1, Zenon DEF SetGates, VInv, TypeOK, strategyVars
  <1> QED BY <1>2, SameFees DEF SetGates

LEMMA StepStrategyMove ==
    ASSUME VInv, NEW move \in NavMoves, NEW positions \in BOOLEAN,
           NEW available \in {0, nav + move}, StrategyMove(move, available, positions)
    PROVE  VInv' /\ fee'.hwm >= fee.hwm
  <1>1. txs' \in 0 .. MaxTxs
    BY TxType DEF StrategyMove
  <1>2. move \in Int /\ nav \in Nat /\ profit \in Nat
    BY VaultAssumption DEF VInv, TypeOK
  <1>3. nav' \in Nat /\ liquid' \in 0 .. nav'
    BY <1>2 DEF StrategyMove
  <1>4. profit' \in Nat
    BY <1>2, PosType DEF StrategyMove
  <1>5. TypeOK'
    BY <1>1, <1>3, <1>4, Zenon DEF StrategyMove, VInv, TypeOK, adminVars
  <1> QED BY <1>5, SameFees DEF StrategyMove

LEMMA StepReturnToVault == ASSUME VInv, ReturnToVault(nav) PROVE VInv' /\ fee'.hwm >= fee.hwm
  <1>1. txs' \in 0 .. MaxTxs
    BY TxType DEF ReturnToVault
  <1>2. idle' \in Nat /\ nav' \in Nat /\ liquid' \in 0 .. nav'
    BY DEF ReturnToVault, VInv, TypeOK, Min2
  <1>3. TypeOK'
    BY <1>1, <1>2, Zenon DEF ReturnToVault, VInv, TypeOK, adminVars
  <1> QED BY <1>3, SameFees DEF ReturnToVault

LEMMA StepOracleFlips == ASSUME VInv, OracleFlips PROVE VInv' /\ fee'.hwm >= fee.hwm
  <1>1. txs' \in 0 .. MaxTxs
    BY TxType DEF OracleFlips
  <1>2. healthy' \in BOOLEAN
    BY Zenon DEF OracleFlips
  <1>3. TypeOK'
    BY <1>1, <1>2, Zenon DEF OracleFlips, VInv, TypeOK, adminVars
  <1> QED BY <1>3, SameFees DEF OracleFlips

LEMMA StepTick == ASSUME VInv, NEW dt \in Ticks, Tick(dt) PROVE VInv' /\ fee'.hwm >= fee.hwm
  <1>1. txs' \in 0 .. MaxTxs
    BY TxType DEF Tick
  <1>2. now' \in Nat \ {0}
    BY VaultAssumption DEF Tick, VInv, TypeOK
  <1>3. TypeOK'
    BY <1>1, <1>2, Zenon DEF Tick, VInv, TypeOK, adminVars, strategyVars
  <1> QED BY <1>3, SameFees DEF Tick

LEMMA VInvInit == Init => VInv
  <1> SUFFICES ASSUME Init PROVE VInv
    OBVIOUS
  <1>1. /\ InitialFees[1] \in 0 .. MAX_MANAGEMENT_FEE_BPS /\ InitialFees[2] \in 0 .. MAX_PERFORMANCE_FEE_BPS
        /\ InitialFees[3] \in 0 .. MAX_WITHDRAWAL_FEE_BPS
    BY VaultAssumption
  <1>2. WAD \div VIRTUAL_SHARES \in Nat
    BY VaultAssumption, UnitsAssumption, DivBounds
  <1>3. fee \in FeeState
    BY <1>1, <1>2 DEF Init, FeeState
  <1>4. /\ idle \in Nat /\ nav \in Nat /\ liquid \in 0 .. nav /\ shares \in [Holders -> Nat]
        /\ totalSupply \in Nat /\ depositCap \in Caps /\ now \in Nat \ {0}
        /\ txs \in 0 .. MaxTxs /\ profit \in Nat /\ totalSupply = 0
    BY VaultAssumption DEF Init
  <1>5. /\ dependent \in BOOLEAN /\ healthy \in BOOLEAN /\ gates \in [GateNames -> BOOLEAN]
        /\ emptied \in BOOLEAN
    BY DEF Init
  <1> QED BY <1>3, <1>4, <1>5 DEF VInv, TypeOK

LEMMA NextKeeps == ASSUME VInv, Next PROVE VInv' /\ fee'.hwm >= fee.hwm
  <1>1. CASE UserCall
    BY <1>1, StepUserCall DEF Sound
  <1>2. CASE AdminCall
    BY <1>2, StepSetFees, StepSetFeeRecipient, StepSetDepositCap DEF AdminCall
  <1>3. CASE Environment
    <2>1. ASSUME NEW g \in [GateNames -> BOOLEAN], SetGates(g) PROVE VInv' /\ fee'.hwm >= fee.hwm
      BY <2>1, StepSetGates
    <2>2. ASSUME NEW move \in NavMoves, NEW positions \in BOOLEAN,
                 NEW available \in {0, nav + move}, StrategyMove(move, available, positions)
          PROVE  VInv' /\ fee'.hwm >= fee.hwm
      BY <2>2, StepStrategyMove
    <2>3. ASSUME NEW dt \in Ticks, Tick(dt) PROVE VInv' /\ fee'.hwm >= fee.hwm
      BY <2>3, StepTick
    <2> QED BY <1>3, <2>1, <2>2, <2>3, StepReturnToVault, StepOracleFlips DEF Environment
  <1> QED BY <1>1, <1>2, <1>3 DEF Next

LEMMA VInvStep == VInv /\ [Next]_vars => VInv'
  <1>1. CASE Next
    BY <1>1, NextKeeps
  <1>2. ASSUME VInv, UNCHANGED vars PROVE VInv'
    BY <1>2, Zenon DEF vars, VInv, TypeOK, strategyVars, adminVars
  <1> QED BY <1>1, <1>2

-----------------------------------------------------------------------------
(***************************************************************************)
(* Theorems.                                                               *)
(***************************************************************************)

\* Balances, the strategy's parts, the fee state and the histories keep their
\* ranges: no call of the vault makes an unsigned number negative.
THEOREM TypeCorrect == Spec => []TypeOK
  <1>1. VInv => TypeOK
    BY DEF VInv
  <1> QED BY VInvInit, VInvStep, <1>1, PTL DEF Spec

\* No user call lowers the price of a share beyond the fees already pending,
\* for every fee rate, amount, unwind cost and rounding.
THEOREM PriceNeverFallsHolds == Spec => PriceNeverFalls
  <1>1. VInv /\ [Next]_vars => [PriceFalls => ~UserCall]_vars
    <2>1. ASSUME VInv, UserCall PROVE ~PriceFalls
      BY <2>1, StepUserCall DEF Sound
    <2> QED BY <2>1
  <1> QED BY VInvInit, VInvStep, <1>1, PTL DEF Spec, PriceNeverFalls

\* Nothing lowers the high-water mark: after a loss it stays put, and minting
\* the fee shares never pushes it below where it was.
THEOREM HighWaterMarkHolds == Spec => HighWaterMarkNeverFalls
  <1>1. VInv /\ [Next]_vars => [fee'.hwm >= fee.hwm]_vars
    BY NextKeeps
  <1> QED BY VInvInit, VInvStep, <1>1, PTL DEF Spec, HighWaterMarkNeverFalls

\* Right after an accrual nothing is pending: a second one charges nothing.
THEOREM FeesCrystalliseOnceHolds == Spec => FeesCrystalliseOnce
  <1>1. ASSUME VInv, AccrueFees PROVE ~(pendingFeeShares' > 0)
    <2>1. /\ fee \in FeeState /\ now \in Nat \ {0} /\ totalSupply \in Nat /\ pendingFeeShares \in Nat
          /\ totalAssets + 1 \in Nat \ {0} /\ VIRTUAL_SHARES \in Nat \ {0}
      BY <1>1, WindowTypes, VaultAssumption DEF VInv, TypeOK
    <2>2. /\ totalAssets' = totalAssets /\ now' = now /\ fee' = Accrued /\ isOperational
          /\ totalSupply' = totalSupply + pendingFeeShares
      BY <1>1 DEF AccrueFees, totalAssets, strategyVars
    <2>3. CASE totalSupply = 0
      <3>1. pendingFeeShares = 0
        BY <2>3 DEF pendingFeeShares
      <3>2. totalSupply' = 0
        BY <2>2, <2>3, <3>1
      <3>3. pendingFeeShares' = 0
        BY <3>2 DEF pendingFeeShares
      <3> QED BY <3>3
    <2>4. CASE totalSupply # 0
      <3> DEFINE a == totalAssets + 1
                 s == totalSupply + VIRTUAL_SHARES
      <3>1. fee.lastAccrual > 0
        <4>1. fee.lastAccrual \in Nat
          BY <2>1, FeeFields
        <4> QED BY <1>1, <2>4, <4>1 DEF VInv
      <3>2. a \in Nat \ {0} /\ s \in Nat \ {0}
        BY <2>1
      <3>3. Accrued = accrue(fee, a, s, now)
        BY <2>2, <2>4 DEF Accrued
      <3>4. pendingFeeShares = feeShares(fee, a, s, now)
        BY <2>4 DEF pendingFeeShares
      <3>5. totalSupply' # 0 /\ totalSupply' + VIRTUAL_SHARES = s + pendingFeeShares
        BY <2>1, <2>2, <2>4
      <3>6. pendingFeeShares' = feeShares(fee', totalAssets' + 1, totalSupply' + VIRTUAL_SHARES, now')
        BY <3>5 DEF pendingFeeShares
      <3>7. totalAssets' + 1 = a
        BY <2>2
      <3> HIDE DEF a, s
      <3>8. feeShares(accrue(fee, a, s, now), a, s + feeShares(fee, a, s, now), now) = 0
        BY <2>1, <3>1, <3>2, AccruedOnce
      <3>9. pendingFeeShares' = 0
        BY <2>2, <3>3, <3>4, <3>5, <3>6, <3>7, <3>8
      <3> QED BY <3>9
    <2> QED BY <2>3, <2>4
  <1>2. VInv /\ [Next]_vars => [pendingFeeShares' > 0 => ~AccrueFees]_vars
    BY <1>1
  <1> QED BY VInvInit, VInvStep, <1>2, PTL DEF Spec, FeesCrystalliseOnce

\* The raw fee on a net amount fits in what the total fee left of the gross.
LEMMA FeesAgree ==
    ASSUME NEW f \in FeeState, NEW gross \in Nat, NEW x \in Nat,
           x <= gross - feeOnTotal(f, gross)
    PROVE  x + feeOnRaw(f, x) <= gross /\ feeOnRaw(f, x) \in Nat
  <1> DEFINE w == f.withdrawal
             total == feeOnTotal(f, gross)
  <1>1. w \in Nat /\ BPS \in Nat \ {0} /\ w + BPS \in Nat \ {0}
    BY FeeFields, UnitsAssumption
  <1>2. total \in Nat /\ total <= gross
    BY FeeOnTotalBound
  <1>3. gross * w <= total * (w + BPS)
    BY <1>1, MulNat, CeilBounds DEF feeOnTotal
  <1> HIDE DEF w, total
  <1>4. x * (w + BPS) <= (gross - total) * (w + BPS)
    BY <1>1, <1>2, MulMono DEF total
  <1>5. (gross - total) * (w + BPS) = gross * w + gross * BPS - total * (w + BPS)
    BY <1>1, <1>2
  <1>6. x * (w + BPS) = x * w + x * BPS /\ (gross - x) * BPS = gross * BPS - x * BPS
    BY <1>1
  <1>7. x * w <= (gross - x) * BPS
    <2>1. /\ x * w \in Int /\ x * BPS \in Int /\ gross * BPS \in Int /\ gross * w \in Int
          /\ total * (w + BPS) \in Int
      BY <1>1, <1>2
    <2> QED BY <2>1, <1>3, <1>4, <1>5, <1>6
  <1>8. gross - x \in Nat /\ x * w \in Nat
    BY <1>1, <1>2, MulNat DEF total
  <1>9. CeilDiv(x * w, BPS) \in Nat /\ CeilDiv(x * w, BPS) <= gross - x
    BY <1>1, <1>7, <1>8, CeilBounds, CeilAtMost
  <1>10. feeOnRaw(f, x) = CeilDiv(x * w, BPS)
    BY DEF feeOnRaw, w
  <1> QED BY <1>8, <1>9, <1>10

\* maxWithdraw is always payable: its shares are owned and its cash is there.
THEOREM MaxWithdrawIsPayableHolds == Spec => []MaxWithdrawIsPayable
  <1>1. ASSUME VInv PROVE MaxWithdrawIsPayable
    <2> SUFFICES ASSUME NEW h \in Holders
                 PROVE  /\ previewWithdraw(maxWithdraw(shares[h])) <= shares[h]
                        /\ maxWithdraw(shares[h]) <= availableLiquidity
      BY DEF MaxWithdrawIsPayable
    <2> DEFINE b == shares[h]
               x == maxWithdraw(b)
               gross == AssetsDown(b)
    <2>1. b \in Nat /\ fee \in FeeState /\ availableLiquidity \in Nat
      BY <1>1 DEF VInv, TypeOK, availableLiquidity
    <2>2. gross \in Nat /\ gross * PricedSupply <= b * AssetsPriced
      BY <1>1, <2>1, Conversions
    <2>3. previewRedeem(b) = gross - feeOnTotal(fee, gross) /\ previewRedeem(b) \in Nat
      BY <1>1, <2>1, RedeemBound DEF previewRedeem
    <2> HIDE DEF b, gross
    <2>4. x \in Nat /\ x <= previewRedeem(b) /\ x <= availableLiquidity
      BY <2>1, <2>3 DEF maxWithdraw, Min2
    <2> HIDE DEF x
    <2>5. x + feeOnRaw(fee, x) <= gross /\ feeOnRaw(fee, x) \in Nat
      BY <2>1, <2>2, <2>3, <2>4, FeesAgree
    <2>6. PICK raw \in Nat : raw = x + feeOnRaw(fee, x)
      BY <2>4, <2>5
    <2>7. PricedSupply \in Nat /\ AssetsPriced \in Nat \ {0}
      BY <1>1, WindowTypes
    <2>8. raw * PricedSupply <= b * AssetsPriced
      <3>1. raw * PricedSupply <= gross * PricedSupply
        BY <2>2, <2>5, <2>6, <2>7, MulMono
      <3>2. raw * PricedSupply \in Nat /\ gross * PricedSupply \in Nat /\ b * AssetsPriced \in Nat
        BY <2>1, <2>2, <2>7, MulNat
      <3> QED BY <2>2, <3>1, <3>2
    <2>9. CeilDiv(raw * PricedSupply, AssetsPriced) <= b
      BY <2>1, <2>7, <2>8, MulNat, CeilAtMost
    <2>10. previewWithdraw(x) = CeilDiv(raw * PricedSupply, AssetsPriced)
      BY <2>6 DEF previewWithdraw, SharesUp, AssetsPriced
    <2> QED BY <2>4, <2>9, <2>10 DEF x, b
  <1>2. VInv => MaxWithdrawIsPayable
    BY <1>1
  <1> QED BY VInvInit, VInvStep, <1>2, PTL DEF Spec

-----------------------------------------------------------------------------
(***************************************************************************)
(* Performance fees and profits.  A price is rounded down to the mark, so  *)
(* an accrual may leave less than a WAD-th of an asset per share unit of a *)
(* gain that it has charged above the mark, to be charged again: nothing   *)
(* of a supply of at most a WAD, less than k units of money of k WADs.     *)
(***************************************************************************)

SupplyWithin(k) == PricedSupply <= k * WAD

\* What fees may have been charged on besides the profits.
Slack(k) == (k - 1) * (txs + 1)

\* The assets are worth n units of money more than the shares at the mark.
Above(n) == n = 0 \/ n * WAD + fee.hwm * (totalSupply + VIRTUAL_SHARES) <= AssetsPriced * WAD

\* The fees taken, and those on all that is above the mark, are covered.
Covered(k) ==
    \A n \in Nat : Above(n) => fee.performanceAssets * BPS + MAX_PERFORMANCE_FEE_BPS * n
                               <= MAX_PERFORMANCE_FEE_BPS * (profit + Slack(k))

CoverInv(k) ==
    /\ VInv
    /\ WAD \div VIRTUAL_SHARES <= fee.hwm
    /\ ~emptied => Covered(k) /\ (totalSupply = 0 => totalAssets = 0)

\* A fee is due on a gain above the mark.
LEMMA DueFromGain ==
    ASSUME NEW f \in FeeState, NEW a \in Nat \ {0}, NEW s1 \in Nat \ {0}
    PROVE  \E n \in Nat : /\ performanceDue(f, a, s1) * BPS <= MAX_PERFORMANCE_FEE_BPS * n
                          /\ n = 0 \/ n * WAD + f.hwm * s1 <= a * WAD
  <1> DEFINE sp   == sharePriceOf(a, s1)
             over == Pos(sp - f.hwm)
             gain == (over * s1) \div WAD
             due  == (gain * f.performance) \div BPS
  <1>1. /\ WAD \in Nat \ {0} /\ BPS \in Nat \ {0} /\ f.hwm \in Nat /\ f.performance \in Nat
        /\ f.performance <= MAX_PERFORMANCE_FEE_BPS /\ MAX_PERFORMANCE_FEE_BPS \in Nat
    BY UnitsAssumption, FeeAssumption DEF FeeState
  <1>2. sp \in Nat /\ sp * s1 <= a * WAD
    <2>1. a * WAD \in Nat
      BY <1>1, MulNat
    <2> QED BY <2>1, DivBounds DEF sharePriceOf
  <1>3. performanceDue(f, a, s1) = due \/ performanceDue(f, a, s1) = 0
    BY DEF performanceDue
  <1> HIDE DEF sp
  <1>4. over \in Nat /\ (over = 0 \/ over = sp - f.hwm)
    BY <1>1, <1>2 DEF Pos
  <1> HIDE DEF over
  <1>5. over * s1 \in Nat
    BY <1>4, MulNat
  <1>6. gain \in Nat /\ gain * WAD <= over * s1
    BY <1>1, <1>5, DivBounds
  <1>7. gain = 0 \/ gain * WAD + f.hwm * s1 <= a * WAD
    <2>1. CASE over = 0
      <3>1. gain * WAD <= 0
        BY <1>6, <2>1
      <3> HIDE DEF gain
      <3>2. gain * WAD \in Nat
        BY <1>1, <1>6, MulNat
      <3>3. gain = 0
        BY <1>1, <1>6, <3>1, <3>2
      <3> QED BY <3>3
    <2>2. CASE over = sp - f.hwm
      <3>1. over * s1 = sp * s1 - f.hwm * s1
        BY <1>1, <1>2, <2>2
      <3> HIDE DEF gain
      <3>2. gain * WAD \in Nat /\ sp * s1 \in Nat /\ f.hwm * s1 \in Nat /\ a * WAD \in Nat
        BY <1>1, <1>2, <1>6, MulNat
      <3> QED BY <1>2, <1>5, <1>6, <3>1, <3>2
    <2> QED BY <1>4, <2>1, <2>2
  <1> HIDE DEF gain
  <1>8. gain * f.performance \in Nat /\ gain * f.performance <= MAX_PERFORMANCE_FEE_BPS * gain
        /\ MAX_PERFORMANCE_FEE_BPS * gain \in Nat
    BY <1>1, <1>6, MulNat, MulMono
  <1>9. due \in Nat /\ due * BPS <= gain * f.performance
    BY <1>1, <1>8, DivBounds
  <1> HIDE DEF due
  <1>10. performanceDue(f, a, s1) * BPS <= MAX_PERFORMANCE_FEE_BPS * gain
    <2>1. CASE performanceDue(f, a, s1) = due
      <3>1. due * BPS \in Nat
        BY <1>1, <1>9, MulNat
      <3> QED BY <1>8, <1>9, <2>1, <3>1
    <2>2. CASE performanceDue(f, a, s1) = 0
      BY <1>1, <1>8, <2>2
    <2> QED BY <1>3, <2>1, <2>2
  <1> QED BY <1>6, <1>7, <1>10

\* After an accrual the price is less than one above the mark.
LEMMA MarkIsNear ==
    ASSUME NEW f \in FeeState, NEW a \in Nat \ {0}, NEW s1 \in Nat \ {0}
    PROVE  a * WAD < (markAfter(f, a, s1) + 1) * (s1 + performanceShares(f, a, s1))
  <1> DEFINE minted == performanceShares(f, a, s1)
             after  == s1 + minted
  <1>1. WAD \in Nat \ {0} /\ f.hwm \in Nat /\ minted \in Nat
    BY UnitsAssumption, FeeFields, PerformanceSharesType
  <1>2. a * WAD \in Nat
    BY <1>1, MulNat
  <1>3. CASE sharePriceOf(a, s1) > f.hwm
    <2>1. markAfter(f, a, s1) = (a * WAD) \div after
      BY <1>3 DEF markAfter, sharePriceOf
    <2> HIDE DEF minted
    <2>2. after \in Nat \ {0}
      BY <1>1
    <2> HIDE DEF after
    <2> DEFINE q == (a * WAD) \div after
    <2>3. q \in Nat /\ a * WAD < q * after + after
      BY <1>2, <2>2, DivBounds
    <2> HIDE DEF q
    <2>4. (q + 1) * after = q * after + after
      BY <2>2, <2>3
    <2>5. a * WAD < (markAfter(f, a, s1) + 1) * after
      BY <2>1, <2>3, <2>4 DEF q
    <2> QED BY <2>5 DEF after, minted
  <1>4. CASE ~(sharePriceOf(a, s1) > f.hwm)
    <2> DEFINE sp == (a * WAD) \div s1
    <2>1. sp \in Nat /\ a * WAD < sp * s1 + s1
      BY <1>2, DivBounds
    <2>2. sp <= f.hwm
      BY <1>1, <1>4, <2>1 DEF sharePriceOf
    <2>3. minted = 0
      <3>1. sharePriceOf(a, s1) <= f.hwm
        BY <2>2 DEF sharePriceOf
      <3> QED BY <3>1, NoGainNoShares
    <2>4. markAfter(f, a, s1) = f.hwm
      BY <1>4 DEF markAfter
    <2> HIDE DEF sp, minted
    <2>5. sp * s1 <= f.hwm * s1 /\ sp * s1 \in Nat /\ f.hwm * s1 \in Nat
      BY <1>1, <2>1, <2>2, MulMono, MulNat
    <2>6. (f.hwm + 1) * s1 = f.hwm * s1 + s1
      BY <1>1
    <2>7. a * WAD < (f.hwm + 1) * s1
      BY <1>2, <2>1, <2>5, <2>6
    <2>8. s1 + minted = s1
      BY <2>3
    <2> QED BY <2>4, <2>7, <2>8 DEF minted
  <1> QED BY <1>3, <1>4

\* What the fee state is after an accrual that charges.
LEMMA ChargedState ==
    ASSUME NEW f \in FeeState, NEW a \in Nat \ {0}, NEW s \in Nat \ {0}, NEW t \in Nat, Chargeable(f, a, s)
    PROVE  \E s1 \in Nat : /\ s <= s1 /\ s + feeShares(f, a, s, t) = s1 + performanceShares(f, a, s1)
                           /\ accrue(f, a, s, t).hwm = markAfter(f, a, s1)
                           /\ \E paid \in {0, performanceDue(f, a, s1)} :
                                 accrue(f, a, s, t).performanceAssets = f.performanceAssets + paid
  <1> DEFINE m    == managementShares(f, s, t)
             s1   == s + m
             due  == performanceDue(f, a, s1)
             paid == IF performanceShares(f, a, s1) = 0 THEN 0 ELSE due
  <1>1. m \in Nat
    BY ManagementSharesType
  <1>2. accrue(f, a, s, t) = [f EXCEPT !.lastAccrual = t, !.hwm = markAfter(f, a, s1),
                                       !.performanceAssets = f.performanceAssets + paid]
    BY DEF accrue
  <1>3. feeShares(f, a, s, t) = m + performanceShares(f, a, s1)
    BY DEF feeShares
  <1> HIDE DEF m
  <1>4. s1 \in Nat \ {0} /\ s <= s1
    BY <1>1
  <1> HIDE DEF s1
  <1>5. performanceShares(f, a, s1) \in Nat
    BY <1>4, PerformanceSharesType
  <1>6. s + feeShares(f, a, s, t) = s1 + performanceShares(f, a, s1)
    BY <1>1, <1>3, <1>5 DEF s1
  <1>7. paid \in {0, due}
    OBVIOUS
  <1> HIDE DEF paid
  <1>8. accrue(f, a, s, t).hwm = markAfter(f, a, s1)
        /\ accrue(f, a, s, t).performanceAssets = f.performanceAssets + paid
    BY <1>2 DEF FeeState
  <1> QED BY <1>4, <1>6, <1>7, <1>8

LEMMA SlackType ==
    ASSUME VInv, NEW k \in Nat \ {0}
    PROVE  Slack(k) \in Nat /\ profit + Slack(k) \in Nat /\ MAX_PERFORMANCE_FEE_BPS * (profit + Slack(k)) \in Nat
  <1>1. profit \in Nat /\ txs \in Nat /\ k - 1 \in Nat /\ MAX_PERFORMANCE_FEE_BPS \in Nat
    BY FeeAssumption, VaultAssumption, UnitsAssumption DEF VInv, TypeOK
  <1>2. Slack(k) \in Nat
    BY <1>1, MulNat DEF Slack
  <1> QED BY <1>1, <1>2, MulNat

\* The accrual of a window takes only fees that are covered, and leaves the
\* price less than one above the mark.
LEMMA AccrualCovered ==
    ASSUME NEW k \in Nat \ {0}, CoverInv(k), ~emptied, isOperational
    PROVE  /\ Accrued.performanceAssets \in Nat
           /\ Accrued.performanceAssets * BPS <= MAX_PERFORMANCE_FEE_BPS * (profit + Slack(k))
           /\ AssetsPriced * WAD < (Accrued.hwm + 1) * PricedSupply
  <1> DEFINE room == MAX_PERFORMANCE_FEE_BPS * (profit + Slack(k))
             a == AssetsPriced
             s == totalSupply + VIRTUAL_SHARES
  <1>1. /\ VInv /\ Covered(k) /\ (totalSupply = 0 => totalAssets = 0)
        /\ WAD \div VIRTUAL_SHARES <= fee.hwm
    BY DEF CoverInv
  <1>2. /\ fee \in FeeState /\ fee.hwm \in Nat /\ fee.performanceAssets \in Nat /\ now \in Nat \ {0}
        /\ totalSupply \in Nat /\ VIRTUAL_SHARES \in Nat \ {0} /\ WAD \in Nat \ {0} /\ BPS \in Nat \ {0}
        /\ MAX_PERFORMANCE_FEE_BPS \in Nat /\ totalAssets \in Nat
    BY <1>1, WindowTypes, UnitsAssumption, FeeAssumption, VaultAssumption DEF VInv, TypeOK, FeeState
  <1>3. a \in Nat \ {0} /\ s \in Nat \ {0}
    BY <1>2 DEF AssetsPriced
  <1>4. room \in Nat
    BY <1>1, SlackType
  <1>5. CASE totalSupply = 0
    <2>1. Accrued = [fee EXCEPT !.lastAccrual = now]
      BY <1>5 DEF Accrued, accrue, Chargeable
    <2>2. Accrued.hwm = fee.hwm /\ Accrued.performanceAssets = fee.performanceAssets
      BY <1>2, <2>1 DEF FeeState
    <2>3. fee.performanceAssets * BPS + MAX_PERFORMANCE_FEE_BPS * 0 <= room
      BY <1>1 DEF Covered, Above
    <2>4. PricedSupply = VIRTUAL_SHARES /\ AssetsPriced = 1
      BY <1>1, <1>2, <1>5 DEF PricedSupply, pendingFeeShares, AssetsPriced
    <2> DEFINE q == WAD \div VIRTUAL_SHARES
    <2>5. q \in Nat /\ WAD < q * VIRTUAL_SHARES + VIRTUAL_SHARES
      BY <1>2, DivBounds
    <2>6. q <= fee.hwm
      BY <1>1
    <2> HIDE DEF q
    <2>7. q * VIRTUAL_SHARES <= fee.hwm * VIRTUAL_SHARES /\ fee.hwm * VIRTUAL_SHARES \in Nat
          /\ q * VIRTUAL_SHARES \in Nat
      BY <1>2, <2>5, <2>6, MulMono, MulNat
    <2>8. (fee.hwm + 1) * VIRTUAL_SHARES = fee.hwm * VIRTUAL_SHARES + VIRTUAL_SHARES
      BY <1>2
    <2>9. AssetsPriced * WAD < (Accrued.hwm + 1) * PricedSupply
      BY <1>2, <2>2, <2>4, <2>5, <2>7, <2>8
    <2>10. fee.performanceAssets * BPS <= room
      <3>1. MAX_PERFORMANCE_FEE_BPS * 0 = 0 /\ fee.performanceAssets * BPS \in Nat
        BY <1>2, MulNat
      <3> HIDE DEF room
      <3> QED BY <1>4, <2>3, <3>1
    <2> QED BY <1>2, <2>2, <2>9, <2>10
  <1>6. CASE totalSupply # 0
    <2>1. Accrued = accrue(fee, a, s, now)
      BY <1>6 DEF Accrued, AssetsPriced
    <2>2. PricedSupply = s + feeShares(fee, a, s, now)
      <3>1. pendingFeeShares = feeShares(fee, a, s, now)
        BY <1>6 DEF pendingFeeShares, AssetsPriced
      <3>2. pendingFeeShares \in Nat
        BY <1>1, WindowTypes
      <3> QED BY <1>2, <3>1, <3>2 DEF PricedSupply
    <2>3. Chargeable(fee, a, s)
      <3>1. fee.lastAccrual \in Nat
        BY <1>2, FeeFields
      <3> QED BY <1>1, <1>3, <1>6, <3>1 DEF Chargeable, VInv
    <2> HIDE DEF a, s
    <2>4. PICK s1 \in Nat :
             /\ s <= s1 /\ s + feeShares(fee, a, s, now) = s1 + performanceShares(fee, a, s1)
             /\ Accrued.hwm = markAfter(fee, a, s1)
             /\ \E paid \in {0, performanceDue(fee, a, s1)} :
                   Accrued.performanceAssets = fee.performanceAssets + paid
      <3>1. fee \in FeeState /\ a \in Nat \ {0} /\ s \in Nat \ {0} /\ now \in Nat
        BY <1>2, <1>3
      <3> HIDE DEF Accrued
      <3>2. \E u \in Nat : /\ s <= u /\ s + feeShares(fee, a, s, now) = u + performanceShares(fee, a, u)
                           /\ accrue(fee, a, s, now).hwm = markAfter(fee, a, u)
                           /\ \E paid \in {0, performanceDue(fee, a, u)} :
                                 accrue(fee, a, s, now).performanceAssets = fee.performanceAssets + paid
        BY <2>3, <3>1, ChargedState
      <3> QED BY <2>1, <3>2, Zenon
    <2>5. s1 \in Nat \ {0}
      BY <1>3, <2>4
    <2>6. PICK paid \in {0, performanceDue(fee, a, s1)} :
             Accrued.performanceAssets = fee.performanceAssets + paid
      BY <2>4
    <2>7. PICK n \in Nat : /\ performanceDue(fee, a, s1) * BPS <= MAX_PERFORMANCE_FEE_BPS * n
                           /\ n = 0 \/ n * WAD + fee.hwm * s1 <= a * WAD
      BY <1>2, <1>3, <2>5, DueFromGain
    <2>8. fee.hwm * s <= fee.hwm * s1 /\ fee.hwm * s \in Nat /\ fee.hwm * s1 \in Nat
          /\ n * WAD \in Nat /\ a * WAD \in Nat
      BY <1>2, <1>3, <2>4, <2>5, MulMono, MulNat
    <2>9. Above(n)
      <3>1. n = 0 \/ n * WAD + fee.hwm * s <= a * WAD
        BY <2>7, <2>8
      <3> QED BY <3>1 DEF Above, a, s
    <2>10. fee.performanceAssets * BPS + MAX_PERFORMANCE_FEE_BPS * n <= room
      BY <1>1, <2>9 DEF Covered
    <2> HIDE DEF room
    <2>11. performanceDue(fee, a, s1) \in Nat
      BY <1>2, <1>3, <2>5, DueBounds
    <2>12. paid \in Nat /\ paid * BPS <= MAX_PERFORMANCE_FEE_BPS * n /\ MAX_PERFORMANCE_FEE_BPS * n \in Nat
           /\ paid * BPS \in Nat
      <3>1. paid \in Nat /\ MAX_PERFORMANCE_FEE_BPS * n \in Nat
        BY <1>2, <2>6, <2>7, <2>11, MulNat
      <3>2. paid * BPS \in Nat
        BY <1>2, <3>1, MulNat
      <3>3. CASE paid = 0
        BY <1>2, <3>1, <3>3
      <3>4. CASE paid = performanceDue(fee, a, s1)
        BY <2>7, <3>1, <3>2, <3>4
      <3> QED BY <2>6, <3>1, <3>2, <3>3, <3>4
    <2>13. (fee.performanceAssets + paid) * BPS = fee.performanceAssets * BPS + paid * BPS
           /\ fee.performanceAssets * BPS \in Nat
      BY <1>2, <2>12, MulNat
    <2>14. (fee.performanceAssets + paid) * BPS <= room
      BY <1>4, <2>10, <2>12, <2>13
    <2>15. a * WAD < (markAfter(fee, a, s1) + 1) * (s1 + performanceShares(fee, a, s1))
      BY <1>2, <1>3, <2>5, MarkIsNear
    <2>16. AssetsPriced * WAD < (Accrued.hwm + 1) * PricedSupply
      BY <2>2, <2>4, <2>15 DEF a
    <2>17. Accrued.performanceAssets \in Nat
      BY <1>2, <2>6, <2>12
    <2> QED BY <2>6, <2>14, <2>16, <2>17 DEF room
  <1> QED BY <1>5, <1>6

\* Once the price is less than one above the mark, it is for a supply of k WADs less than k
\* units of money above it, besides what the call itself has left to the shares.
LEMMA AboveIsLeft ==
    ASSUME NEW k \in Nat \ {0}, NEW h \in Nat, NEW P \in Nat \ {0}, NEW T \in Nat, NEW S \in Nat \ {0},
           NEW W \in Nat \ {0}, NEW A \in Nat, NEW n \in Nat,
           S <= k * W, T * W < (h + 1) * P, n * W + h * S <= A * W
    PROVE  n <= A - (T * S) \div P + k - 1
  <1> DEFINE q == (T * S) \div P
  <1>1. T * S \in Nat /\ T * W \in Nat /\ h * S \in Nat /\ A * W \in Nat /\ n * W \in Nat /\ k * W \in Nat
    BY MulNat
  <1>2. q \in Nat /\ q * P <= T * S
    BY <1>1, DivBounds
  <1> HIDE DEF q
  <1>3. (q * P) * W <= (T * S) * W
    <2>1. q * P \in Nat
      BY <1>2, MulNat
    <2> QED BY <1>1, <1>2, <2>1, MulMono
  <1>4. (T * W) * S < ((h + 1) * P) * S
    <2> DEFINE x == T * W
               y == (h + 1) * P
    <2>1. x \in Nat /\ y \in Nat /\ x < y
      BY <1>1, MulNat
    <2> HIDE DEF x, y
    <2>2. x * S < y * S
      <3>1. (x + 1) * S <= y * S
        BY <2>1, MulMono
      <3>2. (x + 1) * S = x * S + S /\ x * S \in Nat /\ y * S \in Nat
        BY <2>1, MulNat
      <3> QED BY <3>1, <3>2
    <2> QED BY <2>2 DEF x, y
  <1>5. /\ (T * S) * W = (T * W) * S /\ ((h + 1) * P) * S = ((h + 1) * S) * P
        /\ (q * P) * W = (q * W) * P
    BY <1>2
  <1>6. q * W < (h + 1) * S
    <2> DEFINE x == q * W
               y == (h + 1) * S
               u == (q * P) * W
               v == (T * S) * W
    <2>1. x \in Nat /\ y \in Nat
      BY <1>2, MulNat
    <2>2. u \in Nat /\ v \in Nat
      <3>1. q * P \in Nat
        BY <1>2, MulNat
      <3> QED BY <1>1, <3>1, MulNat
    <2>3. u = x * P /\ v < y * P /\ u <= v
      BY <1>3, <1>4, <1>5
    <2> HIDE DEF x, y, u, v
    <2>4. x * P \in Nat /\ y * P \in Nat
      BY <2>1, MulNat
    <2>5. x * P < y * P
      BY <2>2, <2>3, <2>4
    <2>6. ~(y <= x)
      <3> SUFFICES ASSUME y <= x PROVE FALSE
        OBVIOUS
      <3>1. y * P <= x * P
        BY <2>1, MulMono
      <3> QED BY <2>4, <2>5, <3>1
    <2>7. x < y
      BY <2>1, <2>6
    <2> QED BY <2>7 DEF x, y
  <1>7. (h + 1) * S = h * S + S
    OBVIOUS
  <1>8. n * W + q * W < A * W + k * W
    <2>1. q * W \in Nat
      BY <1>2, MulNat
    <2> QED BY <1>1, <1>6, <1>7, <2>1
  <1>9. n * W + q * W = (n + q) * W /\ A * W + k * W = (A + k) * W
    BY <1>2
  <1>10. n + q < A + k
    <2> DEFINE x == n + q
               y == A + k
    <2>1. x \in Nat /\ y \in Nat /\ x * W < y * W
      BY <1>2, <1>8, <1>9
    <2> HIDE DEF x, y
    <2>2. x * W \in Nat /\ y * W \in Nat
      BY <2>1, MulNat
    <2>3. ~(y <= x)
      <3> SUFFICES ASSUME y <= x PROVE FALSE
        OBVIOUS
      <3>1. y * W <= x * W
        BY <2>1, MulMono
      <3> QED BY <2>1, <2>2, <3>1
    <2>4. x < y
      BY <2>1, <2>3
    <2> QED BY <2>4 DEF x, y
  <1>11. n <= A - q + k - 1
    BY <1>2, <1>10
  <1> QED BY <1>11 DEF q

\* The numbers after the step.
LEMMA NumbersAfter ==
    ASSUME VInv'
    PROVE  /\ totalAssets' \in Nat /\ AssetsPriced' = totalAssets' + 1 /\ totalSupply' \in Nat
           /\ PricedSupply' \in Nat /\ totalSupply' + VIRTUAL_SHARES <= PricedSupply'
           /\ profit' \in Nat /\ txs' \in Nat
  <1>1. idle' \in Nat /\ nav' \in Nat /\ totalSupply' \in Nat /\ fee' \in FeeState /\ now' \in Nat
        /\ profit' \in Nat /\ txs' \in Nat
    BY VaultAssumption DEF VInv, TypeOK
  <1>2. PICK i \in Nat, v \in Nat, n \in Nat : i = idle' /\ v = nav' /\ n = totalSupply'
    BY <1>1
  <1>3. totalAssets' = i + v /\ AssetsPriced' = i + v + 1
    BY <1>2 DEF totalAssets, AssetsPriced
  <1>4. PICK m \in Nat : m = pendingFeeShares'
    <2> DEFINE a == i + v + 1
               s == n + VIRTUAL_SHARES
    <2>1. a \in Nat /\ s \in Nat
      BY VaultAssumption
    <2>2. pendingFeeShares' = IF totalSupply' = 0 THEN 0 ELSE feeShares(fee', a, s, now')
      BY <1>2, <1>3 DEF pendingFeeShares
    <2> HIDE DEF a, s
    <2>3. feeShares(fee', a, s, now') \in Nat
      BY <1>1, <2>1, FeeSharesType
    <2> QED BY <2>2, <2>3
  <1>5. PricedSupply' = n + m + VIRTUAL_SHARES
    BY <1>2, <1>4 DEF PricedSupply
  <1>6. n + m + VIRTUAL_SHARES \in Nat /\ n + VIRTUAL_SHARES <= n + m + VIRTUAL_SHARES /\ i + v \in Nat
    BY VaultAssumption
  <1>7. totalSupply' + VIRTUAL_SHARES = n + VIRTUAL_SHARES
    BY <1>2
  <1> QED BY <1>1, <1>3, <1>5, <1>6, <1>7

\* A call at the price of its window keeps the fees covered: it leaves to the
\* shares what the profits are raised by.
LEMMA WindowCovers ==
    ASSUME NEW k \in Nat \ {0}, CoverInv(k), ~emptied, isOperational, VInv', SupplyWithin(k)',
           fee' = Accrued, txs' = txs + 1, profit' >= profit,
           profit' >= profit + AssetsPriced'
                      - (AssetsPriced * (totalSupply' + VIRTUAL_SHARES)) \div PricedSupply
    PROVE  Covered(k)'
  <1> SUFFICES ASSUME NEW n \in Nat, Above(n)'
               PROVE  fee'.performanceAssets * BPS + MAX_PERFORMANCE_FEE_BPS * n
                      <= MAX_PERFORMANCE_FEE_BPS * (profit' + Slack(k)')
    BY DEF Covered
  <1>0. PICK A \in Nat, supply \in Nat, priced \in Nat, gained \in Nat :
           /\ A = AssetsPriced' /\ supply = totalSupply' /\ priced = PricedSupply' /\ gained = profit'
           /\ supply + VIRTUAL_SHARES <= priced
    <2>1. PICK t \in Nat : t = totalAssets'
      BY NumbersAfter
    <2>2. AssetsPriced' = t + 1 /\ t + 1 \in Nat
      <3>1. AssetsPriced' = totalAssets' + 1
        BY NumbersAfter
      <3>2. AssetsPriced' = t + 1
        BY <2>1, <3>1
      <3> QED BY <3>2
    <2> QED BY <2>2, NumbersAfter
  <1> DEFINE S == supply + VIRTUAL_SHARES
             q == (AssetsPriced * S) \div PricedSupply
             cap == MAX_PERFORMANCE_FEE_BPS
  <1>1. /\ WAD \in Nat \ {0} /\ BPS \in Nat \ {0} /\ cap \in Nat /\ VIRTUAL_SHARES \in Nat \ {0}
        /\ VInv
    BY UnitsAssumption, FeeAssumption, VaultAssumption DEF CoverInv
  <1>2. AssetsPriced \in Nat \ {0} /\ PricedSupply \in Nat \ {0} /\ profit \in Nat /\ txs \in Nat
    BY <1>1, WindowTypes DEF VInv, TypeOK
  <1>4. S \in Nat \ {0}
    BY <1>1
  <1>5. S <= k * WAD
    <2>1. priced <= k * WAD
      BY <1>0 DEF SupplyWithin
    <2>2. k * WAD \in Nat
      BY <1>1, MulNat
    <2> QED BY <1>0, <1>4, <2>1, <2>2
  <1>6. /\ Accrued.performanceAssets \in Nat
        /\ Accrued.performanceAssets * BPS <= cap * (profit + Slack(k))
        /\ AssetsPriced * WAD < (Accrued.hwm + 1) * PricedSupply
    BY AccrualCovered
  <1>7. Accrued.hwm \in Nat
    BY <1>1, AccruedType, FeeFields
  <1>8. n = 0 \/ n * WAD + Accrued.hwm * S <= A * WAD
    BY <1>0 DEF Above
  <1>9. AssetsPriced * S \in Nat
    BY <1>2, <1>4, MulNat
  <1>10. q \in Nat
    BY <1>2, <1>9, DivBounds
  <1>11. n <= gained - profit + k - 1
    <2>1. gained >= profit /\ gained >= profit + A - q
      BY <1>0
    <2>2. CASE n = 0
      BY <1>2, <2>1, <2>2
    <2>3. CASE n * WAD + Accrued.hwm * S <= A * WAD
      <3> HIDE DEF S
      <3>1. n <= A - q + k - 1
        BY <1>1, <1>2, <1>4, <1>5, <1>6, <1>7, <2>3, AboveIsLeft
      <3> HIDE DEF q
      <3> QED BY <1>2, <1>10, <2>1, <3>1
    <2> QED BY <1>8, <2>2, <2>3
  <1>12. Slack(k)' = Slack(k) + k - 1 /\ Slack(k) \in Nat
    <2>1. Slack(k)' = (k - 1) * (txs + 1 + 1)
      BY DEF Slack
    <2>2. (k - 1) * (txs + 1 + 1) = (k - 1) * (txs + 1) + k - 1
      BY <1>2
    <2> QED BY <1>1, <2>1, <2>2, SlackType DEF Slack
  <1> DEFINE before == profit + Slack(k)
             after  == gained + Slack(k) + k - 1
             paid   == Accrued.performanceAssets
  <1>13. before \in Nat /\ after \in Nat /\ before + n <= after
    BY <1>2, <1>11, <1>12
  <1> HIDE DEF before, after
  <1>14. cap * (before + n) <= cap * after /\ cap * (before + n) = cap * before + cap * n
         /\ cap * before \in Nat /\ cap * n \in Nat /\ cap * after \in Nat
    BY <1>1, <1>13, MulMono, MulNat
  <1>15. paid * BPS \in Nat /\ paid * BPS <= cap * before
    BY <1>1, <1>6, MulNat DEF before
  <1> HIDE DEF paid, cap
  <1>16. paid * BPS + cap * n <= cap * after
    BY <1>14, <1>15
  <1>17. fee'.performanceAssets = paid
    BY DEF paid
  <1>18. profit' + Slack(k)' = after
    BY <1>0, <1>2, <1>12 DEF after
  <1> QED BY <1>16, <1>17, <1>18 DEF cap

\* Entries and exits.
LEMMA PricedCovers ==
    ASSUME NEW k \in Nat \ {0}, CoverInv(k), Sound, Priced, SupplyWithin(k)'
    PROVE  CoverInv(k)'
  <1>1. VInv /\ VInv' /\ fee'.hwm >= fee.hwm /\ WAD \div VIRTUAL_SHARES <= fee.hwm
    BY DEF CoverInv, Sound
  <1>2. WAD \div VIRTUAL_SHARES <= fee'.hwm
    <2>1. fee.hwm \in Int /\ fee'.hwm \in Int /\ WAD \div VIRTUAL_SHARES \in Int
      BY <1>1, FeeFields, UnitsAssumption, VaultAssumption, DivBounds DEF VInv, TypeOK
    <2> QED BY <1>1, <2>1
  <1>3. PICK a \in Nat, s \in Nat : totalAssets' = a /\ totalSupply' = s /\ KeepsPrice(a, s) /\ History(a, s)
    BY DEF Priced
  <1>4. ASSUME ~emptied' PROVE Covered(k)' /\ (totalSupply' = 0 => totalAssets' = 0)
    <2>1. ~emptied /\ ~(s = 0 /\ a > 0)
      BY <1>3, <1>4 DEF History
    <2>2. profit' = profit + Gift(a, s)
      BY <1>3 DEF History
    <2> DEFINE q == (AssetsPriced * (s + VIRTUAL_SHARES)) \div PricedSupply
    <2>3. Gift(a, s) = a + 1 - q
      BY DEF Gift, AssetsPriced
    <2>4. q \in Nat /\ q <= a + 1 /\ profit \in Nat
      <3>1. AssetsPriced \in Nat /\ PricedSupply \in Nat \ {0} /\ s + VIRTUAL_SHARES \in Nat /\ a + 1 \in Nat
        BY <1>1, WindowTypes, VaultAssumption
      <3>2. AssetsPriced * (s + VIRTUAL_SHARES) \in Nat
        BY <3>1, MulNat
      <3>3. q \in Nat /\ q <= a + 1
        BY <1>3, <3>1, <3>2, DivBounds, DivAtMost DEF KeepsPrice
      <3> QED BY <1>1, <3>3 DEF VInv, TypeOK
    <2>5. q = (AssetsPriced * (totalSupply' + VIRTUAL_SHARES)) \div PricedSupply /\ AssetsPriced' = a + 1
      BY <1>3 DEF AssetsPriced
    <2> DEFINE q1 == (AssetsPriced * (totalSupply' + VIRTUAL_SHARES)) \div PricedSupply
    <2>6. q1 = q
      BY <2>5
    <2> HIDE DEF q, q1
    <2>7. profit' >= profit /\ profit' >= profit + AssetsPriced' - q1
      BY <2>2, <2>3, <2>4, <2>5, <2>6
    <2>8. isOperational /\ fee' = Accrued /\ txs' = txs + 1
      BY DEF Priced
    <2>9. Covered(k)'
      BY <1>1, <2>1, <2>7, <2>8, WindowCovers DEF q1
    <2> QED BY <1>3, <2>1, <2>9
  <1> QED BY <1>1, <1>2, <1>4 DEF CoverInv

LEMMA AccrueFeesCovers ==
    ASSUME NEW k \in Nat \ {0}, CoverInv(k), AccrueFees, Sound, SupplyWithin(k)'
    PROVE  CoverInv(k)'
  <1>1. VInv /\ VInv' /\ fee'.hwm >= fee.hwm /\ WAD \div VIRTUAL_SHARES <= fee.hwm
    BY DEF CoverInv, Sound
  <1>2. WAD \div VIRTUAL_SHARES <= fee'.hwm
    <2>1. fee.hwm \in Int /\ fee'.hwm \in Int /\ WAD \div VIRTUAL_SHARES \in Int
      BY <1>1, FeeFields, UnitsAssumption, VaultAssumption, DivBounds DEF VInv, TypeOK
    <2> QED BY <1>1, <2>1
  <1>3. /\ isOperational /\ fee' = Accrued /\ txs' = txs + 1 /\ profit' = profit
        /\ totalSupply' = totalSupply + pendingFeeShares /\ totalAssets' = totalAssets
    BY DEF AccrueFees, Tx, totalAssets, strategyVars
  <1>4. emptied' = emptied
    BY Zenon DEF AccrueFees
  <1>5. ASSUME ~emptied PROVE Covered(k)'
    <2>1. /\ AssetsPriced \in Nat /\ PricedSupply \in Nat \ {0} /\ totalSupply \in Nat
          /\ pendingFeeShares \in Nat /\ VIRTUAL_SHARES \in Nat /\ profit \in Nat
      BY <1>1, WindowTypes, VaultAssumption DEF VInv, TypeOK
    <2>2. totalSupply' + VIRTUAL_SHARES = PricedSupply /\ AssetsPriced' = AssetsPriced
      BY <1>3, <2>1 DEF PricedSupply, AssetsPriced
    <2> DEFINE q == (AssetsPriced * (totalSupply' + VIRTUAL_SHARES)) \div PricedSupply
    <2>3. q = (AssetsPriced * PricedSupply) \div PricedSupply
      BY <2>2
    <2>4. AssetsPriced * PricedSupply \in Nat
      BY <2>1, MulNat
    <2>5. q >= AssetsPriced /\ q \in Nat
      BY <2>1, <2>3, <2>4, DivAtLeast, DivBounds
    <2> HIDE DEF q
    <2>6. profit' >= profit /\ profit' >= profit + AssetsPriced' - q
      BY <1>3, <2>1, <2>2, <2>5
    <2> QED BY <1>1, <1>3, <1>5, <2>6, WindowCovers DEF q
  <1>6. ASSUME ~emptied, totalSupply' = 0 PROVE totalAssets' = 0
    <2>1. totalSupply \in Nat /\ pendingFeeShares \in Nat
      BY <1>1, WindowTypes DEF VInv, TypeOK
    <2> QED BY <1>3, <1>6, <2>1 DEF CoverInv
  <1> QED BY <1>1, <1>2, <1>4, <1>5, <1>6 DEF CoverInv

\* A step that moves the assets by move, and neither shares nor fees.
Moved(move) ==
    /\ totalAssets' = totalAssets + move /\ profit' = profit + Pos(move)
    /\ totalSupply' = totalSupply /\ txs' >= txs
    /\ fee'.hwm = fee.hwm /\ fee'.performanceAssets = fee.performanceAssets
    /\ totalAssets = 0 => move = 0

LEMMA MovedCovers ==
    ASSUME NEW k \in Nat \ {0}, CoverInv(k), VInv', NEW move \in Int, Moved(move), emptied' = emptied
    PROVE  CoverInv(k)'
  <1>1. VInv /\ WAD \div VIRTUAL_SHARES <= fee'.hwm
    BY DEF CoverInv, Moved
  <1>2. ASSUME ~emptied PROVE Covered(k)' /\ (totalSupply' = 0 => totalAssets' = 0)
    <2>1. Covered(k) /\ (totalSupply = 0 => totalAssets = 0)
      BY <1>2 DEF CoverInv
    <2>2. /\ WAD \in Nat \ {0} /\ BPS \in Nat /\ MAX_PERFORMANCE_FEE_BPS \in Nat /\ totalAssets \in Nat
          /\ profit \in Nat /\ fee.hwm \in Nat /\ fee.performanceAssets \in Nat
          /\ txs \in Nat /\ txs' \in Nat /\ totalSupply + VIRTUAL_SHARES \in Nat /\ totalAssets' \in Nat
      <3>1. /\ totalAssets \in Nat /\ profit \in Nat /\ fee \in FeeState /\ txs \in Nat /\ txs' \in Nat
            /\ totalSupply + VIRTUAL_SHARES \in Nat
        BY <1>1, WindowTypes, VaultAssumption DEF VInv, TypeOK
      <3>2. totalAssets' \in Nat
        BY NumbersAfter
      <3> QED BY <3>1, <3>2, UnitsAssumption, FeeAssumption DEF FeeState
    <2>3. Slack(k) \in Nat /\ Slack(k)' \in Nat /\ Slack(k) <= Slack(k)'
      <3>1. PICK x \in Nat : x = txs' /\ x >= txs
        BY <2>2 DEF Moved
      <3>2. k - 1 \in Nat /\ txs + 1 \in Nat /\ x + 1 \in Nat /\ txs + 1 <= x + 1
        <4>1. txs \in Nat /\ x >= txs
          BY <2>2, <3>1
        <4> QED BY <4>1
      <3>3. (k - 1) * (txs + 1) \in Nat /\ (k - 1) * (x + 1) \in Nat
            /\ (k - 1) * (txs + 1) <= (k - 1) * (x + 1)
        BY <3>2, MulMono, MulNat
      <3>4. Slack(k)' = (k - 1) * (x + 1)
        BY <3>1 DEF Slack
      <3> QED BY <3>3, <3>4 DEF Slack
    <2>4. ASSUME NEW n \in Nat, Above(n)'
          PROVE  fee'.performanceAssets * BPS + MAX_PERFORMANCE_FEE_BPS * n
                 <= MAX_PERFORMANCE_FEE_BPS * (profit' + Slack(k)')
      <3> DEFINE i == Pos(n - Pos(move))
                 cap == MAX_PERFORMANCE_FEE_BPS
                 F == fee.performanceAssets * BPS
                 mark == fee.hwm * (totalSupply + VIRTUAL_SHARES)
      <3>1. Pos(move) \in Nat /\ i \in Nat /\ (i = 0 \/ i = n - Pos(move)) /\ n <= i + Pos(move)
            /\ move <= Pos(move)
        BY DEF Pos
      <3>2. mark \in Nat /\ F \in Nat
        BY <2>2, MulNat
      <3>3. n = 0 \/ n * WAD + mark <= (totalAssets + move + 1) * WAD
        BY <2>4 DEF Above, Moved, AssetsPriced
      <3> HIDE DEF i, mark, F
      <3>4. i = 0 \/ i * WAD + mark <= (totalAssets + 1) * WAD
        <4>1. CASE n = 0
          BY <3>1, <4>1
        <4>2. CASE i = n - Pos(move) /\ n * WAD + mark <= (totalAssets + move + 1) * WAD
          <5>1. (totalAssets + move + 1) * WAD = (totalAssets + 1) * WAD + move * WAD
            BY <2>2
          <5>2. i * WAD = n * WAD - Pos(move) * WAD
            BY <2>2, <3>1, <4>2
          <5>3. move * WAD <= Pos(move) * WAD /\ move * WAD \in Int
            BY <2>2, <3>1, MulMono
          <5>4. (totalAssets + 1) * WAD \in Int /\ n * WAD \in Int /\ Pos(move) * WAD \in Int
            BY <2>2, <3>1
          <5> QED BY <3>2, <4>2, <5>1, <5>2, <5>3, <5>4
        <4> QED BY <3>1, <3>3, <4>1, <4>2
      <3>5. Above(i)
        BY <3>4 DEF Above, AssetsPriced, mark
      <3>6. F + cap * i <= cap * (profit + Slack(k))
        BY <2>1, <3>1, <3>5 DEF Covered, F
      <3> DEFINE before == profit + Slack(k)
                 after == profit' + Slack(k)'
      <3>7. before \in Nat /\ after \in Nat /\ before + Pos(move) <= after
        BY <2>2, <2>3, <3>1 DEF Moved
      <3> HIDE DEF before, after
      <3>8. cap * n <= cap * (i + Pos(move)) /\ cap * (i + Pos(move)) = cap * i + cap * Pos(move)
            /\ cap * n \in Nat /\ cap * i \in Nat /\ cap * Pos(move) \in Nat
        BY <2>2, <3>1, MulMono, MulNat
      <3>9. cap * (before + Pos(move)) <= cap * after
            /\ cap * (before + Pos(move)) = cap * before + cap * Pos(move)
            /\ cap * before \in Nat /\ cap * after \in Nat
        BY <2>2, <3>1, <3>7, MulMono, MulNat
      <3>10. F + cap * i <= cap * before
        BY <3>6 DEF before
      <3>11. fee'.performanceAssets * BPS = F
        BY DEF Moved, F
      <3> HIDE DEF cap
      <3>12. F + cap * n <= cap * after
        BY <3>2, <3>8, <3>9, <3>10
      <3> QED BY <3>11, <3>12 DEF cap, after
    <2>5. totalSupply' = 0 => totalAssets' = 0
      BY <2>1, <2>2 DEF Moved
    <2>6. Covered(k)'
      BY <2>4 DEF Covered
    <2> QED BY <2>5, <2>6
  <1> QED BY <1>1, <1>2 DEF CoverInv

\* Steps that leave the assets as they are.
LEMMA StillCovers ==
    ASSUME NEW k \in Nat \ {0}, CoverInv(k), VInv', totalAssets' = totalAssets, profit' = profit,
           totalSupply' = totalSupply, emptied' = emptied, txs' = txs \/ txs' = txs + 1,
           fee'.hwm = fee.hwm, fee'.performanceAssets = fee.performanceAssets
    PROVE  CoverInv(k)'
  <1>1. profit \in Nat /\ txs \in Nat /\ totalAssets \in Nat
    BY WindowTypes DEF CoverInv, VInv, TypeOK
  <1>2. Moved(0)
    BY <1>1 DEF Moved, Pos
  <1> QED BY <1>2, MovedCovers

LEMMA TransferCovers ==
    ASSUME NEW k \in Nat \ {0}, CoverInv(k), VInv', NEW g \in Holders, NEW h \in Holders,
           Transfer(g, h, shares[g])
    PROVE  CoverInv(k)'
  <1>1. totalAssets' = totalAssets /\ profit' = profit /\ totalSupply' = totalSupply /\ txs' = txs + 1 /\ fee' = fee
    BY DEF Transfer, Tx, totalAssets, strategyVars
  <1>2. emptied' = emptied
    BY Zenon DEF Transfer
  <1> QED BY <1>1, <1>2, StillCovers

LEMMA PushCovers ==
    ASSUME NEW k \in Nat \ {0}, CoverInv(k), VInv', NEW amount \in Nat, PushToStrategy(amount)
    PROVE  CoverInv(k)'
  <1>1. idle \in Nat /\ nav \in Nat
    BY DEF CoverInv, VInv, TypeOK
  <1>2. idle' = idle - amount /\ nav' = nav + amount
    BY DEF PushToStrategy
  <1>3. totalAssets' = totalAssets
    BY <1>1, <1>2 DEF totalAssets
  <1>4. profit' = profit /\ totalSupply' = totalSupply /\ txs' = txs + 1 /\ fee' = fee
    BY DEF PushToStrategy, Tx
  <1>5. emptied' = emptied
    BY Zenon DEF PushToStrategy
  <1> QED BY <1>3, <1>4, <1>5, StillCovers

LEMMA UserCallCovers ==
    ASSUME NEW k \in Nat \ {0}, CoverInv(k), UserCall, SupplyWithin(k)'
    PROVE  CoverInv(k)'
  <1>1. VInv /\ Sound
    BY StepUserCall DEF CoverInv
  <1>2. VInv'
    BY <1>1 DEF Sound
  <1>3. Amounts \subseteq Nat /\ idle \in Nat /\ shares \in [Holders -> Nat]
    BY <1>1, VaultAssumption DEF VInv, TypeOK
  <1>4. ASSUME NEW h \in Holders, NEW x \in Amounts,
               Deposit(h, x) \/ Mint(h, x) \/ Withdraw(h, x) \/ Redeem(h, x)
        PROVE  Priced
    BY <1>1, <1>3, <1>4, StepDeposit, StepMint, StepWithdraw, StepRedeem
  <1>5. ASSUME NEW h \in Holders,
               Withdraw(h, maxWithdraw(shares[h])) \/ Redeem(h, maxRedeem(shares[h]))
        PROVE  Priced
    <2>1. shares[h] \in Nat
      BY <1>3
    <2>2. maxWithdraw(shares[h]) \in Nat /\ maxRedeem(shares[h]) \in Nat
      BY <1>1, <2>1, LimitTypes
    <2>3. CASE Withdraw(h, maxWithdraw(shares[h]))
      BY <1>1, <2>2, <2>3, StepWithdraw
    <2>4. CASE Redeem(h, maxRedeem(shares[h]))
      BY <1>1, <2>2, <2>4, StepRedeem
    <2> QED BY <1>5, <2>3, <2>4
  <1>6. ASSUME NEW h \in Holders, NEW x \in Amounts \cup {shares[h]}, RedeemWithUnwind(h, x)
        PROVE  Priced
    <2>1. x \in Nat
      BY <1>3
    <2> QED BY <1>1, <1>6, <2>1, StepUnwind
  <1>7. Priced => CoverInv(k)'
    BY <1>1, PricedCovers
  <1>8. AccrueFees => CoverInv(k)'
    BY <1>1, AccrueFeesCovers
  <1>9. ASSUME NEW g \in Holders, NEW h \in Holders, Transfer(g, h, shares[g]) PROVE CoverInv(k)'
    BY <1>2, <1>9, TransferCovers
  <1>10. ASSUME NEW x \in Amounts \cup {idle}, PushToStrategy(x) PROVE CoverInv(k)'
    <2>1. x \in Nat
      BY <1>3
    <2> QED BY <1>2, <1>10, <2>1, PushCovers
  <1> QED BY <1>4, <1>5, <1>6, <1>7, <1>8, <1>9, <1>10 DEF UserCall

LEMMA AdminCallCovers ==
    ASSUME NEW k \in Nat \ {0}, CoverInv(k), AdminCall, VInv'
    PROVE  CoverInv(k)'
  <1>1. fee \in FeeState
    BY DEF CoverInv, VInv, TypeOK
  <1>2. ASSUME NEW rates \in FeeChoices, SetFees(rates) PROVE CoverInv(k)'
    <2>1. fee'.hwm = fee.hwm /\ fee'.performanceAssets = fee.performanceAssets
      BY <1>1, <1>2 DEF SetFees, setFees, FeeState
    <2>2. totalAssets' = totalAssets /\ profit' = profit /\ totalSupply' = totalSupply /\ txs' = txs + 1
      BY <1>2 DEF SetFees, Tx, totalAssets, strategyVars
    <2>3. emptied' = emptied
      BY <1>2, Zenon DEF SetFees
    <2> QED BY <2>1, <2>2, <2>3, StillCovers
  <1>3. ASSUME NEW r \in Recipients, SetFeeRecipient(r) PROVE CoverInv(k)'
    <2>1. fee'.hwm = fee.hwm /\ fee'.performanceAssets = fee.performanceAssets
      BY <1>1, <1>3 DEF SetFeeRecipient, FeeState
    <2>2. totalAssets' = totalAssets /\ profit' = profit /\ totalSupply' = totalSupply /\ txs' = txs + 1
      BY <1>3 DEF SetFeeRecipient, Tx, totalAssets, strategyVars
    <2>3. emptied' = emptied
      BY <1>3, Zenon DEF SetFeeRecipient
    <2> QED BY <2>1, <2>2, <2>3, StillCovers
  <1>4. ASSUME NEW cap \in Caps, SetDepositCap(cap) PROVE CoverInv(k)'
    <2>1. /\ totalAssets' = totalAssets /\ profit' = profit /\ totalSupply' = totalSupply /\ txs' = txs + 1
          /\ fee' = fee
      BY <1>4 DEF SetDepositCap, Tx, totalAssets, strategyVars
    <2>2. emptied' = emptied
      BY <1>4, Zenon DEF SetDepositCap
    <2> QED BY <2>1, <2>2, StillCovers
  <1> QED BY <1>2, <1>3, <1>4 DEF AdminCall

LEMMA EnvironmentCovers ==
    ASSUME NEW k \in Nat \ {0}, CoverInv(k), Environment, VInv'
    PROVE  CoverInv(k)'
  <1>1. idle \in Nat /\ nav \in Nat /\ profit \in Nat /\ txs \in Nat
    BY DEF CoverInv, VInv, TypeOK
  <1>2. ASSUME NEW g \in [GateNames -> BOOLEAN], SetGates(g) PROVE CoverInv(k)'
    <2>1. /\ totalAssets' = totalAssets /\ profit' = profit /\ totalSupply' = totalSupply /\ txs' = txs + 1
          /\ fee' = fee
      BY <1>2 DEF SetGates, Tx, totalAssets, strategyVars
    <2>2. emptied' = emptied
      BY <1>2, Zenon DEF SetGates
    <2> QED BY <2>1, <2>2, StillCovers
  <1>3. ASSUME NEW move \in NavMoves, NEW positions \in BOOLEAN, NEW available \in {0, nav + move},
               StrategyMove(move, available, positions)
        PROVE  CoverInv(k)'
    <2>1. move \in Int
      BY VaultAssumption
    <2>2. /\ nav' = nav + move /\ idle' = idle /\ profit' = profit + Pos(move) /\ txs' = txs + 1
          /\ totalSupply' = totalSupply /\ fee' = fee /\ (move # 0 => nav > 0)
      BY <1>3 DEF StrategyMove, Tx
    <2>3. totalAssets' = totalAssets + move
      BY <1>1, <2>1, <2>2 DEF totalAssets
    <2>4. totalAssets = 0 => move = 0
      BY <1>1, <2>1, <2>2 DEF totalAssets
    <2>5. Moved(move)
      BY <1>1, <2>2, <2>3, <2>4 DEF Moved
    <2>6. emptied' = emptied
      BY <1>3, Zenon DEF StrategyMove
    <2> QED BY <2>1, <2>5, <2>6, MovedCovers
  <1>4. ReturnToVault(nav) => CoverInv(k)'
    <2> SUFFICES ASSUME ReturnToVault(nav) PROVE CoverInv(k)'
      OBVIOUS
    <2>1. /\ idle' = idle + nav /\ nav' = nav - nav /\ profit' = profit /\ totalSupply' = totalSupply
          /\ txs' = txs + 1 /\ fee' = fee
      BY DEF ReturnToVault, Tx
    <2>2. totalAssets' = totalAssets
      BY <1>1, <2>1 DEF totalAssets
    <2>3. emptied' = emptied
      BY Zenon DEF ReturnToVault
    <2> QED BY <2>1, <2>2, <2>3, StillCovers
  <1>5. OracleFlips => CoverInv(k)'
    <2> SUFFICES ASSUME OracleFlips PROVE CoverInv(k)'
      OBVIOUS
    <2>1. /\ totalAssets' = totalAssets /\ profit' = profit /\ totalSupply' = totalSupply /\ txs' = txs + 1
          /\ fee' = fee
      BY DEF OracleFlips, Tx, totalAssets
    <2>2. emptied' = emptied
      BY Zenon DEF OracleFlips
    <2> QED BY <2>1, <2>2, StillCovers
  <1>6. ASSUME NEW dt \in Ticks, Tick(dt) PROVE CoverInv(k)'
    <2>1. /\ totalAssets' = totalAssets /\ profit' = profit /\ totalSupply' = totalSupply /\ txs' = txs + 1
          /\ fee' = fee
      BY <1>6 DEF Tick, Tx, totalAssets, strategyVars
    <2>2. emptied' = emptied
      BY <1>6, Zenon DEF Tick
    <2> QED BY <2>1, <2>2, StillCovers
  <1> QED BY <1>2, <1>3, <1>4, <1>5, <1>6 DEF Environment

LEMMA CoverInit ==
    ASSUME NEW k \in Nat \ {0}, Init, SupplyWithin(k)
    PROVE  CoverInv(k)
  <1>1. VInv
    BY VInvInit
  <1>2. /\ totalAssets = 0 /\ totalSupply = 0 /\ fee.hwm = WAD \div VIRTUAL_SHARES
        /\ fee.performanceAssets = 0 /\ profit = 0 /\ txs = 0
    <2>1. idle = 0 /\ nav = 0 /\ totalSupply = 0 /\ profit = 0 /\ txs = 0
          /\ fee.hwm = WAD \div VIRTUAL_SHARES /\ fee.performanceAssets = 0
      BY DEF Init
    <2> QED BY <2>1 DEF totalAssets
  <1> DEFINE q == WAD \div VIRTUAL_SHARES
  <1>3. /\ WAD \in Nat \ {0} /\ VIRTUAL_SHARES \in Nat \ {0} /\ MAX_PERFORMANCE_FEE_BPS \in Nat /\ BPS \in Nat
        /\ k * WAD \in Nat
    BY UnitsAssumption, VaultAssumption, FeeAssumption, MulNat
  <1>4. q \in Nat /\ WAD < q * VIRTUAL_SHARES + VIRTUAL_SHARES /\ q * VIRTUAL_SHARES \in Nat
    BY <1>3, DivBounds, MulNat
  <1>5. fee.hwm = q
    BY <1>2
  <1> HIDE DEF q
  <1>6. VIRTUAL_SHARES <= k * WAD
    <2>1. PricedSupply = VIRTUAL_SHARES
      BY <1>2, <1>3 DEF PricedSupply, pendingFeeShares
    <2> QED BY <2>1 DEF SupplyWithin
  <1>7. ASSUME NEW n \in Nat, Above(n) PROVE n <= k - 1
    <2>1. CASE n = 0
      BY <2>1
    <2>2. CASE n * WAD + fee.hwm * (totalSupply + VIRTUAL_SHARES) <= AssetsPriced * WAD
      <3>1. totalSupply + VIRTUAL_SHARES = VIRTUAL_SHARES /\ AssetsPriced * WAD = WAD
        BY <1>2, <1>3 DEF AssetsPriced
      <3>2. n * WAD + q * VIRTUAL_SHARES <= WAD
        BY <1>5, <2>2, <3>1
      <3>3. n * WAD \in Nat
        BY <1>3, MulNat
      <3>4. n * WAD < k * WAD
        BY <1>3, <1>4, <1>6, <3>2, <3>3
      <3>5. ~(k <= n)
        <4> SUFFICES ASSUME k <= n PROVE FALSE
          OBVIOUS
        <4>1. k * WAD <= n * WAD
          BY <1>3, MulMono
        <4> QED BY <1>3, <3>3, <3>4, <4>1
      <3> QED BY <3>5
    <2> QED BY <1>7, <2>1, <2>2 DEF Above
  <1>8. Covered(k)
    <2> SUFFICES ASSUME NEW n \in Nat, Above(n)
                 PROVE  fee.performanceAssets * BPS + MAX_PERFORMANCE_FEE_BPS * n
                        <= MAX_PERFORMANCE_FEE_BPS * (profit + Slack(k))
      BY DEF Covered
    <2>1. n <= k - 1
      BY <1>7
    <2>2. profit + Slack(k) = k - 1
      BY <1>2 DEF Slack
    <2>3. MAX_PERFORMANCE_FEE_BPS * n <= MAX_PERFORMANCE_FEE_BPS * (k - 1)
          /\ MAX_PERFORMANCE_FEE_BPS * n \in Nat
      BY <1>3, <2>1, MulMono, MulNat
    <2>4. fee.performanceAssets * BPS = 0
      BY <1>2, <1>3
    <2> QED BY <2>2, <2>3, <2>4
  <1> QED BY <1>1, <1>2, <1>4, <1>5, <1>8 DEF CoverInv, q

LEMMA CoverStep ==
    ASSUME NEW k \in Nat \ {0}, CoverInv(k), [Next]_vars, SupplyWithin(k)'
    PROVE  CoverInv(k)'
  <1>1. VInv'
    BY VInvStep DEF CoverInv
  <1>2. CASE Next
    BY <1>1, <1>2, UserCallCovers, AdminCallCovers, EnvironmentCovers DEF Next
  <1>3. CASE UNCHANGED vars
    <2>1. totalAssets' = totalAssets /\ profit' = profit /\ totalSupply' = totalSupply /\ txs' = txs /\ fee' = fee
      BY <1>3 DEF vars, totalAssets, strategyVars
    <2>2. emptied' = emptied
      BY <1>3, Zenon DEF vars
    <2> QED BY <1>1, <2>1, <2>2, StillCovers
  <1> QED BY <1>2, <1>3

LEMMA CoverMeans ==
    ASSUME NEW k \in Nat \ {0}, CoverInv(k)
    PROVE  ~emptied => fee.performanceAssets * BPS <= MAX_PERFORMANCE_FEE_BPS * (profit + Slack(k))
  <1> SUFFICES ASSUME ~emptied
               PROVE  fee.performanceAssets * BPS <= MAX_PERFORMANCE_FEE_BPS * (profit + Slack(k))
    OBVIOUS
  <1>1. VInv /\ Covered(k) /\ Above(0)
    BY DEF CoverInv, Above
  <1>2. fee.performanceAssets * BPS + MAX_PERFORMANCE_FEE_BPS * 0
        <= MAX_PERFORMANCE_FEE_BPS * (profit + Slack(k))
    BY <1>1 DEF Covered
  <1>3. MAX_PERFORMANCE_FEE_BPS * 0 = 0 /\ fee.performanceAssets * BPS \in Nat
    BY <1>1, UnitsAssumption, FeeAssumption, MulNat DEF VInv, TypeOK, FeeState
  <1> QED BY <1>2, <1>3

\* Performance fees are the cap's part of the profits, up to (k - 1) units of
\* money a transaction, in a vault that was never emptied with assets left
\* (FeeManager._compute): for every k WADs its supply, pending fees included,
\* stays within.
THEOREM FeesNeedProfit ==
    ASSUME NEW k \in Nat \ {0}
    PROVE  Spec /\ []SupplyWithin(k)
           => [](~emptied => fee.performanceAssets * BPS <= MAX_PERFORMANCE_FEE_BPS * (profit + Slack(k)))
  <1>1. Init /\ SupplyWithin(k) => CoverInv(k)
    BY CoverInit
  <1>2. CoverInv(k) /\ [Next]_vars /\ SupplyWithin(k)' => CoverInv(k)'
    BY CoverStep
  <1>3. CoverInv(k) => (~emptied => fee.performanceAssets * BPS <= MAX_PERFORMANCE_FEE_BPS * (profit + Slack(k)))
    BY CoverMeans
  <1> QED BY <1>1, <1>2, <1>3, PTL DEF Spec

\* As long as the supply is at most a WAD, a million shares of the deployment,
\* the fees never exceed the cap's part of the profits.
THEOREM PerformanceFeesNeedProfitHolds == Spec /\ []SupplyWithin(1) => []PerformanceFeesNeedProfit
  <1>1. Init /\ SupplyWithin(1) => CoverInv(1)
    BY CoverInit
  <1>2. CoverInv(1) /\ [Next]_vars /\ SupplyWithin(1)' => CoverInv(1)'
    BY CoverStep
  <1>3. CoverInv(1) => PerformanceFeesNeedProfit
    <2> SUFFICES ASSUME CoverInv(1), ~emptied PROVE FeesWithinProfit
      BY DEF PerformanceFeesNeedProfit
    <2>1. fee.performanceAssets * BPS <= MAX_PERFORMANCE_FEE_BPS * (profit + Slack(1))
      BY CoverMeans
    <2>2. profit \in Nat /\ txs \in Nat
      BY DEF CoverInv, VInv, TypeOK
    <2>3. profit + Slack(1) = profit
      BY <2>2 DEF Slack
    <2> QED BY <2>1, <2>3 DEF FeesWithinProfit
  <1> QED BY <1>1, <1>2, <1>3, PTL DEF Spec
=============================================================================
