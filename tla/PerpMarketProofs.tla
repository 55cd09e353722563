-------------------------- MODULE PerpMarketProofs --------------------------
(***************************************************************************)
(* Theorems about PerpMarket and PerpPosition, for every choice of units,  *)
(* prices, rates, sizes and bounds; MCPerpMarket joins the two.            *)
(***************************************************************************)
EXTENDS MCPerpMarket, TLAPS

-----------------------------------------------------------------------------
(***************************************************************************)
(* Ranges of the arithmetic.  Everything below treats the roundings as     *)
(* unknown numbers of these ranges.                                        *)
(***************************************************************************)

LEMMA UnitType == QTY_PRICE_TO_USD6 \in Nat \ {0}
  BY UnitsAssumption, ScaleAssumption, MulPos DEF QTY_PRICE_TO_USD6

LEMMA MulDivSignedType ==
    ASSUME NEW a \in Int, NEW b \in Nat, NEW d \in Nat \ {0}
    PROVE  mulDivSigned(a, b, d) \in Int
  <1>1. CASE a >= 0
    BY <1>1, MulNat, DivNat DEF mulDivSigned
  <1>2. CASE ~(a >= 0)
    <2>1. (abs(a) * b) \div d \in Nat
      BY AbsType, MulNat, DivNat
    <2> QED BY <1>2, <2>1 DEF mulDivSigned
  <1> QED BY <1>1, <1>2

LEMMA NotionalType ==
    ASSUME NEW q \in Int, NEW p \in Nat PROVE notional(q, p) \in Nat
  BY AbsType, MulNat, DivNat, UnitType DEF notional

LEMMA PnlType ==
    ASSUME NEW q \in Int, NEW avg \in Nat, NEW p \in Nat
    PROVE  pnl(q, avg, p) \in Int
  <1>1. (abs(q) * abs(p - avg)) \div QTY_PRICE_TO_USD6 \in Nat
    BY AbsType, MulNat, DivNat, UnitType
  <1> QED BY <1>1 DEF pnl

LEMMA RealizedType ==
    ASSUME NEW q \in Int, NEW avg \in Nat, NEW delta \in Int, NEW p \in Nat
    PROVE  tradeRealized(q, avg, delta, p) \in Int
  <1>1. Min2(abs(delta), abs(q)) \in Nat
    BY AbsType DEF Min2
  <1> DEFINE closed == IF q > 0 THEN Min2(abs(delta), abs(q))
                       ELSE -Min2(abs(delta), abs(q))
  <1>2. closed \in Int
    BY <1>1
  <1>3. pnl(closed, avg, p) \in Int
    BY <1>2, PnlType
  <1> QED BY <1>3 DEF tradeRealized

LEMMA EntryType ==
    ASSUME NEW q \in Int, NEW avg \in Nat, NEW delta \in Int, NEW p \in Nat
    PROVE  tradeEntry(q, avg, delta, p) \in Nat
  <1>1. CASE q + delta = 0
    BY <1>1 DEF tradeEntry
  <1>2. CASE q + delta # 0
    <2>1. abs(q) + abs(delta) \in Nat \ {0}
      BY <1>2, AbsType DEF abs
    <2>2. abs(q) * avg + abs(delta) * p \in Nat
      BY AbsType, MulNat
    <2>3. (abs(q) * avg + abs(delta) * p) \div (abs(q) + abs(delta)) \in Nat
      BY <2>1, <2>2, DivNat
    <2> QED BY <1>2, <2>3 DEF tradeEntry
  <1> QED BY <1>1, <1>2

\* A position always has an entry price and a flat account never does.
LEMMA EntryPositive ==
    ASSUME NEW q \in Int, NEW avg \in Nat, NEW delta \in Int, NEW p \in Nat \ {0},
           (avg = 0) = (q = 0)
    PROVE  (tradeEntry(q, avg, delta, p) = 0) = (q + delta = 0)
  <1>1. CASE q + delta = 0
    BY <1>1 DEF tradeEntry
  <1>2. CASE q + delta # 0
    <2>1. abs(q) \in Nat /\ abs(delta) \in Nat /\ abs(q) + abs(delta) \in Nat \ {0}
      BY <1>2, AbsType DEF abs
    <2>2. abs(delta) * p >= abs(delta)
      BY <2>1
    <2>3. abs(q) * avg >= abs(q)
      BY <2>1 DEF abs
    <2>4. \A n \in Nat, d \in Nat \ {0} : n >= d => n \div d # 0
      OBVIOUS
    <2>5. (abs(q) * avg + abs(delta) * p) \div (abs(q) + abs(delta)) # 0
      BY <2>1, <2>2, <2>3, <2>4, MulNat
    <2>6. q # 0 => avg # 0
      OBVIOUS
    <2> QED BY <1>2, <2>5, <2>6 DEF tradeEntry, Increases
  <1> QED BY <1>1, <1>2

LEMMA FundingOwedType ==
    ASSUME NEW q \in Int, NEW d \in Int PROVE fundingOwed(q, d) \in Int
  <1>1. (abs(q) * abs(d)) \div WAD \in Nat
    BY AbsType, MulNat, DivNat, UnitsAssumption
  <1>2. /\ ((abs(q) * abs(d)) \div WAD) \div USD6_TO_USD18 \in Nat
        /\ CeilDiv((abs(q) * abs(d)) \div WAD, USD6_TO_USD18) \in Nat
    BY <1>1, DivNat, CeilDivType, UnitsAssumption, ScaleAssumption
  <1> QED BY <1>2 DEF fundingOwed

-----------------------------------------------------------------------------
(***************************************************************************)
(* What the steps of a transaction do to the venue's books.  Owned is the  *)
(* right-hand side of the conservation identity, Explained the margin that *)
(* the account statistics account for.                                     *)
(***************************************************************************)

Owned(v) == v.margin + v.lpPool + v.insuranceFund

Unexplained(v) ==
    v.margin - v.realizedPnl - v.fundingPnl + v.feesPaid + v.liquidationPenalties - v.badDebt

InterestOK(v) ==
    /\ v.longOpenInterest = Pos(v.size)
    /\ v.shortOpenInterest = Pos(-v.size)
    /\ (v.entryPrice = 0) = (v.size = 0)

\* The books of w follow from those of v by moving money inside the venue.
SameBooks(v, w) ==
    /\ w \in Market
    /\ Owned(w) = Owned(v)
    /\ Unexplained(w) = Unexplained(v)
    /\ InterestOK(v) => InterestOK(w)

\* Bringing the funding index up to date moves no money.
LEMMA UpdateFundingBooks ==
    ASSUME NEW v \in Market, TypeOK
    PROVE  /\ SameBooks(v, updateFunding(v))
           /\ updateFunding(v).lpPool = v.lpPool
  <1>1. Elapsed(v) \in Nat
    BY PosType DEF Elapsed, TypeOK, Market
  <1>2. (price * Elapsed(v)) \div FUNDING_PERIOD \in Nat
    BY <1>1, MulNat, DivNat, PerpMarketAssumption DEF TypeOK
  <1>3. mulDivSigned(v.fundingRatePer8h, (price * Elapsed(v)) \div FUNDING_PERIOD, WAD) \in Int
    BY <1>2, MulDivSignedType, UnitsAssumption DEF Market
  <1>4. pendingIndex(v) \in Int
    BY <1>3 DEF pendingIndex, Market
  <1> QED
    BY <1>4 DEF updateFunding, SameBooks, Owned, Unexplained, InterestOK, Market, TypeOK

\* The numbers a Market is made of.
LEMMA FieldTypes ==
    ASSUME NEW v \in Market
    PROVE  /\ v.size \in Int /\ v.entryPrice \in Nat /\ v.margin \in Int
           /\ v.lastFundingIndex \in Int /\ v.fundingRatePer8h \in Int
           /\ v.cumulativeFundingIndex \in Int /\ v.lastFundingUpdate \in Nat
           /\ v.lpPool \in Nat /\ v.insuranceFund \in Nat
           /\ v.longOpenInterest \in Int /\ v.shortOpenInterest \in Int
           /\ v.realizedPnl \in Int /\ v.fundingPnl \in Int /\ v.feesPaid \in Nat
           /\ v.liquidationPenalties \in Nat /\ v.badDebt \in Nat
  BY DEF Market

\* Settling funding moves it between the pool and the margin.
LEMMA SettleBooks ==
    ASSUME NEW v \in Market, owedNow(v) <= v.lpPool
    PROVE  SameBooks(v, settleFunding(v))
  <1> DEFINE w == settleFunding(v)
             o == owedNow(v)
  <1>1. o \in Int
    <2>1. v.size \in Int /\ v.cumulativeFundingIndex - v.lastFundingIndex \in Int
      BY FieldTypes
    <2> QED BY <2>1, FundingOwedType DEF owedNow
  <1>2. /\ v.cumulativeFundingIndex \in Int /\ v.lpPool - o \in Nat
        /\ v.margin + o \in Int /\ v.fundingPnl + o \in Int
    BY <1>1, FieldTypes
  <1>3. w \in Market
    BY Zenon, <1>2 DEF settleFunding, Market
  <1>4. /\ w.margin = v.margin + o
        /\ w.lpPool = v.lpPool - o
        /\ w.fundingPnl = v.fundingPnl + o
        /\ w.insuranceFund = v.insuranceFund /\ w.feesPaid = v.feesPaid
        /\ w.realizedPnl = v.realizedPnl
        /\ w.liquidationPenalties = v.liquidationPenalties /\ w.badDebt = v.badDebt
        /\ w.size = v.size /\ w.entryPrice = v.entryPrice
        /\ w.longOpenInterest = v.longOpenInterest
        /\ w.shortOpenInterest = v.shortOpenInterest
    BY DEF settleFunding, Market
  <1> QED
    BY <1>1, <1>3, <1>4, FieldTypes DEF SameBooks, Owned, Unexplained, InterestOK

\* A fill moves the realised PnL between the pool and the margin and moves the
\* open interest with the position.
LEMMA FillBooks ==
    ASSUME NEW v \in Market, NEW delta \in Int, NEW p \in Nat, CanFill(v, delta, p)
    PROVE  /\ SameBooks(v, applyFill(v, delta, p))
           /\ applyFill(v, delta, p).size = v.size + delta
  <1> DEFINE w == applyFill(v, delta, p)
             r == tradeRealized(v.size, v.entryPrice, delta, p)
             e == tradeEntry(v.size, v.entryPrice, delta, p)
             long == v.longOpenInterest - Pos(v.size) + Pos(v.size + delta)
             short == v.shortOpenInterest - Pos(-v.size) + Pos(-(v.size + delta))
  <1>1. r \in Int /\ e \in Nat /\ r <= v.lpPool
    BY RealizedType, EntryType, FieldTypes DEF CanFill
  <1>2. /\ Pos(v.size) \in Nat /\ Pos(-v.size) \in Nat
        /\ Pos(v.size + delta) \in Nat /\ Pos(-(v.size + delta)) \in Nat
    BY PosType, FieldTypes
  <1>3. /\ v.size + delta \in Int /\ long \in Int /\ short \in Int
        /\ v.lpPool - r \in Nat /\ v.margin + r \in Int /\ v.realizedPnl + r \in Int
    BY <1>1, <1>2, FieldTypes
  <1>4. w \in Market
    BY Zenon, <1>1, <1>3 DEF applyFill, Market
  <1>5. /\ w.size = v.size + delta /\ w.entryPrice = e
        /\ w.longOpenInterest = long
        /\ w.shortOpenInterest = short
        /\ w.margin = v.margin + r
        /\ w.lpPool = v.lpPool - r
        /\ w.realizedPnl = v.realizedPnl + r
        /\ w.insuranceFund = v.insuranceFund /\ w.feesPaid = v.feesPaid
        /\ w.fundingPnl = v.fundingPnl
        /\ w.liquidationPenalties = v.liquidationPenalties /\ w.badDebt = v.badDebt
    BY DEF applyFill, Market
  <1>6. Owned(w) = Owned(v) /\ Unexplained(w) = Unexplained(v)
    BY <1>1, <1>5, FieldTypes DEF Owned, Unexplained
  <1>7. InterestOK(v) => InterestOK(w)
    <2> SUFFICES ASSUME InterestOK(v) PROVE InterestOK(w)
      OBVIOUS
    <2>1. (e = 0) = (v.size + delta = 0)
      <3>1. p \in Nat \ {0}
        BY DEF CanFill
      <3>2. (v.entryPrice = 0) = (v.size = 0)
        BY DEF InterestOK
      <3>3. v.size \in Int /\ v.entryPrice \in Nat
        BY FieldTypes
      <3> QED BY <3>1, <3>2, <3>3, EntryPositive
    <2> QED BY <1>2, <1>5, <2>1, FieldTypes DEF InterestOK
  <1> QED
    BY <1>4, <1>5, <1>6, <1>7 DEF SameBooks

\* A fee moves from the margin to the insurance fund.
LEMMA FeeBooks ==
    ASSUME NEW v \in Market, NEW fee \in Nat
    PROVE  SameBooks(v, chargeFee(v, fee))
  <1> DEFINE w == chargeFee(v, fee)
  <1>1. v.margin - fee \in Int /\ v.insuranceFund + fee \in Nat /\ v.feesPaid + fee \in Nat
    BY FieldTypes
  <1>2. w \in Market
    BY Zenon, <1>1 DEF chargeFee, Market
  <1>3. /\ w.margin = v.margin - fee
        /\ w.insuranceFund = v.insuranceFund + fee
        /\ w.feesPaid = v.feesPaid + fee
        /\ w.lpPool = v.lpPool
        /\ w.realizedPnl = v.realizedPnl /\ w.fundingPnl = v.fundingPnl
        /\ w.liquidationPenalties = v.liquidationPenalties /\ w.badDebt = v.badDebt
        /\ w.size = v.size /\ w.entryPrice = v.entryPrice
        /\ w.longOpenInterest = v.longOpenInterest
        /\ w.shortOpenInterest = v.shortOpenInterest
    BY DEF chargeFee, Market
  <1> QED
    BY <1>2, <1>3, FieldTypes DEF SameBooks, Owned, Unexplained, InterestOK

\* A liquidation penalty moves what is left of the margin to the insurance fund.
LEMMA PenaltyBooks ==
    ASSUME NEW v \in Market, NEW closedSize \in Int, TypeOK
    PROVE  SameBooks(v, chargePenalty(v, closedSize))
  <1> DEFINE w == chargePenalty(v, closedSize)
             full == (notional(closedSize, price) * params.liquidationPenaltyBps) \div BPS
             fee == Min2(full, Pos(v.margin))
  <1>1. full \in Nat
    <2>1. notional(closedSize, price) \in Nat /\ params.liquidationPenaltyBps \in Nat
      BY NotionalType, PerpMarketAssumption DEF TypeOK, MarketParams
    <2> QED BY <2>1, MulNat, DivNat, UnitsAssumption
  <1>2. fee \in Nat
    BY <1>1, PosType, FieldTypes DEF Min2
  <1>3. /\ v.margin - fee \in Int /\ v.insuranceFund + fee \in Nat
        /\ v.liquidationPenalties + fee \in Nat
    BY <1>2, FieldTypes
  <1>4. w \in Market
    BY Zenon, <1>3 DEF chargePenalty, Market
  <1>5. /\ w.margin = v.margin - fee
        /\ w.insuranceFund = v.insuranceFund + fee
        /\ w.liquidationPenalties = v.liquidationPenalties + fee
        /\ w.lpPool = v.lpPool /\ w.feesPaid = v.feesPaid
        /\ w.realizedPnl = v.realizedPnl /\ w.fundingPnl = v.fundingPnl
        /\ w.badDebt = v.badDebt
        /\ w.size = v.size /\ w.entryPrice = v.entryPrice
        /\ w.longOpenInterest = v.longOpenInterest
        /\ w.shortOpenInterest = v.shortOpenInterest
    BY DEF chargePenalty, Market
  <1> QED
    BY <1>2, <1>4, <1>5, FieldTypes DEF SameBooks, Owned, Unexplained, InterestOK

\* Writing debt off takes it from the insurance fund, then from the pool.
LEMMA WriteOffBooks ==
    ASSUME NEW v \in Market, DebtBeyondInsurance(v) <= v.lpPool
    PROVE  SameBooks(v, writeOff(v)) /\ writeOff(v).margin >= 0
  <1> DEFINE w == writeOff(v)
             d == Debt(v)
             b == DebtBeyondInsurance(v)
  <1>1. d \in Nat /\ b \in Nat
    BY FieldTypes, PosType DEF Debt, DebtBeyondInsurance
  <1>2. /\ Pos(v.margin) = v.margin + d
        /\ Pos(v.insuranceFund - d) = v.insuranceFund - d + b
    BY FieldTypes DEF Pos, Debt, DebtBeyondInsurance
  <1>3. /\ Pos(v.margin) \in Nat /\ Pos(v.insuranceFund - d) \in Nat
        /\ v.lpPool - b \in Nat /\ v.badDebt + d \in Nat
    BY <1>1, FieldTypes, PosType
  <1>4. w \in Market
    <2>1. Pos(v.margin) \in Int
      BY <1>3
    <2> QED BY Zenon, <1>3, <2>1 DEF writeOff, Market
  <1>5. /\ w.margin = Pos(v.margin)
        /\ w.insuranceFund = Pos(v.insuranceFund - d)
        /\ w.lpPool = v.lpPool - b
        /\ w.badDebt = v.badDebt + d
        /\ w.liquidationPenalties = v.liquidationPenalties /\ w.feesPaid = v.feesPaid
        /\ w.realizedPnl = v.realizedPnl /\ w.fundingPnl = v.fundingPnl
        /\ w.size = v.size /\ w.entryPrice = v.entryPrice
        /\ w.longOpenInterest = v.longOpenInterest
        /\ w.shortOpenInterest = v.shortOpenInterest
    BY DEF writeOff, Market
  <1>6. Owned(w) = Owned(v) /\ Unexplained(w) = Unexplained(v)
    BY <1>1, <1>2, <1>5, FieldTypes DEF Owned, Unexplained
  <1>7. InterestOK(v) => InterestOK(w)
    BY <1>5 DEF InterestOK
  <1>8. w.margin >= 0
    BY <1>3, <1>5
  <1> QED BY <1>4, <1>6, <1>7, <1>8 DEF SameBooks

-----------------------------------------------------------------------------
(***************************************************************************)
(* The inductive invariant.  The books alone are inductive only together   *)
(* with the ranges: the pool can pay what it owes because every payment is *)
(* guarded by what it holds.                                               *)
(***************************************************************************)

Books ==
    /\ balance = Owned(m)
    /\ Unexplained(m) = InitialWallet - wallet
    /\ InterestOK(m)

IInv == TypeOK /\ Books

LEMMA SameBooksTransitive ==
    ASSUME NEW u, NEW v, NEW w, SameBooks(u, v), SameBooks(v, w)
    PROVE  SameBooks(u, w)
  BY DEF SameBooks

\* Funding is brought up to date and settled at the start of every transaction.
LEMMA SettledBooks ==
    ASSUME TypeOK, CanSettle
    PROVE  SameBooks(m, Settled)
  <1>1. m \in Market
    BY DEF TypeOK
  <1>2. SameBooks(m, updateFunding(m)) /\ updateFunding(m).lpPool = m.lpPool
    BY <1>1, UpdateFundingBooks
  <1>3. updateFunding(m) \in Market
    BY <1>2 DEF SameBooks
  <1>4. owedNow(updateFunding(m)) <= updateFunding(m).lpPool
    BY <1>2 DEF CanSettle
  <1>5. SameBooks(updateFunding(m), Settled)
    BY <1>3, <1>4, SettleBooks DEF Settled
  <1> QED BY <1>2, <1>5, SameBooksTransitive

\* A transaction that only moves money inside the venue keeps the invariant.
LEMMA InternalMove ==
    ASSUME IInv, SameBooks(m, m'), balance' = balance, wallet' = wallet
    PROVE  m' \in Market /\ Books'
  BY DEF IInv, Books, SameBooks, Owned, Unexplained, InterestOK

LEMMA ExecutionPriceType ==
    ASSUME TypeOK, NEW delta \in Int PROVE executionPrice(delta) \in Int
  <1>1. /\ price \in Nat
        /\ params.spreadBps \in Nat /\ params.maxImpactBps \in Nat
        /\ params.depthUsd \in Nat \ {0}
    BY PerpMarketAssumption DEF TypeOK, MarketParams
  <1> DEFINE impact == (params.spreadBps * WAD) \div BPS
                       + (notional(delta, price) * WAD) \div params.depthUsd
             capped == Min2(impact, (params.maxImpactBps * WAD) \div BPS)
  <1>2. notional(delta, price) \in Nat
    BY <1>1, NotionalType
  <1>3. /\ (params.spreadBps * WAD) \div BPS \in Nat
        /\ (notional(delta, price) * WAD) \div params.depthUsd \in Nat
        /\ (params.maxImpactBps * WAD) \div BPS \in Nat
    BY <1>1, <1>2, MulNat, DivNat, UnitsAssumption
  <1>4. capped \in Nat
    BY <1>3 DEF Min2
  <1> HIDE DEF capped
  <1>5. CeilDiv(price * (WAD + capped), WAD) \in Nat
    BY <1>1, <1>4, MulNat, CeilDivType, UnitsAssumption
  <1>6. (price * (WAD - capped)) \div WAD \in Int
    <2>1. price * (WAD - capped) \in Int
      BY <1>1, <1>4, UnitsAssumption
    <2> HIDE DEF capped
    <2>2. \A a \in Int, d \in Nat \ {0} : a \div d \in Int
      OBVIOUS
    <2> QED BY <2>1, <2>2, UnitsAssumption
  <1> QED BY <1>5, <1>6 DEF executionPrice, capped

LEMMA TakerFeeType ==
    ASSUME TypeOK, NEW delta \in Int, NEW p \in Nat PROVE takerFee(delta, p) \in Nat
  <1>1. params.takerFeeBps \in Nat
    BY PerpMarketAssumption DEF TypeOK, MarketParams
  <1>2. notional(delta, p) * params.takerFeeBps \in Nat
    BY <1>1, NotionalType, MulNat
  <1> QED BY <1>2, CeilDivType, UnitsAssumption DEF takerFee

LEMMA AdapterType ==
    ASSUME TypeOK, NEW v \in Market, NEW delta \in Int
    PROVE  adapterAfterTrade(v, delta) \in [markEntryPrice : Nat, cumulativeSlippage : Int]
  <1>1. executionPrice(delta) \in Int /\ price \in Nat
    BY ExecutionPriceType, PerpMarketAssumption DEF TypeOK
  <1>2. notional(delta, abs(executionPrice(delta) - price)) \in Nat
    <2>1. abs(executionPrice(delta) - price) \in Nat
      BY <1>1, AbsType
    <2> QED BY <2>1, NotionalType
  <1>3. adapter.markEntryPrice \in Nat /\ adapter.cumulativeSlippage \in Int
    BY DEF TypeOK
  <1>4. tradeEntry(v.size, adapter.markEntryPrice, delta, price) \in Nat
    BY <1>1, <1>3, EntryType, FieldTypes
  <1> QED BY <1>2, <1>3, <1>4 DEF adapterAfterTrade

\* Initially the pool holds everything and nothing has happened.
LEMMA IInvInit == Init => IInv
  <1> SUFFICES ASSUME Init PROVE IInv
    OBVIOUS
  <1>1. m \in Market /\ m.size = 0
    BY PerpMarketAssumption DEF Init, Market
  <1>2. TypeOK
    BY <1>1, PerpMarketAssumption DEF Init, TypeOK
  <1>3. Books
    BY PerpMarketAssumption DEF Init, Books, Owned, Unexplained, InterestOK, Pos
  <1> QED BY <1>2, <1>3 DEF IInv

-----------------------------------------------------------------------------
(***************************************************************************)
(* One lemma per transaction.                                              *)
(***************************************************************************)

LEMMA StepSetParams ==
    ASSUME IInv, NEW p \in ParamChoices, SetParams(p) PROVE IInv'
  BY DEF IInv, TypeOK, Books, SetParams, Transaction, Owned, Unexplained, InterestOK

LEMMA StepSetFundingRate ==
    ASSUME IInv, NEW r \in Rates, SetFundingRate(r) PROVE IInv'
  <1> DEFINE u == updateFunding(m)
  <1>1. m \in Market /\ TypeOK
    BY DEF IInv, TypeOK
  <1>2. SameBooks(m, u)
    BY <1>1, UpdateFundingBooks
  <1>3. r \in Int
    BY PerpMarketAssumption
  <1>4. m' = [u EXCEPT !.fundingRatePer8h = r]
    BY DEF SetFundingRate
  <1>5. u \in Market
    BY <1>2 DEF SameBooks
  <1> HIDE DEF u
  <1>6. SameBooks(u, m')
    <2>1. m' \in Market
      BY Zenon, <1>3, <1>4, <1>5 DEF Market
    <2>2. /\ m'.margin = u.margin /\ m'.lpPool = u.lpPool
          /\ m'.insuranceFund = u.insuranceFund /\ m'.feesPaid = u.feesPaid
          /\ m'.realizedPnl = u.realizedPnl /\ m'.fundingPnl = u.fundingPnl
          /\ m'.liquidationPenalties = u.liquidationPenalties /\ m'.badDebt = u.badDebt
          /\ m'.size = u.size /\ m'.entryPrice = u.entryPrice
          /\ m'.longOpenInterest = u.longOpenInterest
          /\ m'.shortOpenInterest = u.shortOpenInterest
      BY <1>4, <1>5 DEF Market
    <2> QED BY <2>1, <2>2 DEF SameBooks, Owned, Unexplained, InterestOK
  <1>7. SameBooks(m, m')
    BY <1>2, <1>6, SameBooksTransitive
  <1>8. /\ balance' = balance /\ wallet' = wallet /\ params' = params /\ adapter' = adapter
        /\ price' = price /\ now' = now /\ txs' \in Nat /\ openMarks' = openMarks
    BY <1>1 DEF SetFundingRate, Transaction, TypeOK
  <1>9. m' \in Market /\ Books'
    BY <1>7, <1>8, InternalMove
  <1> QED BY <1>1, <1>8, <1>9 DEF IInv, TypeOK

LEMMA StepFundPool ==
    ASSUME IInv, NEW a \in Amounts, FundPool(a) PROVE IInv'
  <1>1. a \in Nat /\ m \in Market /\ TypeOK
    BY PerpMarketAssumption DEF IInv, TypeOK
  <1>2. m' = [m EXCEPT !.lpPool = @ + a] /\ balance' = balance + a
    BY DEF FundPool
  <1>3. m.lpPool + a \in Nat
    BY <1>1, FieldTypes
  <1>4. m' \in Market
    BY Zenon, <1>1, <1>2, <1>3 DEF Market
  <1>5. /\ m'.margin = m.margin /\ m'.lpPool = m.lpPool + a
        /\ m'.insuranceFund = m.insuranceFund /\ m'.feesPaid = m.feesPaid
        /\ m'.realizedPnl = m.realizedPnl /\ m'.fundingPnl = m.fundingPnl
        /\ m'.liquidationPenalties = m.liquidationPenalties /\ m'.badDebt = m.badDebt
        /\ m'.size = m.size /\ m'.entryPrice = m.entryPrice
        /\ m'.longOpenInterest = m.longOpenInterest
        /\ m'.shortOpenInterest = m.shortOpenInterest
    BY <1>1, <1>2 DEF Market
  <1>6. balance' \in Nat
    BY <1>1, <1>2 DEF TypeOK
  <1>7. Books'
    BY <1>1, <1>2, <1>5, FieldTypes DEF IInv, Books, Owned, Unexplained, InterestOK, FundPool
  <1>8. TypeOK'
    BY <1>1, <1>4, <1>6 DEF TypeOK, FundPool, Transaction
  <1> QED BY <1>7, <1>8 DEF IInv

LEMMA StepSimulateAdl ==
    ASSUME IInv, NEW b \in AdlBps, SimulateAdl(b) PROVE IInv'
  <1> DEFINE reduce == -mulDivSigned(Settled.size, b, BPS)
  <1>1. TypeOK /\ CanSettle
    BY DEF IInv, SimulateAdl
  <1>2. SameBooks(m, Settled)
    BY <1>1, SettledBooks
  <1>3. Settled \in Market
    BY <1>2 DEF SameBooks
  <1>4. reduce \in Int
    <2>1. mulDivSigned(Settled.size, b, BPS) \in Int
      BY <1>3, FieldTypes, MulDivSignedType, UnitsAssumption, PerpMarketAssumption
    <2> QED BY <2>1
  <1>5. SameBooks(m, m')
    <2>1. CASE m' = Settled
      BY <1>2, <2>1
    <2>2. CASE CanFill(Settled, reduce, price) /\ m' = applyFill(Settled, reduce, price)
      <3>1. price \in Nat
        BY <1>1, PerpMarketAssumption DEF TypeOK
      <3> HIDE DEF reduce
      <3>2. SameBooks(Settled, m')
        BY <1>3, <1>4, <2>2, <3>1, FillBooks
      <3> QED BY <1>2, <3>2, SameBooksTransitive
    <2> QED BY <2>1, <2>2 DEF SimulateAdl
  <1>6. /\ balance' = balance /\ wallet' = wallet /\ params' = params /\ adapter' = adapter
        /\ price' = price /\ now' = now /\ txs' \in Nat /\ openMarks' \in {{}, openMarks}
    BY <1>1 DEF SimulateAdl, Transaction, TypeOK
  <1>7. m' \in Market /\ Books'
    BY <1>5, <1>6, InternalMove
  <1> QED BY <1>1, <1>6, <1>7 DEF IInv, TypeOK

\* Margin that comes in from, or goes out to, the strategy's wallet.
LEMMA MarginBooks ==
    ASSUME NEW v \in Market, NEW x \in Int
    PROVE  LET w == [v EXCEPT !.margin = @ + x]
           IN  /\ w \in Market
               /\ Owned(w) = Owned(v) + x
               /\ Unexplained(w) = Unexplained(v) + x
               /\ InterestOK(v) => InterestOK(w)
  <1> DEFINE w == [v EXCEPT !.margin = @ + x]
  <1>1. v.margin + x \in Int
    BY FieldTypes
  <1>2. w \in Market
    BY Zenon, <1>1 DEF Market
  <1>3. /\ w.margin = v.margin + x /\ w.lpPool = v.lpPool
        /\ w.insuranceFund = v.insuranceFund /\ w.feesPaid = v.feesPaid
        /\ w.realizedPnl = v.realizedPnl /\ w.fundingPnl = v.fundingPnl
        /\ w.liquidationPenalties = v.liquidationPenalties /\ w.badDebt = v.badDebt
        /\ w.size = v.size /\ w.entryPrice = v.entryPrice
        /\ w.longOpenInterest = v.longOpenInterest
        /\ w.shortOpenInterest = v.shortOpenInterest
    BY DEF Market
  <1> HIDE DEF w
  <1>4. Owned(w) = Owned(v) + x /\ Unexplained(w) = Unexplained(v) + x
    BY <1>1, <1>3, FieldTypes DEF Owned, Unexplained
  <1>5. InterestOK(v) => InterestOK(w)
    BY <1>3 DEF InterestOK
  <1> QED BY <1>2, <1>4, <1>5 DEF w

LEMMA OwnedType ==
    ASSUME NEW v \in Market PROVE Owned(v) \in Int /\ Unexplained(v) \in Int
  BY FieldTypes DEF Owned, Unexplained

LEMMA StepDepositMargin ==
    ASSUME IInv, NEW a \in Amounts, DepositMargin(a) PROVE IInv'
  <1>1. TypeOK /\ CanSettle /\ a \in Nat /\ m \in Market
    BY PerpMarketAssumption DEF IInv, TypeOK, DepositMargin
  <1>2. SameBooks(m, Settled) /\ Settled \in Market
    BY <1>1, SettledBooks DEF SameBooks
  <1>3. /\ m' = [Settled EXCEPT !.margin = @ + a]
        /\ balance' = balance + a /\ wallet' = wallet - a /\ a <= wallet
    BY DEF DepositMargin
  <1>4. /\ m' \in Market
        /\ Owned(m') = Owned(Settled) + a
        /\ Unexplained(m') = Unexplained(Settled) + a
        /\ InterestOK(Settled) => InterestOK(m')
    <2>1. a \in Int
      BY <1>1
    <2> QED BY <1>2, <1>3, <2>1, MarginBooks
  <1>5. Books'
    <2>1. /\ balance = Owned(m) /\ Unexplained(m) = InitialWallet - wallet /\ InterestOK(m)
          /\ Owned(Settled) = Owned(m) /\ Unexplained(Settled) = Unexplained(m)
          /\ InterestOK(m) => InterestOK(Settled)
      BY <1>2 DEF IInv, Books, SameBooks
    <2>2. balance' = Owned(m') /\ Unexplained(m') = InitialWallet - wallet'
      BY <1>1, <1>3, <1>4, <2>1, OwnedType, PerpMarketAssumption DEF TypeOK
    <2>3. Owned(m)' = Owned(m') /\ Unexplained(m)' = Unexplained(m') /\ InterestOK(m')
      BY <1>4, <2>1 DEF Owned, Unexplained
    <2> QED BY <2>2, <2>3 DEF Books, InterestOK, Owned, Unexplained
  <1>6. balance' \in Nat /\ wallet' \in Nat
    BY <1>1, <1>3 DEF TypeOK
  <1> QED
    BY <1>1, <1>4, <1>5, <1>6 DEF IInv, TypeOK, DepositMargin, Transaction

LEMMA StepWithdrawMargin ==
    ASSUME IInv, NEW a \in Amounts, WithdrawMargin(a) PROVE IInv'
  <1>1. TypeOK /\ CanSettle /\ a \in Nat /\ m \in Market
    BY PerpMarketAssumption DEF IInv, TypeOK, WithdrawMargin
  <1>2. SameBooks(m, Settled) /\ Settled \in Market
    BY <1>1, SettledBooks DEF SameBooks
  <1>3. /\ m' = [Settled EXCEPT !.margin = @ - a]
        /\ balance' = balance - a /\ wallet' = wallet + a
        /\ m'.margin >= 0
    BY DEF WithdrawMargin
  <1>4. /\ m' \in Market
        /\ Owned(m') = Owned(Settled) - a
        /\ Unexplained(m') = Unexplained(Settled) - a
        /\ InterestOK(Settled) => InterestOK(m')
    <2>1. m' = [Settled EXCEPT !.margin = @ + (-a)] /\ -a \in Int
      <3>1. Settled.margin - a = Settled.margin + (-a)
        BY <1>1, <1>2, FieldTypes
      <3> QED BY <1>1, <1>3, <3>1
    <2>2. /\ Owned(Settled) + (-a) = Owned(Settled) - a
          /\ Unexplained(Settled) + (-a) = Unexplained(Settled) - a
      BY <1>1, <1>2, OwnedType
    <2> QED BY <1>2, <2>1, <2>2, MarginBooks
  <1>5. Books'
    <2>1. /\ balance = Owned(m) /\ Unexplained(m) = InitialWallet - wallet /\ InterestOK(m)
          /\ Owned(Settled) = Owned(m) /\ Unexplained(Settled) = Unexplained(m)
          /\ InterestOK(m) => InterestOK(Settled)
      BY <1>2 DEF IInv, Books, SameBooks
    <2>2. balance' = Owned(m') /\ Unexplained(m') = InitialWallet - wallet'
      BY <1>1, <1>3, <1>4, <2>1, OwnedType, PerpMarketAssumption DEF TypeOK
    <2>3. Owned(m)' = Owned(m') /\ Unexplained(m)' = Unexplained(m') /\ InterestOK(m')
      BY <1>4, <2>1 DEF Owned, Unexplained
    <2> QED BY <2>2, <2>3 DEF Books, InterestOK, Owned, Unexplained
  <1>6. balance' \in Nat /\ wallet' \in Nat
    <2>1. balance' = Owned(m')
      BY <1>5 DEF Books, Owned
    <2>2. Owned(m') \in Nat
      <3>1. m'.margin \in Int /\ m'.lpPool \in Nat /\ m'.insuranceFund \in Nat
        BY <1>4, FieldTypes
      <3> QED BY <1>3, <3>1 DEF Owned
    <2> QED BY <1>1, <1>3, <2>1, <2>2 DEF TypeOK
  <1> QED
    BY <1>1, <1>4, <1>5, <1>6 DEF IInv, TypeOK, WithdrawMargin, Transaction

LEMMA StepTrade ==
    ASSUME IInv, NEW d \in SizeDeltas, NEW limit \in AcceptablePrices, Trade(d, limit)
    PROVE  IInv'
  <1> DEFINE exec == executionPrice(d)
             f == applyFill(Settled, d, exec)
             fee == takerFee(d, exec)
  <1>1. TypeOK /\ CanSettle /\ d \in Int
    BY PerpMarketAssumption DEF IInv, Trade
  <1>2. SameBooks(m, Settled) /\ Settled \in Market
    BY <1>1, SettledBooks DEF SameBooks
  <1>3. CanFill(Settled, d, exec) /\ exec \in Nat
    BY <1>1, ExecutionPriceType DEF Trade, CanFill
  <1>4. SameBooks(Settled, f) /\ f \in Market
    BY <1>1, <1>2, <1>3, FillBooks DEF SameBooks
  <1>5. fee \in Nat
    BY <1>1, <1>3, TakerFeeType
  <1>6. SameBooks(f, m')
    BY <1>4, <1>5, FeeBooks DEF Trade
  <1>7. SameBooks(m, m')
    BY <1>2, <1>4, <1>6, SameBooksTransitive
  <1>8. /\ balance' = balance /\ wallet' = wallet /\ params' = params
        /\ price' = price /\ now' = now
    BY DEF Trade
  <1>9. txs' \in Nat /\ openMarks' \subseteq Prices
    BY <1>1 DEF Trade, Transaction, TypeOK
  <1>10. adapter' \in [markEntryPrice : Nat, cumulativeSlippage : Int]
    BY <1>1, <1>2, AdapterType DEF Trade
  <1>11. m' \in Market /\ Books'
    BY <1>7, <1>8, InternalMove
  <1> QED BY <1>1, <1>8, <1>9, <1>10, <1>11 DEF IInv, TypeOK

\* A liquidation closes at the mark, takes the penalty and writes off the debt.
LEMMA StepLiquidate ==
    ASSUME IInv, Liquidate PROVE IInv' /\ m'.size = 0 /\ m'.margin >= 0
  <1> DEFINE c == applyFill(Settled, -Settled.size, price)
             f == chargePenalty(c, Settled.size)
  <1>1. TypeOK /\ CanSettle /\ price \in Nat
    BY PerpMarketAssumption DEF IInv, Liquidate, TypeOK
  <1>2. SameBooks(m, Settled) /\ Settled \in Market
    BY <1>1, SettledBooks DEF SameBooks
  <1>3. Settled.size \in Int /\ -Settled.size \in Int
    BY <1>2, FieldTypes
  <1>4. SameBooks(Settled, c) /\ c \in Market /\ c.size = 0
    <2>1. SameBooks(Settled, c) /\ c.size = Settled.size + (-Settled.size)
      BY <1>1, <1>2, <1>3, FillBooks DEF Liquidate
    <2> QED BY <1>3, <2>1 DEF SameBooks
  <1>5. SameBooks(c, f) /\ f \in Market
    BY <1>1, <1>3, <1>4, PenaltyBooks DEF SameBooks
  <1>6. f.size = 0
    <2> HIDE DEF c
    <2> QED BY <1>4 DEF chargePenalty, Market
  <1>7. m' = writeOff(f) /\ DebtBeyondInsurance(f) <= f.lpPool
    BY DEF Liquidate
  <1> HIDE DEF f
  <1>8. SameBooks(f, m') /\ m'.margin >= 0
    BY <1>5, <1>7, WriteOffBooks
  <1>9. m'.size = 0
    BY <1>5, <1>6, <1>7 DEF writeOff, Market
  <1>10. SameBooks(m, m')
    <2>1. SameBooks(m, f)
      BY <1>2, <1>4, <1>5, SameBooksTransitive
    <2> QED BY <1>8, <2>1, SameBooksTransitive
  <1>11. /\ balance' = balance /\ wallet' = wallet /\ params' = params /\ adapter' = adapter
         /\ price' = price /\ now' = now /\ txs' \in Nat /\ openMarks' = {}
    BY <1>1 DEF Liquidate, Transaction, TypeOK
  <1>12. m' \in Market /\ Books'
    BY <1>10, <1>11, InternalMove
  <1> QED BY <1>1, <1>8, <1>9, <1>11, <1>12 DEF IInv, TypeOK

\* The feed and the clock touch no books.
LEMMA StepEnvironment ==
    ASSUME IInv, (\E p \in Prices : FeedAnswers(p)) \/ Tick \/ UNCHANGED vars PROVE IInv'
  BY DEF IInv, TypeOK, Books, Owned, Unexplained, InterestOK, FeedAnswers, Tick, vars

LEMMA IInvStep == IInv /\ [Next]_vars => IInv'
  <1> SUFFICES ASSUME IInv, [Next]_vars PROVE IInv'
    OBVIOUS
  <1>1. CASE \E p \in ParamChoices : SetParams(p)
    BY <1>1, StepSetParams
  <1>2. CASE \E r \in Rates : SetFundingRate(r)
    BY <1>2, StepSetFundingRate
  <1>3. CASE \E a \in Amounts : FundPool(a) \/ DepositMargin(a) \/ WithdrawMargin(a)
    BY <1>3, StepFundPool, StepDepositMargin, StepWithdrawMargin
  <1>4. CASE \E b \in AdlBps : SimulateAdl(b)
    BY <1>4, StepSimulateAdl
  <1>5. CASE \E d \in SizeDeltas, limit \in AcceptablePrices : Trade(d, limit)
    BY <1>5, StepTrade
  <1>6. CASE Liquidate
    BY <1>6, StepLiquidate
  <1>7. CASE (\E p \in Prices : FeedAnswers(p)) \/ Tick \/ UNCHANGED vars
    BY <1>7, StepEnvironment
  <1> QED BY <1>1, <1>2, <1>3, <1>4, <1>5, <1>6, <1>7 DEF Next

-----------------------------------------------------------------------------
(***************************************************************************)
(* Theorems                                                                *)
(***************************************************************************)

\* The venue's storage keeps the ranges of its Solidity types; in particular
\* neither the pool nor the insurance fund is ever driven below zero.
THEOREM TypeCorrect == Spec => []TypeOK
  <1>1. IInv => TypeOK
    BY DEF IInv
  <1> QED BY <1>1, IInvInit, IInvStep, PTL DEF Spec

\* The identity the comment in _applyFill claims holds through every sequence of
\* deposits, trades, funding, auto-deleveraging, liquidations and bad debt.
THEOREM ConservationHolds == Spec => []Conservation
  <1>1. IInv => Conservation
    BY DEF IInv, Books, Owned, Conservation
  <1> QED BY <1>1, IInvInit, IInvStep, PTL DEF Spec

\* The statistics PositionManager reads explain every unit of margin.
THEOREM MarginAttributionHolds == Spec => []MarginAttribution
  <1>1. IInv => MarginAttribution
    BY FieldTypes, PerpMarketAssumption
       DEF IInv, TypeOK, Books, Unexplained, MarginAttribution
  <1> QED BY <1>1, IInvInit, IInvStep, PTL DEF Spec

\* Open interest and entry price follow the position.
THEOREM OpenInterestHolds == Spec => []OpenInterestMatches
  <1>1. IInv => OpenInterestMatches
    BY DEF IInv, Books, InterestOK, OpenInterestMatches
  <1> QED BY <1>1, IInvInit, IInvStep, PTL DEF Spec

-----------------------------------------------------------------------------
(***************************************************************************)
(* The entry the adapter reports.  The stored entry is that of an open     *)
(* position only: the average of a growing position stays between the      *)
(* marks it was built at, a shrinking position keeps it, and a flipped one *)
(* starts over.                                                            *)
(***************************************************************************)

\* Nothing about the position changes when funding is settled.
LEMMA SettledFields ==
    ASSUME TypeOK
    PROVE  /\ Settled.size = m.size /\ Settled.entryPrice = m.entryPrice
           /\ Settled.margin = m.margin + fundingOwed(m.size, pendingIndex(m) - m.lastFundingIndex)
           /\ Settled.lastFundingIndex = pendingIndex(m)
           /\ Settled.cumulativeFundingIndex = pendingIndex(m)
           /\ Settled.lastFundingUpdate = now
           /\ Settled.fundingRatePer8h = m.fundingRatePer8h
  <1>1. m \in Market
    BY DEF TypeOK
  <1> DEFINE u == updateFunding(m)
  <1>2. /\ u.size = m.size /\ u.entryPrice = m.entryPrice /\ u.margin = m.margin
        /\ u.lastFundingIndex = m.lastFundingIndex
        /\ u.cumulativeFundingIndex = pendingIndex(m)
        /\ u.lastFundingUpdate = now /\ u.fundingRatePer8h = m.fundingRatePer8h
    BY <1>1 DEF updateFunding, Market
  <1>3. u \in Market
    BY <1>1, UpdateFundingBooks DEF SameBooks
  <1> HIDE DEF u
  <1>4. /\ settleFunding(u).size = u.size /\ settleFunding(u).entryPrice = u.entryPrice
        /\ settleFunding(u).margin = u.margin + owedNow(u)
        /\ settleFunding(u).lastFundingIndex = u.cumulativeFundingIndex
        /\ settleFunding(u).cumulativeFundingIndex = u.cumulativeFundingIndex
        /\ settleFunding(u).lastFundingUpdate = u.lastFundingUpdate
        /\ settleFunding(u).fundingRatePer8h = u.fundingRatePer8h
    BY <1>3 DEF settleFunding, Market
  <1>5. owedNow(u) = fundingOwed(m.size, pendingIndex(m) - m.lastFundingIndex)
    BY <1>2 DEF owedNow
  <1> QED BY <1>2, <1>4, <1>5 DEF Settled, u

\* A floored weighted average lies between the values it averages.
LEMMA AverageBetween ==
    ASSUME NEW a \in Nat, NEW b \in Nat, a + b # 0, NEW x \in Nat, NEW y \in Nat,
           NEW lo \in Nat, NEW hi \in Nat, lo <= x, lo <= y, x <= hi, y <= hi
    PROVE  /\ lo <= (a * x + b * y) \div (a + b)
           /\ (a * x + b * y) \div (a + b) <= hi
  <1>1. a * lo <= a * x /\ a * x <= a * hi /\ b * lo <= b * y /\ b * y <= b * hi
    BY MulMono
  <1>2. a + b \in Nat \ {0} /\ a * x + b * y \in Nat
    BY MulNat
  <1>3. a * lo + b * lo = lo * (a + b) /\ a * hi + b * hi = hi * (a + b)
    OBVIOUS
  <1>4. a * lo \in Nat /\ b * lo \in Nat /\ a * hi \in Nat /\ b * hi \in Nat
        /\ a * x \in Nat /\ b * y \in Nat
    BY MulNat
  <1>5. lo * (a + b) <= a * x + b * y /\ a * x + b * y <= hi * (a + b)
    <2>1. a * lo + b * lo <= a * x + b * y /\ a * x + b * y <= a * hi + b * hi
      BY <1>1, <1>4
    <2> QED BY <1>3, <2>1
  <1> QED BY <1>2, <1>5, DivAtLeast, DivAtMost

\* The stored entry of an open position lies between marks it was built at.
MarkInv == m.size # 0 => \E lo, hi \in openMarks :
                             lo <= adapter.markEntryPrice /\ adapter.markEntryPrice <= hi

LEMMA MarkTrade ==
    ASSUME IInv, MarkInv, NEW d \in SizeDeltas, NEW limit \in AcceptablePrices, Trade(d, limit)
    PROVE  MarkInv'
  <1> DEFINE exec == executionPrice(d)
             s == Settled.size
             e == adapter.markEntryPrice
  <1>1. TypeOK /\ CanSettle /\ d \in Int /\ d # 0
    BY PerpMarketAssumption DEF IInv, Trade
  <1>2. Settled \in Market /\ s = m.size /\ s \in Int
    BY <1>1, SettledBooks, SettledFields, FieldTypes DEF SameBooks
  <1>3. CanFill(Settled, d, exec) /\ exec \in Nat
    BY <1>1, ExecutionPriceType DEF Trade, CanFill
  <1>4. m'.size = s + d
    <2> DEFINE f == applyFill(Settled, d, exec)
    <2>1. f \in Market /\ f.size = s + d
      BY <1>1, <1>2, <1>3, FillBooks DEF SameBooks
    <2> HIDE DEF f
    <2>2. chargeFee(f, takerFee(d, exec)).size = f.size
      BY <2>1 DEF chargeFee, Market
    <2> QED BY <2>1, <2>2 DEF Trade, f
  <1>5. adapter'.markEntryPrice = tradeEntry(s, e, d, price)
    BY DEF Trade, adapterAfterTrade
  <1>6. openMarks' = IF m'.size = 0 THEN {}
                     ELSE IF (m'.size > 0) # (s > 0) \/ s = 0 THEN {price}
                     ELSE IF Increases(s, d) THEN openMarks \cup {price}
                     ELSE openMarks
    BY DEF Trade
  <1>7. e \in Nat /\ price \in Nat /\ openMarks \subseteq Nat
    BY <1>1, PerpMarketAssumption DEF TypeOK
  <1> SUFFICES ASSUME s + d # 0
               PROVE  \E lo, hi \in openMarks' :
                          lo <= adapter'.markEntryPrice /\ adapter'.markEntryPrice <= hi
    BY <1>4 DEF MarkInv
  <1> HIDE DEF s, e
  <1>8. CASE s = 0 \/ ((s + d > 0) # (s > 0))
    <2>1. openMarks' = {price}
      BY <1>4, <1>6, <1>8
    <2>2. tradeEntry(s, e, d, price) = price
      <3>1. CASE s = 0
        <4>1. abs(s) * e + abs(d) * price = price * (abs(s) + abs(d)) /\ abs(s) + abs(d) \in Nat \ {0}
          BY <1>1, <1>7, <3>1 DEF abs
        <4>2. (abs(s) * e + abs(d) * price) \div (abs(s) + abs(d)) = price
          <5>1. \A n \in Nat, k \in Nat \ {0} : (n * k) \div k = n
            OBVIOUS
          <5> QED BY <1>7, <4>1, <5>1
        <4> QED BY <3>1, <4>2 DEF tradeEntry, Increases
      <3>2. CASE s # 0
        BY <1>1, <1>2, <1>8, <3>2 DEF tradeEntry, Increases
      <3> QED BY <3>1, <3>2
    <2> QED BY <1>5, <1>7, <2>1, <2>2
  <1>9. CASE s # 0 /\ (s + d > 0) = (s > 0) /\ Increases(s, d)
    <2>1. openMarks' = openMarks \cup {price}
      BY <1>4, <1>6, <1>9
    <2>2. PICK lo, hi \in openMarks : lo <= e /\ e <= hi
      BY <1>2, <1>9 DEF MarkInv, e
    <2>3. PICK low \in openMarks', high \in openMarks' :
              low <= e /\ low <= price /\ e <= high /\ price <= high
      <3>1. lo \in Nat /\ hi \in Nat
        BY <1>7
      <3>2. \E low \in {lo, price} : low <= e /\ low <= price
        BY <1>7, <2>2, <3>1
      <3>3. \E high \in {hi, price} : e <= high /\ price <= high
        BY <1>7, <2>2, <3>1
      <3> QED BY <2>1, <3>2, <3>3
    <2>4. low \in Nat /\ high \in Nat
      BY <1>7, <2>1
    <2>5. abs(s) \in Nat /\ abs(d) \in Nat /\ abs(s) + abs(d) # 0
      BY <1>1, <1>2, AbsType DEF abs
    <2>6. /\ low <= (abs(s) * e + abs(d) * price) \div (abs(s) + abs(d))
          /\ (abs(s) * e + abs(d) * price) \div (abs(s) + abs(d)) <= high
      BY <1>7, <2>3, <2>4, <2>5, AverageBetween
    <2>7. tradeEntry(s, e, d, price) = (abs(s) * e + abs(d) * price) \div (abs(s) + abs(d))
      BY <1>9 DEF tradeEntry
    <2> QED BY <1>5, <2>3, <2>6, <2>7
  <1>10. CASE s # 0 /\ (s + d > 0) = (s > 0) /\ ~Increases(s, d)
    <2>1. openMarks' = openMarks
      BY <1>4, <1>6, <1>10
    <2>2. tradeEntry(s, e, d, price) = e
      BY <1>10 DEF tradeEntry
    <2> QED BY <1>2, <1>5, <1>10, <2>1, <2>2 DEF MarkInv, e
  <1> QED BY <1>8, <1>9, <1>10

\* What auto-deleveraging takes off a position: never more than there is.
LEMMA ReduceBounds ==
    ASSUME NEW q \in Int, NEW b \in Nat, b <= BPS
    PROVE  /\ mulDivSigned(q, b, BPS) \in Int
           /\ q >= 0 => 0 <= mulDivSigned(q, b, BPS) /\ mulDivSigned(q, b, BPS) <= q
           /\ q < 0 => q <= mulDivSigned(q, b, BPS) /\ mulDivSigned(q, b, BPS) <= 0
  <1>1. \A n \in Nat : (n * b) \div BPS \in Nat /\ (n * b) \div BPS <= n
    <2> SUFFICES ASSUME NEW n \in Nat PROVE (n * b) \div BPS \in Nat /\ (n * b) \div BPS <= n
      OBVIOUS
    <2>1. n * b \in Nat /\ n * b <= n * BPS
      BY MulNat, MulMono, UnitsAssumption
    <2> QED BY <2>1, DivNat, DivAtMost, UnitsAssumption
  <1>2. abs(q) \in Nat /\ (q >= 0 => abs(q) = q) /\ (q < 0 => abs(q) = -q)
    BY AbsType DEF abs
  <1>3. CASE q >= 0
    BY <1>1, <1>3 DEF mulDivSigned
  <1>4. CASE q < 0
    <2>1. (abs(q) * b) \div BPS \in Nat /\ (abs(q) * b) \div BPS <= -q
      BY <1>1, <1>2, <1>4
    <2> QED BY <1>4, <2>1 DEF mulDivSigned
  <1> QED BY <1>3, <1>4

\* Auto-deleveraging in full: either the account was flat and is settled, or the
\* position shrinks towards zero.
LEMMA AdlShrinks ==
    ASSUME IInv, NEW b \in AdlBps, SimulateAdl(b)
    PROVE  /\ m'.size \in Int
           /\ m.size >= 0 => 0 <= m'.size /\ m'.size <= m.size
           /\ m.size < 0 => m.size <= m'.size /\ m'.size <= 0
  <1> DEFINE s == Settled.size
             t == mulDivSigned(s, b, BPS)
  <1>1. TypeOK /\ CanSettle /\ b \in Nat /\ b <= BPS
    BY PerpMarketAssumption DEF IInv, SimulateAdl
  <1>2. Settled \in Market /\ s = m.size /\ s \in Int
    BY <1>1, SettledBooks, SettledFields, FieldTypes DEF SameBooks
  <1>3. CASE m' = Settled
    BY <1>2, <1>3
  <1>4. CASE CanFill(Settled, -t, price) /\ m' = applyFill(Settled, -t, price)
    <2>1. t \in Int /\ (s >= 0 => 0 <= t /\ t <= s) /\ (s < 0 => s <= t /\ t <= 0)
      BY <1>1, <1>2, ReduceBounds
    <2>2. price \in Nat
      BY <1>1, PerpMarketAssumption DEF TypeOK
    <2> HIDE DEF t
    <2>3. m'.size = s + (-t)
      BY <1>2, <1>4, <2>1, <2>2, FillBooks
    <2> QED BY <1>2, <2>1, <2>3
  <1> QED BY <1>3, <1>4 DEF SimulateAdl

\* Every other transaction leaves the position or flattens it.
LEMMA MarkStep == IInv /\ MarkInv /\ [Next]_vars => MarkInv'
  <1> SUFFICES ASSUME IInv, MarkInv, [Next]_vars PROVE MarkInv'
    OBVIOUS
  <1>1. TypeOK /\ m \in Market
    BY DEF IInv, TypeOK
  <1>2. ASSUME m'.size = m.size, adapter' = adapter, openMarks' = openMarks PROVE MarkInv'
    BY <1>2 DEF MarkInv
  <1>3. CASE \/ \E p \in ParamChoices : SetParams(p)
             \/ (\E p \in Prices : FeedAnswers(p)) \/ Tick \/ UNCHANGED vars
    BY <1>2, <1>3 DEF SetParams, FeedAnswers, Tick, vars
  <1>4. ASSUME NEW r \in Rates, SetFundingRate(r) PROVE MarkInv'
    <2>1. m'.size = m.size
      BY <1>1, <1>4 DEF SetFundingRate, updateFunding, Market
    <2> QED BY <1>2, <1>4, <2>1 DEF SetFundingRate
  <1>5. ASSUME NEW a \in Amounts, FundPool(a) PROVE MarkInv'
    <2>1. m'.size = m.size
      BY <1>1, <1>5 DEF FundPool, Market
    <2> QED BY <1>2, <1>5, <2>1 DEF FundPool
  <1>6. ASSUME NEW a \in Amounts, DepositMargin(a) \/ WithdrawMargin(a) PROVE MarkInv'
    <2>1. Settled \in Market /\ Settled.size = m.size
      BY <1>1, <1>6, SettledBooks, SettledFields DEF SameBooks, DepositMargin, WithdrawMargin
    <2>2. m'.size = m.size
      BY <1>6, <2>1 DEF DepositMargin, WithdrawMargin, Market
    <2> QED BY <1>2, <1>6, <2>2 DEF DepositMargin, WithdrawMargin
  <1>7. ASSUME NEW b \in AdlBps, SimulateAdl(b) PROVE MarkInv'
    <2>1. adapter' = adapter /\ openMarks' = IF m'.size = 0 THEN {} ELSE openMarks
      BY <1>7 DEF SimulateAdl
    <2>2. m'.size # 0 => m.size # 0
      BY <1>1, <1>7, AdlShrinks, FieldTypes
    <2> QED BY <2>1, <2>2 DEF MarkInv
  <1>8. ASSUME NEW d \in SizeDeltas, NEW limit \in AcceptablePrices, Trade(d, limit)
        PROVE  MarkInv'
    BY <1>8, MarkTrade
  <1>9. ASSUME Liquidate PROVE MarkInv'
    BY <1>9, StepLiquidate DEF MarkInv
  <1> QED BY <1>3, <1>4, <1>5, <1>6, <1>7, <1>8, <1>9 DEF Next

\* The entry the adapter reports belongs to the position that is open now.
THEOREM MarkEntryHolds == Spec => []MarkEntryFromThisPosition
  <1>1. Init => MarkInv
    BY DEF Init, MarkInv
  <1>2. MarkInv => MarkEntryFromThisPosition
    BY DEF MarkInv, MarkEntryFromThisPosition, markEntry
  <1> QED BY <1>1, <1>2, IInvInit, IInvStep, MarkStep, PTL DEF Spec

-----------------------------------------------------------------------------
(***************************************************************************)
(* Equity.  Settling funding turns what is owed into margin and leaves     *)
(* nothing pending, so equity does not move; every other change of equity  *)
(* is a payment or a fill.                                                 *)
(***************************************************************************)

LEMMA PendingIndexType ==
    ASSUME TypeOK, NEW v \in Market PROVE pendingIndex(v) \in Int
  <1>1. updateFunding(v) \in Market
    BY UpdateFundingBooks DEF SameBooks
  <1>2. updateFunding(v).cumulativeFundingIndex = pendingIndex(v)
    BY DEF updateFunding, Market
  <1> QED BY <1>1, <1>2, FieldTypes

LEMMA EquityType ==
    ASSUME TypeOK, NEW v \in Market PROVE equity(v) \in Int
  <1>1. price \in Nat /\ pendingIndex(v) - v.lastFundingIndex \in Int
    BY PendingIndexType, FieldTypes, PerpMarketAssumption DEF TypeOK
  <1>2. /\ pnl(v.size, v.entryPrice, price) \in Int
        /\ fundingOwed(v.size, pendingIndex(v) - v.lastFundingIndex) \in Int
    BY <1>1, PnlType, FundingOwedType, FieldTypes
  <1> QED BY <1>2, FieldTypes DEF equity

\* Once the index is up to date it has nothing pending.
LEMMA NothingPending ==
    ASSUME TypeOK, NEW v \in Market, v.lastFundingUpdate = now
    PROVE  pendingIndex(v) = v.cumulativeFundingIndex
  BY DEF pendingIndex, Elapsed, Pos, TypeOK

LEMMA SettlingKeepsEquity ==
    ASSUME TypeOK, CanSettle
    PROVE  Settled \in Market /\ equity(Settled) = equity(m)
  <1>1. Settled \in Market /\ m \in Market
    BY SettledBooks DEF SameBooks, TypeOK
  <1> DEFINE owed == fundingOwed(m.size, pendingIndex(m) - m.lastFundingIndex)
  <1>2. /\ Settled.size = m.size /\ Settled.entryPrice = m.entryPrice
        /\ Settled.margin = m.margin + owed
        /\ Settled.lastFundingIndex = pendingIndex(m)
        /\ Settled.cumulativeFundingIndex = pendingIndex(m)
        /\ Settled.lastFundingUpdate = now
    BY SettledFields
  <1>3. pendingIndex(Settled) - Settled.lastFundingIndex = 0
    BY <1>1, <1>2, NothingPending, PendingIndexType
  <1>4. fundingOwed(Settled.size, pendingIndex(Settled) - Settled.lastFundingIndex) = 0
    BY <1>3 DEF fundingOwed
  <1>5. m.margin \in Int /\ owed \in Int /\ pnl(m.size, m.entryPrice, price) \in Int
    <2>1. pendingIndex(m) - m.lastFundingIndex \in Int /\ price \in Nat
      BY <1>1, PendingIndexType, FieldTypes, PerpMarketAssumption DEF TypeOK
    <2> QED BY <1>1, <2>1, FundingOwedType, PnlType, FieldTypes
  <1>6. equity(m) = m.margin + pnl(m.size, m.entryPrice, price) + owed
    BY DEF equity
  <1>7. equity(Settled) = m.margin + owed + pnl(m.size, m.entryPrice, price) + 0
    BY <1>2, <1>4 DEF equity
  <1> HIDE DEF owed
  <1> QED BY <1>1, <1>5, <1>6, <1>7

\* Equity reads six fields of the account and of the venue.
LEMMA EquityReads ==
    ASSUME NEW v, NEW w,
           v.margin = w.margin, v.size = w.size, v.entryPrice = w.entryPrice,
           pendingIndex(v) = pendingIndex(w), v.lastFundingIndex = w.lastFundingIndex
    PROVE  equity(v) = equity(w)
  BY DEF equity

\* In one block at one price the equity after a step is that of the new account.
LEMMA EquityNext ==
    ASSUME price' = price, now' = now
    PROVE  equity(m)' = equity(m')
  BY DEF equity, pendingIndex, Elapsed

\* Changing the rate settles the index first, so the time that went by is
\* priced at the old rate.
LEMMA RateKeepsEquity ==
    ASSUME IInv, NEW r \in Rates, SetFundingRate(r)
    PROVE  /\ m' \in Market /\ m'.size = m.size
           /\ equity(m') = equity(m)
           /\ price' = price /\ now' = now /\ params' = params
  <1> DEFINE u == updateFunding(m)
  <1>1. TypeOK /\ m \in Market /\ r \in Int
    BY PerpMarketAssumption DEF IInv, TypeOK
  <1>2. u \in Market
    BY <1>1, UpdateFundingBooks DEF SameBooks
  <1>3. /\ u.size = m.size /\ u.entryPrice = m.entryPrice /\ u.margin = m.margin
        /\ u.lastFundingIndex = m.lastFundingIndex
        /\ u.cumulativeFundingIndex = pendingIndex(m) /\ u.lastFundingUpdate = now
    BY <1>1 DEF updateFunding, Market
  <1>4. m' = [u EXCEPT !.fundingRatePer8h = r]
    BY DEF SetFundingRate
  <1> HIDE DEF u
  <1>5. m' \in Market
    BY Zenon, <1>1, <1>2, <1>4 DEF Market
  <1>6. /\ m'.size = m.size /\ m'.entryPrice = m.entryPrice /\ m'.margin = m.margin
        /\ m'.lastFundingIndex = m.lastFundingIndex
        /\ m'.cumulativeFundingIndex = pendingIndex(m) /\ m'.lastFundingUpdate = now
    BY <1>2, <1>3, <1>4 DEF Market
  <1>7. pendingIndex(m') = pendingIndex(m)
    BY <1>1, <1>5, <1>6, NothingPending
  <1>8. equity(m') = equity(m)
    BY <1>6, <1>7, EquityReads
  <1> QED BY <1>5, <1>6, <1>8 DEF SetFundingRate

\* A new funding rate never prices time that has already gone by.
THEOREM NoRetroactiveFundingHolds == Spec => NoRetroactiveFunding
  <1>1. ASSUME IInv, [Next]_vars, m.fundingRatePer8h # m'.fundingRatePer8h
        PROVE  equity(m)' = equity(m)
    <2>1. TypeOK /\ m \in Market
      BY <1>1 DEF IInv, TypeOK
    <2>2. \/ \E r \in Rates : SetFundingRate(r)
          \/ m'.fundingRatePer8h = m.fundingRatePer8h
      <3>1. CASE CanSettle
        <4>1. Settled \in Market /\ Settled.fundingRatePer8h = m.fundingRatePer8h
          BY <2>1, <3>1, SettledBooks, SettledFields DEF SameBooks
        <4>2. ASSUME NEW d, NEW p
              PROVE  applyFill(Settled, d, p).fundingRatePer8h = m.fundingRatePer8h
          BY <4>1 DEF applyFill, Market
        <4>3. ASSUME NEW d, NEW p, NEW fee
              PROVE  chargeFee(applyFill(Settled, d, p), fee).fundingRatePer8h
                     = m.fundingRatePer8h
          BY <4>1 DEF chargeFee, applyFill, Market
        <4>4. ASSUME NEW d, NEW p, NEW c
              PROVE  writeOff(chargePenalty(applyFill(Settled, d, p), c)).fundingRatePer8h
                     = m.fundingRatePer8h
          BY <4>1 DEF writeOff, chargePenalty, applyFill, Market
        <4>5. ASSUME NEW a \in Amounts, FundPool(a) \/ DepositMargin(a) \/ WithdrawMargin(a)
              PROVE  m'.fundingRatePer8h = m.fundingRatePer8h
          BY <2>1, <4>1, <4>5 DEF FundPool, DepositMargin, WithdrawMargin, Market
        <4>6. ASSUME NEW b \in AdlBps, SimulateAdl(b)
              PROVE  m'.fundingRatePer8h = m.fundingRatePer8h
          BY <4>1, <4>2, <4>6 DEF SimulateAdl
        <4>7. ASSUME NEW d \in SizeDeltas, NEW limit \in AcceptablePrices, Trade(d, limit)
              PROVE  m'.fundingRatePer8h = m.fundingRatePer8h
          BY <4>3, <4>7 DEF Trade
        <4>8. ASSUME Liquidate PROVE m'.fundingRatePer8h = m.fundingRatePer8h
          BY <4>4, <4>8 DEF Liquidate
        <4> QED
          BY <1>1, <4>5, <4>6, <4>7, <4>8 DEF Next, SetParams, FeedAnswers, Tick, vars
      <3>2. CASE ~CanSettle
        BY <1>1, <2>1, <3>2
           DEF Next, SetParams, FeedAnswers, Tick, vars, FundPool, DepositMargin,
               WithdrawMargin, SimulateAdl, Trade, Liquidate, Market
      <3> QED BY <3>1, <3>2
    <2>3. PICK r \in Rates : SetFundingRate(r)
      BY <1>1, <2>2
    <2> QED BY <1>1, <2>3, RateKeepsEquity, EquityNext
  <1>2. IInv /\ [Next]_vars =>
            [m.fundingRatePer8h # m'.fundingRatePer8h => equity(m)' = equity(m)]_vars
    BY <1>1
  <1> QED BY <1>2, IInvInit, IInvStep, PTL DEF Spec, NoRetroactiveFunding

-----------------------------------------------------------------------------
(***************************************************************************)
(* No self-inflicted liquidation.  The initial margin ratio is at least    *)
(* the maintenance ratio in every installed parameter set, so an account   *)
(* that passes the check of a withdrawal or of a risk-increasing trade is  *)
(* not liquidatable at the same price.                                     *)
(***************************************************************************)

LEMMA ParamsStep == ValidParams(params) /\ [Next]_vars => ValidParams(params)'
  BY DEF ValidParams, Next, SetParams, SetFundingRate, FundPool, DepositMargin,
         WithdrawMargin, SimulateAdl, Trade, Liquidate, FeedAnswers, Tick, vars

LEMMA CeilMono ==
    ASSUME NEW a \in Nat, NEW b \in Nat, a <= b, NEW d \in Nat \ {0}
    PROVE  CeilDiv(a, d) <= CeilDiv(b, d)
  <1>1. CeilDiv(b, d) \in Nat /\ b <= CeilDiv(b, d) * d
    BY CeilBounds
  <1>2. CeilDiv(b, d) * d \in Nat
    BY <1>1, MulNat
  <1>3. a <= CeilDiv(b, d) * d
    BY <1>1, <1>2
  <1> QED BY <1>1, <1>3, CeilAtMost

LEMMA InitialCoversMaintenance ==
    ASSUME TypeOK, ValidParams(params), NEW q \in Int
    PROVE  /\ marginReq(q, params.initialMarginBps) \in Nat
           /\ marginReq(q, params.maintenanceMarginBps) \in Nat
           /\ marginReq(q, params.initialMarginBps)
                >= marginReq(q, params.maintenanceMarginBps)
  <1> DEFINE n == notional(q, price)
             i == params.initialMarginBps
             k == params.maintenanceMarginBps
  <1>1. i \in Nat /\ k \in Nat /\ i >= k
    BY PerpMarketAssumption DEF TypeOK, MarketParams, ValidParams
  <1>2. n \in Nat
    BY NotionalType, PerpMarketAssumption DEF TypeOK
  <1>3. marginReq(q, i) = CeilDiv(n * i, BPS) /\ marginReq(q, k) = CeilDiv(n * k, BPS)
    BY DEF marginReq
  <1> HIDE DEF n, i, k
  <1>4. n * i \in Nat /\ n * k \in Nat /\ n * k <= n * i
    BY <1>1, <1>2, MulNat, MulMono
  <1>5. /\ CeilDiv(n * i, BPS) \in Nat /\ CeilDiv(n * k, BPS) \in Nat
        /\ CeilDiv(n * k, BPS) <= CeilDiv(n * i, BPS)
    BY <1>4, CeilMono, CeilDivType, UnitsAssumption
  <1> QED BY <1>3, <1>5 DEF i, k

\* The account is at or above its maintenance margin.
Healthy(v) == equity(v) >= marginReq(v.size, params.maintenanceMarginBps)

LEMMA InitialMarginIsHealthy ==
    ASSUME TypeOK, ValidParams(params), NEW v \in Market, MeetsInitialMargin(v)
    PROVE  Healthy(v)
  BY InitialCoversMaintenance, EquityType, FieldTypes DEF MeetsInitialMargin, Healthy

LEMMA HealthyNotLiquidatable ==
    ASSUME TypeOK, ValidParams(params), NEW v \in Market, v.size # 0
    PROVE  isLiquidatable(v) <=> ~Healthy(v)
  BY InitialCoversMaintenance, EquityType, FieldTypes DEF isLiquidatable, Healthy

\* A fill of nothing changes nothing that equity reads.
LEMMA EmptyFill ==
    ASSUME TypeOK, NEW v \in Market, NEW p \in Nat, v.size # 0
    PROVE  equity(applyFill(v, 0, p)) = equity(v)
  <1> DEFINE w == applyFill(v, 0, p)
  <1>1. v.size \in Int /\ v.entryPrice \in Nat /\ v.margin \in Int
    BY FieldTypes
  <1>2. tradeRealized(v.size, v.entryPrice, 0, p) = 0
    <2>1. Min2(abs(0), abs(v.size)) = 0
      BY <1>1 DEF Min2, abs
    <2> QED BY <2>1 DEF tradeRealized, pnl
  <1>3. tradeEntry(v.size, v.entryPrice, 0, p) = v.entryPrice
    <2>1. CASE Increases(v.size, 0)
      <3>1. /\ abs(v.size) \in Nat \ {0}
            /\ abs(v.size) * v.entryPrice + abs(0) * p = v.entryPrice * (abs(v.size) + abs(0))
            /\ abs(v.size) + abs(0) \in Nat \ {0}
        BY <1>1 DEF abs
      <3>2. \A n \in Nat, k \in Nat \ {0} : (n * k) \div k = n
        OBVIOUS
      <3>3. (abs(v.size) * v.entryPrice + abs(0) * p) \div (abs(v.size) + abs(0)) = v.entryPrice
        BY <1>1, <3>1, <3>2
      <3> QED BY <1>1, <2>1, <3>3 DEF tradeEntry
    <2>2. CASE ~Increases(v.size, 0)
      BY <1>1, <2>2 DEF tradeEntry
    <2> QED BY <2>1, <2>2
  <1>4. /\ w.size = v.size /\ w.entryPrice = v.entryPrice /\ w.margin = v.margin
        /\ w.lastFundingIndex = v.lastFundingIndex
        /\ w.cumulativeFundingIndex = v.cumulativeFundingIndex
        /\ w.lastFundingUpdate = v.lastFundingUpdate
        /\ w.fundingRatePer8h = v.fundingRatePer8h
    BY <1>1, <1>2, <1>3 DEF applyFill, Market
  <1> HIDE DEF w
  <1>5. pendingIndex(w) = pendingIndex(v)
    BY <1>4 DEF pendingIndex, Elapsed
  <1>6. equity(w) = equity(v)
    BY <1>4, <1>5, EquityReads
  <1> QED BY <1>6 DEF w

\* A payment moves equity by its amount.
LEMMA PaymentMovesEquity ==
    ASSUME TypeOK, NEW v \in Market, NEW x \in Int
    PROVE  /\ [v EXCEPT !.margin = @ + x] \in Market
           /\ equity([v EXCEPT !.margin = @ + x]) = equity(v) + x
           /\ [v EXCEPT !.margin = @ + x].size = v.size
  <1> DEFINE w == [v EXCEPT !.margin = @ + x]
  <1>1. w \in Market
    BY MarginBooks
  <1>2. /\ w.margin = v.margin + x /\ w.size = v.size /\ w.entryPrice = v.entryPrice
        /\ w.lastFundingIndex = v.lastFundingIndex
        /\ w.cumulativeFundingIndex = v.cumulativeFundingIndex
        /\ w.lastFundingUpdate = v.lastFundingUpdate
        /\ w.fundingRatePer8h = v.fundingRatePer8h
    BY DEF Market
  <1> HIDE DEF w
  <1>3. pendingIndex(w) = pendingIndex(v)
    BY <1>2 DEF pendingIndex, Elapsed
  <1>4. /\ v.margin \in Int /\ pnl(v.size, v.entryPrice, price) \in Int
        /\ fundingOwed(v.size, pendingIndex(v) - v.lastFundingIndex) \in Int
    <2>1. price \in Nat /\ pendingIndex(v) - v.lastFundingIndex \in Int
      BY PendingIndexType, FieldTypes, PerpMarketAssumption DEF TypeOK
    <2> QED BY <2>1, PnlType, FundingOwedType, FieldTypes
  <1>5. equity(w) = equity(v) + x
    BY <1>2, <1>3, <1>4 DEF equity
  <1> QED BY <1>1, <1>2, <1>5 DEF w

\* No transaction that keeps or increases the position makes the account unhealthy.
LEMMA StaysHealthy ==
    ASSUME IInv, ValidParams(params), [Next]_vars, m' # m,
           price' = price, now' = now, params' = params,
           m'.size # 0, IncreasesRisk(m.size, m'.size) \/ m'.size = m.size,
           ~isLiquidatable(m)
    PROVE  Healthy(m')
  <1>1. TypeOK /\ m \in Market
    BY DEF IInv, TypeOK
  <1>2. m.size = m'.size => Healthy(m)
    BY <1>1, HealthyNotLiquidatable
  <1>3. ASSUME NEW r \in Rates, SetFundingRate(r) PROVE Healthy(m')
    <2>1. m'.size = m.size /\ equity(m') = equity(m)
      BY <1>3, RateKeepsEquity
    <2> QED BY <1>2, <2>1 DEF Healthy
  <1>4. ASSUME NEW a \in Amounts, FundPool(a) PROVE Healthy(m')
    <2>1. /\ m'.size = m.size /\ m'.margin = m.margin /\ m'.entryPrice = m.entryPrice
          /\ m'.lastFundingIndex = m.lastFundingIndex
          /\ m'.cumulativeFundingIndex = m.cumulativeFundingIndex
          /\ m'.lastFundingUpdate = m.lastFundingUpdate
          /\ m'.fundingRatePer8h = m.fundingRatePer8h
      BY <1>1, <1>4 DEF FundPool, Market
    <2>2. pendingIndex(m') = pendingIndex(m)
      BY <2>1 DEF pendingIndex, Elapsed
    <2>3. equity(m') = equity(m)
      BY <2>1, <2>2, EquityReads
    <2> QED BY <1>2, <2>1, <2>3 DEF Healthy
  <1>5. ASSUME NEW a \in Amounts, DepositMargin(a) PROVE Healthy(m')
    <2>1. CanSettle /\ a \in Nat /\ m' = [Settled EXCEPT !.margin = @ + a]
      BY <1>5, PerpMarketAssumption DEF DepositMargin
    <2>2. Settled \in Market /\ equity(Settled) = equity(m) /\ Settled.size = m.size
      BY <1>1, <2>1, SettlingKeepsEquity, SettledFields
    <2>3. equity(m') = equity(m) + a /\ m'.size = m.size
      <3>1. a \in Int
        BY <2>1
      <3> QED BY <1>1, <2>1, <2>2, <3>1, PaymentMovesEquity
    <2>4. equity(m) \in Int /\ marginReq(m.size, params.maintenanceMarginBps) \in Nat
      BY <1>1, EquityType, InitialCoversMaintenance, FieldTypes
    <2> QED BY <1>2, <2>1, <2>3, <2>4 DEF Healthy
  <1>6. ASSUME NEW a \in Amounts, WithdrawMargin(a) PROVE Healthy(m')
    <2>1. CanSettle /\ a \in Nat /\ m' = [Settled EXCEPT !.margin = @ - a]
      BY <1>6, PerpMarketAssumption DEF WithdrawMargin
    <2>2. Settled \in Market
      BY <1>1, <2>1, SettlingKeepsEquity
    <2>3. m' \in Market
      <3>1. m' = [Settled EXCEPT !.margin = @ + (-a)] /\ -a \in Int
        <4>1. Settled.margin - a = Settled.margin + (-a)
          BY <2>1, <2>2, FieldTypes
        <4> QED BY <2>1, <4>1
      <3> QED BY <1>1, <2>2, <3>1, PaymentMovesEquity
    <2>4. m'.size = Settled.size
      BY <2>1, <2>2 DEF Market
    <2>5. MeetsInitialMargin(m')
      BY <1>6, <2>4 DEF WithdrawMargin
    <2> QED BY <1>1, <2>3, <2>5, InitialMarginIsHealthy
  <1>7. ASSUME NEW b \in AdlBps, SimulateAdl(b) PROVE Healthy(m')
    <2> DEFINE reduce == -mulDivSigned(Settled.size, b, BPS)
    <2>1. CanSettle /\ b \in Nat /\ b <= BPS /\ price \in Nat
      BY <1>1, <1>7, PerpMarketAssumption DEF SimulateAdl, TypeOK
    <2>2. Settled \in Market /\ equity(Settled) = equity(m) /\ Settled.size = m.size
      BY <1>1, <2>1, SettlingKeepsEquity, SettledFields
    <2>3. m'.size = m.size
      <3>1. /\ m'.size \in Int /\ m.size \in Int
            /\ m.size >= 0 => 0 <= m'.size /\ m'.size <= m.size
            /\ m.size < 0 => m.size <= m'.size /\ m'.size <= 0
        BY <1>1, <1>7, AdlShrinks, FieldTypes
      <3>2. ~IncreasesRisk(m.size, m'.size)
        BY <3>1 DEF IncreasesRisk, abs
      <3> QED BY <3>2
    <2>4. CASE m' = Settled
      BY <1>2, <2>2, <2>4 DEF Healthy
    <2>5. CASE CanFill(Settled, reduce, price) /\ m' = applyFill(Settled, reduce, price)
      <3>1. reduce \in Int
        BY <2>1, <2>2, FieldTypes, ReduceBounds
      <3> HIDE DEF reduce
      <3>2. m'.size = Settled.size + reduce
        BY <2>1, <2>2, <2>5, <3>1, FillBooks
      <3>3. reduce = 0
        BY <2>2, <2>3, <3>1, <3>2, FieldTypes
      <3>4. equity(m') = equity(m)
        BY <1>1, <2>1, <2>2, <2>3, <2>5, <3>3, EmptyFill
      <3> QED BY <1>2, <2>3, <3>4 DEF Healthy
    <2> QED BY <1>7, <2>4, <2>5 DEF SimulateAdl
  <1>8. ASSUME NEW d \in SizeDeltas, NEW limit \in AcceptablePrices, Trade(d, limit)
        PROVE  Healthy(m')
    <2> DEFINE exec == executionPrice(d)
               f == applyFill(Settled, d, exec)
               fee == takerFee(d, exec)
    <2>1. CanSettle /\ d \in Int /\ d # 0
      BY <1>8, PerpMarketAssumption DEF Trade
    <2>2. Settled \in Market /\ Settled.size = m.size
      BY <1>1, <2>1, SettlingKeepsEquity, SettledFields
    <2>3. CanFill(Settled, d, exec) /\ exec \in Nat
      BY <1>1, <1>8, <2>1, ExecutionPriceType DEF Trade, CanFill
    <2>4. f \in Market /\ f.size = m.size + d
      BY <2>1, <2>2, <2>3, FillBooks DEF SameBooks
    <2>5. fee \in Nat /\ m' = chargeFee(f, fee)
      BY <1>1, <1>8, <2>1, <2>3, TakerFeeType DEF Trade
    <2>6. IncreasesRisk(Settled.size, m'.size) => MeetsInitialMargin(m')
      BY <1>8 DEF Trade
    <2> HIDE DEF f, fee
    <2>7. m' \in Market /\ m'.size = m.size + d
      <3>1. m' \in Market
        BY <2>4, <2>5, FeeBooks DEF SameBooks
      <3>2. m'.size = f.size
        BY <2>4, <2>5 DEF chargeFee, Market
      <3> QED BY <2>4, <3>1, <3>2
    <2>8. IncreasesRisk(m.size, m'.size)
      BY <1>1, <2>1, <2>7, FieldTypes
    <2> QED BY <1>1, <2>2, <2>6, <2>7, <2>8, InitialMarginIsHealthy
  <1>9. ASSUME Liquidate PROVE FALSE
    BY <1>9, StepLiquidate
  <1>10. ASSUME \/ \E p \in ParamChoices : SetParams(p)
                \/ (\E p \in Prices : FeedAnswers(p)) \/ Tick \/ UNCHANGED vars
         PROVE  FALSE
    BY <1>10 DEF SetParams, FeedAnswers, Tick, vars
  <1> QED BY <1>3, <1>4, <1>5, <1>6, <1>7, <1>8, <1>9, <1>10 DEF Next

\* The account's owner cannot make a healthy account liquidatable in the same
\* block by posting, withdrawing or increasing a position.
THEOREM NoSelfInflictedLiquidationHolds == Spec => NoSelfInflictedLiquidation
  <1> DEFINE Owners == /\ m' # m
                       /\ UNCHANGED <<price, now, params>>
                       /\ price > 0
                       /\ m'.size # 0
                       /\ IncreasesRisk(m.size, m'.size) \/ m'.size = m.size
                       /\ ~isLiquidatable(m)
  <1>1. ASSUME IInv, IInv', ValidParams(params), [Next]_vars, Owners
        PROVE  ~isLiquidatable(m)'
    <2>1. Healthy(m')
      BY <1>1, StaysHealthy
    <2>2. TypeOK /\ m' \in Market
      BY <1>1 DEF IInv, TypeOK
    <2>3. ~isLiquidatable(m')
      BY <1>1, <2>1, <2>2, HealthyNotLiquidatable
    <2>4. isLiquidatable(m)' = isLiquidatable(m')
      BY <1>1 DEF isLiquidatable, marginReq, equity, pendingIndex, Elapsed
    <2> QED BY <2>3, <2>4
  <1>2. IInv /\ IInv' /\ ValidParams(params) /\ [Next]_vars
        => [Owners => ~isLiquidatable(m)']_vars
    BY <1>1
  <1>3. Init => ValidParams(params)
    BY DEF Init
  <1> QED
    BY <1>2, <1>3, IInvInit, IInvStep, ParamsStep, PTL DEF Spec, NoSelfInflictedLiquidation

-----------------------------------------------------------------------------
(***************************************************************************)
(* Average-entry accounting against the cash a position's fills move.      *)
(* What a fill books and what it moves differ by one rounding: of the new  *)
(* entry when the position grows, of the profit when it shrinks.           *)
(***************************************************************************)
Within(x, k) == -k <= x /\ x <= k

LEMMA WithinAdds ==
    ASSUME NEW x \in Int, NEW y \in Int, NEW k \in Int, NEW l \in Int, Within(x, k), Within(y, l)
    PROVE  Within(x + y, k + l)
  BY DEF Within

\* A profit is rounded toward zero by less than one unit of money.
LEMMA PnlRounds ==
    ASSUME NEW q \in Int, NEW avg \in Nat, NEW p \in Nat
    PROVE  LET off == pnl(q, avg, p) * QTY_PRICE_TO_USD6 - q * (p - avg)
           IN  /\ Within(off, QTY_PRICE_TO_USD6)
               /\ off < QTY_PRICE_TO_USD6 /\ off > -QTY_PRICE_TO_USD6
  <1> DEFINE U == QTY_PRICE_TO_USD6
             a == abs(q)
             g == abs(p - avg)
             mag == (a * g) \div U
             r == pnl(q, avg, p)
  <1>1. U \in Nat \ {0} /\ a \in Nat /\ g \in Nat
    BY UnitType, AbsType
  <1>2. a * g \in Nat
    BY <1>1, MulNat
  <1>3. r = IF q = 0 \/ p = avg THEN 0 ELSE IF (q > 0) = (p > avg) THEN mag ELSE -mag
    BY DEF pnl
  <1>4. (q >= 0 => a = q) /\ (q < 0 => a = -q) /\ (p >= avg => g = p - avg) /\ (p < avg => g = avg - p)
    BY DEF abs
  <1> HIDE DEF U, a, g, r
  <1>5. mag \in Nat /\ mag * U <= a * g /\ a * g < mag * U + U
    BY <1>1, <1>2, DivBounds
  <1> HIDE DEF mag
  <1>6. CASE q = 0 \/ p = avg
    <2>1. q * (p - avg) = 0 /\ r = 0
      BY <1>3, <1>6
    <2>2. Within(r * U - q * (p - avg), U) /\ r * U - q * (p - avg) < U /\ r * U - q * (p - avg) > -U
      BY <1>1, <2>1 DEF Within
    <2> QED BY <2>2 DEF U, r
  <1>7. CASE (q > 0 /\ p > avg) \/ (q < 0 /\ p < avg)
    <2>1. r = mag
      BY <1>3, <1>7
    <2>2. q * (p - avg) = a * g
      BY <1>4, <1>7
    <2>3. Within(r * U - q * (p - avg), U) /\ r * U - q * (p - avg) < U /\ r * U - q * (p - avg) > -U
      BY <1>1, <1>2, <1>5, <2>1, <2>2 DEF Within
    <2> QED BY <2>3 DEF U, r
  <1>8. CASE (q > 0 /\ p < avg) \/ (q < 0 /\ p > avg)
    <2>1. r = -mag
      BY <1>3, <1>8
    <2>2. q * (p - avg) = -(a * g)
      BY <1>4, <1>8
    <2>3. r * U = -(mag * U)
      BY <1>1, <1>5, <2>1
    <2>4. Within(r * U - q * (p - avg), U) /\ r * U - q * (p - avg) < U /\ r * U - q * (p - avg) > -U
      BY <1>1, <1>2, <1>5, <2>2, <2>3 DEF Within
    <2> QED BY <2>4 DEF U, r
  <1> QED BY <1>6, <1>7, <1>8

\* The average of a grown position is rounded by less than one unit of price.
LEMMA AverageRounds ==
    ASSUME NEW q \in Int, NEW avg \in Nat, NEW delta \in Int, NEW p \in Nat, Increases(q, delta)
    PROVE  Within(q * avg + delta * p - (q + delta) * tradeEntry(q, avg, delta, p), abs(q + delta))
  <1> DEFINE a == abs(q)
             c == abs(delta)
             X == a * avg + c * p
             n == a + c
             e == tradeEntry(q, avg, delta, p)
             s == q + delta
  <1>1. a \in Nat /\ c \in Nat /\ X \in Nat /\ n \in Nat /\ e \in Nat /\ s \in Int
    <2>1. a \in Nat /\ c \in Nat
      BY AbsType
    <2>2. e \in Nat
      BY EntryType
    <2> HIDE DEF a, c, e
    <2>3. X \in Nat /\ n \in Nat /\ s \in Int
      BY <2>1
    <2> QED BY <2>1, <2>2, <2>3
  <1>2. CASE s = 0
    <2>1. q = 0 /\ delta = 0
      BY <1>2 DEF Increases
    <2> HIDE DEF a, c, X, n, e, s
    <2>2. q * avg = 0 /\ delta * p = 0 /\ s * e = 0
      BY <1>1, <1>2, <2>1
    <2>3. abs(s) = 0
      BY <1>2 DEF abs
    <2>4. Within(q * avg + delta * p - s * e, abs(s))
      BY <2>2, <2>3 DEF Within
    <2> QED BY <2>4 DEF s, e
  <1>3. CASE s # 0
    <2>1. e = X \div n
      BY <1>3 DEF tradeEntry
    <2>2. (q >= 0 /\ delta >= 0) \/ (q <= 0 /\ delta <= 0)
      BY DEF Increases
    <2>3. n # 0 /\ ((s = n /\ abs(s) = n /\ q = a /\ delta = c) \/ (s = -n /\ abs(s) = n /\ q = -a /\ delta = -c))
      BY <1>3, <2>2 DEF abs
    <2> HIDE DEF X, n, e, s, a, c
    <2>4. e * n <= X /\ X < e * n + n
      BY <1>1, <2>1, <2>3, DivBounds
    <2>5. CASE s = n /\ abs(s) = n /\ q = a /\ delta = c
      <3>1. q * avg + delta * p = X
        BY <2>5 DEF X
      <3>2. s * e = e * n
        BY <1>1, <2>5
      <3>3. Within(X - e * n, n)
        BY <1>1, <2>4 DEF Within
      <3>4. q * avg + delta * p - s * e = X - e * n
        BY <1>1, <3>1, <3>2
      <3>5. Within(q * avg + delta * p - s * e, abs(s))
        BY <2>5, <3>3, <3>4, Zenon
      <3> QED BY <3>5 DEF s, e
    <2>6. CASE s = -n /\ abs(s) = n /\ q = -a /\ delta = -c
      <3>1. q * avg + delta * p = -X
        BY <1>1, <2>6 DEF X
      <3>2. s * e = -(e * n)
        BY <1>1, <2>6
      <3>3. Within((-X) - (-(e * n)), n)
        BY <1>1, <2>4 DEF Within
      <3>4. q * avg + delta * p - s * e = (-X) - (-(e * n))
        BY <1>1, <3>1, <3>2
      <3>5. Within(q * avg + delta * p - s * e, abs(s))
        BY <2>6, <3>3, <3>4, Zenon
      <3> QED BY <3>5 DEF s, e
    <2> QED BY <2>3, <2>5, <2>6
  <1> QED BY <1>2, <1>3

LEMMA FillRounds ==
    ASSUME NEW q \in Int, NEW avg \in Nat, NEW delta \in Int, NEW p \in Nat, NEW k \in Nat, abs(q + delta) <= k
    PROVE  Within(tradeRealized(q, avg, delta, p) * QTY_PRICE_TO_USD6
                  + q * avg + delta * p - (q + delta) * tradeEntry(q, avg, delta, p),
                  k + QTY_PRICE_TO_USD6)
  <1> DEFINE U == QTY_PRICE_TO_USD6
             r == tradeRealized(q, avg, delta, p)
             e == tradeEntry(q, avg, delta, p)
             s == q + delta
             closed == IF q > 0 THEN Min2(abs(delta), abs(q)) ELSE -Min2(abs(delta), abs(q))
  <1>1. U \in Nat \ {0} /\ s \in Int /\ e \in Nat /\ r \in Int
    <2>1. U \in Nat \ {0} /\ s \in Int
      BY UnitType
    <2>2. e \in Nat
      BY EntryType
    <2>3. r \in Int
      BY RealizedType
    <2> QED BY <2>1, <2>2, <2>3
  <1>2. CASE Increases(q, delta)
    <2>1. r = 0
      BY <1>2 DEF tradeRealized
    <2>2. Within(q * avg + delta * p - s * e, abs(s))
      BY <1>2, AverageRounds
    <2>3. abs(s) \in Nat /\ abs(s) <= k
      BY <1>1, AbsType
    <2>4. q * avg \in Int /\ delta * p \in Int /\ s * e \in Int /\ r * U = 0
      BY <1>1, <2>1
    <2> HIDE DEF U, r, e, s
    <2>5. Within(r * U + q * avg + delta * p - s * e, k + U)
      BY <1>1, <2>2, <2>3, <2>4 DEF Within
    <2> QED BY <2>5 DEF U, r, e, s
  <1>3. CASE ~Increases(q, delta)
    <2>1. r = pnl(closed, avg, p) /\ closed \in Int
      BY <1>3, AbsType DEF tradeRealized, Min2
    <2>2. \/ s = 0 /\ closed = q
          \/ s # 0 /\ e = avg /\ closed = -delta
          \/ s # 0 /\ e = p /\ closed = q
      BY <1>3 DEF tradeEntry, Increases, Min2, abs
    <2>3. Within(pnl(closed, avg, p) * U - closed * (p - avg), U)
      BY <2>1, PnlRounds
    <2>4. r * U \in Int /\ q * avg \in Int /\ delta * p \in Int /\ q * p \in Int /\ delta * avg \in Int
      BY <1>1
    <2> HIDE DEF U, r, e, closed
    <2>5. q * avg + delta * p - s * e = -(closed * (p - avg))
      <3>1. CASE s = 0 /\ closed = q
        <4>1. delta = -q /\ s * e = 0
          BY <1>1, <3>1
        <4>2. delta * p = -(q * p) /\ q * (p - avg) = q * p - q * avg
          BY <4>1
        <4> QED BY <2>4, <3>1, <4>1, <4>2
      <3>2. CASE e = avg /\ closed = -delta
        <4>1. s * avg = q * avg + delta * avg
          OBVIOUS
        <4>2. closed * (p - avg) = -(delta * p) + delta * avg
          BY <3>2
        <4> QED BY <2>4, <3>2, <4>1, <4>2
      <3>3. CASE e = p /\ closed = q
        <4>1. s * p = q * p + delta * p /\ q * (p - avg) = q * p - q * avg
          OBVIOUS
        <4> QED BY <2>4, <3>3, <4>1
      <3> QED BY <2>2, <3>1, <3>2, <3>3
    <2>6. closed * (p - avg) \in Int
      BY <2>1
    <2>7. s * e \in Int
      BY <1>1
    <2> HIDE DEF s
    <2>8. Within(r * U + q * avg + delta * p - s * e, k + U)
      BY <1>1, <2>1, <2>3, <2>4, <2>5, <2>6, <2>7 DEF Within
    <2> QED BY <2>8 DEF U, r, e, s
  <1> QED BY <1>2, <1>3

PositionInv ==
    /\ size \in Int /\ entry \in Nat /\ realized \in Int /\ cash \in Int
    /\ fills \in Nat
    /\ Within(realized * QTY_PRICE_TO_USD6 - cash - size * entry, fills * (MaxSize + QTY_PRICE_TO_USD6))

LEMMA PositionInitHolds == PositionInit => PositionInv
  <1> SUFFICES ASSUME PositionInit PROVE PositionInv
    OBVIOUS
  <1> DEFINE U == QTY_PRICE_TO_USD6
  <1>1. U \in Nat /\ MaxSize \in Nat
    BY UnitType, PositionAssumption
  <1> HIDE DEF U
  <1>2. 0 * U - 0 - 0 * 0 = 0 /\ 0 * (MaxSize + U) = 0
    BY <1>1
  <1>3. Within(0 * U - 0 - 0 * 0, 0 * (MaxSize + U))
    BY <1>2 DEF Within
  <1> QED BY <1>3 DEF PositionInit, PositionInv, U

LEMMA FillHolds ==
    ASSUME PositionInv, NEW d \in PositionDeltas, NEW p \in FillPrices, Fill(d, p) PROVE PositionInv'
  <1> DEFINE U == QTY_PRICE_TO_USD6
             r == tradeRealized(size, entry, d, p)
             e == tradeEntry(size, entry, d, p)
             s == size + d
             old == realized * U - cash - size * entry
             diff == r * U + size * entry + d * p - s * e
             K == MaxSize + U
  <1>1. /\ size \in Int /\ entry \in Nat /\ realized \in Int /\ cash \in Int /\ fills \in Nat
        /\ d \in Int /\ p \in Nat /\ MaxSize \in Nat /\ U \in Nat /\ K \in Nat
    BY UnitType, PositionAssumption DEF PositionInv
  <1>2. r \in Int /\ e \in Nat /\ s \in Int
    <2>1. r \in Int
      BY <1>1, RealizedType
    <2>2. e \in Nat
      BY <1>1, EntryType
    <2>3. s \in Int
      BY <1>1
    <2> QED BY <2>1, <2>2, <2>3
  <1>3. Within(old, fills * K)
    BY DEF PositionInv
  <1>4. Within(diff, K)
    BY <1>1, FillRounds DEF Fill
  <1>5. /\ size' = s /\ entry' = e /\ realized' = realized + r /\ cash' = cash - d * p
        /\ fills' = fills + 1
    BY DEF Fill
  <1> HIDE DEF U, r, e, s, K
  <1>6. /\ realized * U \in Int /\ r * U \in Int /\ size * entry \in Int /\ d * p \in Int /\ s * e \in Int
        /\ fills * K \in Int /\ (realized + r) * U = realized * U + r * U /\ (fills + 1) * K = fills * K + K
    BY <1>1, <1>2
  <1>7. (realized + r) * U - (cash - d * p) - s * e = old + diff
    BY <1>1, <1>6
  <1>8. old \in Int /\ diff \in Int
    BY <1>1, <1>6
  <1> HIDE DEF old, diff
  <1>9. Within((realized + r) * U - (cash - d * p) - s * e, (fills + 1) * K)
    BY <1>1, <1>3, <1>4, <1>6, <1>7, <1>8, WithinAdds
  <1>10. Within(realized' * U - cash' - size' * entry', fills' * K)
    BY <1>5, <1>9
  <1>11. size' \in Int /\ entry' \in Nat /\ realized' \in Int /\ cash' \in Int /\ fills' \in Nat
    BY <1>1, <1>2, <1>5, <1>6
  <1> QED BY <1>10, <1>11 DEF PositionInv, U, K

LEMMA PositionAccounts == ASSUME PositionInv PROVE AccountingMatchesCashFlow
  <1> SUFFICES ASSUME NEW mark \in MarkPrices
               PROVE  abs((realized + pnl(size, entry, mark)) * QTY_PRICE_TO_USD6 - (cash + size * mark))
                      <= fills * MaxSize + (fills + 1) * QTY_PRICE_TO_USD6
    BY DEF AccountingMatchesCashFlow
  <1> DEFINE U == QTY_PRICE_TO_USD6
             w == pnl(size, entry, mark)
             old == realized * U - cash - size * entry
             x == w * U - size * (mark - entry)
  <1>1. /\ size \in Int /\ entry \in Nat /\ realized \in Int /\ cash \in Int /\ fills \in Nat
        /\ mark \in Nat /\ MaxSize \in Nat /\ U \in Nat
    BY UnitType, PositionAssumption DEF PositionInv
  <1>2. w \in Int
    BY <1>1, PnlType
  <1>3. Within(old, fills * (MaxSize + U)) /\ Within(x, U)
    BY <1>1, PnlRounds DEF PositionInv
  <1> HIDE DEF U, w
  <1>4. /\ realized * U \in Int /\ w * U \in Int /\ size * entry \in Int /\ size * mark \in Int
        /\ fills * MaxSize \in Int /\ fills * U \in Int
        /\ (realized + w) * U = realized * U + w * U /\ size * (mark - entry) = size * mark - size * entry
        /\ fills * (MaxSize + U) = fills * MaxSize + fills * U /\ (fills + 1) * U = fills * U + U
    BY <1>1, <1>2
  <1>5. (realized + w) * U - (cash + size * mark) = old + x
    BY <1>1, <1>4
  <1>6. old \in Int /\ x \in Int
    BY <1>1, <1>4
  <1> HIDE DEF old, x
  <1>7. Within(old + x, fills * MaxSize + (fills + 1) * U)
    BY <1>1, <1>3, <1>4, <1>6 DEF Within
  <1>8. old + x \in Int /\ fills * MaxSize + (fills + 1) * U \in Int
    BY <1>1, <1>4, <1>6
  <1>9. abs(old + x) <= fills * MaxSize + (fills + 1) * U
    BY <1>7, <1>8 DEF Within, abs
  <1> QED BY <1>5, <1>9 DEF U, w

(* Whatever sequence of fills builds, grows, shrinks, closes and flips a
   position, the profit PerpMath books and shows is the cash that moved plus the
   value of what is held, but for one rounding per fill: money is neither made
   nor lost by averaging the entry. *)
THEOREM AccountingHolds == PositionSpec => []AccountingMatchesCashFlow
  <1>1. PositionInv /\ [PositionNext]_positionVars => PositionInv'
    <2> SUFFICES ASSUME PositionInv, [PositionNext]_positionVars PROVE PositionInv'
      OBVIOUS
    <2>1. CASE PositionNext
      BY <2>1, FillHolds DEF PositionNext
    <2>2. CASE UNCHANGED positionVars
      BY <2>2 DEF positionVars, PositionInv
    <2> QED BY <2>1, <2>2
  <1>2. PositionInv => AccountingMatchesCashFlow
    BY PositionAccounts
  <1> QED BY PositionInitHolds, <1>1, <1>2, PTL DEF PositionSpec

-----------------------------------------------------------------------------
(***************************************************************************)
(* The liquidation price.  The account's margin above its requirement is   *)
(* linear in the price; what isLiquidatable reads differs from it by the   *)
(* two money roundings, what liquidationPrice divides by those of the      *)
(* entry notional and of the divisor.                                      *)
(***************************************************************************)

\* Equity less requirement, without roundings, in units of quantity * price * ratio.
headroom(em, p) ==
    BPS * (em * QTY_PRICE_TO_USD6 + size * (p - entry)) - abs(size) * p * MM_BPS

\* Beyond two money units of headroom either way, isLiquidatable's answer is its sign.
LEMMA HeadroomDecides ==
    ASSUME PositionInv, NEW em \in Int, NEW p \in Nat
    PROVE  /\ headroom(em, p) <= -(2 * QTY_PRICE_TO_USD6 * BPS) => BelowMaintenance(em, p)
           /\ headroom(em, p) >= 2 * QTY_PRICE_TO_USD6 * BPS => ~BelowMaintenance(em, p)
  <1> DEFINE U == QTY_PRICE_TO_USD6
             s == abs(size)
             g == pnl(size, entry, p)
             N == notional(size, p)
             R == CeilDiv(N * MM_BPS, BPS)
             v == size * (p - entry)
             sp == s * p
  <1>1. /\ U \in Nat \ {0} /\ BPS \in Nat \ {0} /\ MM_BPS \in 0..BPS /\ s \in Nat /\ size \in Int
        /\ entry \in Nat /\ g \in Int /\ N \in Nat /\ v \in Int /\ sp \in Nat
    <2>1. size \in Int /\ entry \in Nat
      BY DEF PositionInv
    <2>2. s \in Nat /\ g \in Int /\ N \in Nat
      BY <2>1, AbsType, PnlType, NotionalType
    <2>3. sp \in Nat
      BY <2>2, MulNat
    <2>4. v \in Int
      BY <2>1
    <2> QED BY <2>1, <2>2, <2>3, <2>4, UnitType, UnitsAssumption, PositionAssumption
  <1>2. g * U < v + U /\ g * U > v - U
    <2>1. g * U - v < U /\ g * U - v > -U
      BY <1>1, PnlRounds
    <2> HIDE DEF g, U, v
    <2>2. g * U \in Int
      BY <1>1
    <2> QED BY <1>1, <2>1, <2>2
  <1>3. N * U <= sp /\ sp < N * U + U
    <2> HIDE DEF U
    <2>1. N = sp \div U
      BY DEF notional, U
    <2> HIDE DEF N, sp
    <2> QED BY <1>1, <2>1, DivBounds
  <1>4. R \in Int /\ R * BPS >= N * MM_BPS /\ R * BPS < N * MM_BPS + BPS
    <2> HIDE DEF N
    <2>1. N * MM_BPS \in Nat
      BY <1>1, MulNat
    <2>2. N * MM_BPS + BPS - 1 \in Nat /\ R = (N * MM_BPS + BPS - 1) \div BPS
      BY <1>1, <2>1 DEF CeilDiv
    <2> DEFINE a == N * MM_BPS
    <2> HIDE DEF R, a
    <2>3. R \in Nat /\ R * BPS <= a + BPS - 1 /\ a + BPS - 1 < R * BPS + BPS
      BY <1>1, <2>2, DivBounds DEF a
    <2> QED BY <1>1, <2>1, <2>3 DEF a
  <1>5. BelowMaintenance(em, p) <=> em + g < R
    BY DEF BelowMaintenance
  <1>6. headroom(em, p) = BPS * (em * U + v) - sp * MM_BPS
    BY DEF headroom
  <1> HIDE DEF U, s, g, N, R, v, sp
  <1> DEFINE mU == em * U
             gU == g * U
             NU == N * U
             k == (em + g) * BPS
             X == BPS * (mU + v)
             spm == sp * MM_BPS
             NUm == NU * MM_BPS
             UB == U * BPS
             Nm == N * MM_BPS
  <1>7. /\ mU \in Int /\ gU \in Int /\ NU \in Int /\ k \in Int /\ X \in Int /\ spm \in Int /\ NUm \in Int
        /\ UB \in Nat \ {0} /\ Nm \in Int /\ R * BPS \in Int
    BY <1>1, <1>4, MulPos
  <1>8. k * U = X + BPS * (gU - v)
    <2>1. k * U = BPS * (mU + gU)
      BY <1>1
    <2>2. BPS * (mU + gU) = X + BPS * (gU - v)
      <3> HIDE DEF mU, gU
      <3> QED BY <1>1, <1>7
    <2> QED BY <2>1, <2>2
  <1>9. k * U < X + UB /\ k * U > X - UB
    <2> DEFINE d == gU - v
    <2>1. d \in Int /\ d < U /\ -d < U
      BY <1>1, <1>2, <1>7
    <2> HIDE DEF d
    <2>2. BPS * d < BPS * U /\ BPS * (-d) < BPS * U /\ BPS * (-d) = -(BPS * d) /\ BPS * d \in Int
          /\ BPS * U = U * BPS
      BY <1>1, <2>1
    <2>3. k * U = X + BPS * d
      BY <1>8 DEF d
    <2> HIDE DEF k, X
    <2> QED BY <1>7, <2>2, <2>3
  <1>10. spm >= NUm /\ spm <= NUm + UB
    <2>1. NU \in Nat /\ sp >= NU /\ sp <= NU + U
      BY <1>1, <1>3, MulNat
    <2> HIDE DEF NU
    <2>2. sp * MM_BPS >= NU * MM_BPS /\ sp * MM_BPS <= (NU + U) * MM_BPS
      BY <1>1, <2>1, MulMono
    <2>3. (NU + U) * MM_BPS = NU * MM_BPS + U * MM_BPS /\ U * MM_BPS <= U * BPS
      BY <1>1, <2>1, MulMono
    <2>4. U * MM_BPS \in Int
      BY <1>1
    <2> QED BY <1>7, <2>2, <2>3, <2>4
  <1>11. Nm * U = NUm
    BY <1>1
  <1>12. ASSUME em + g >= R PROVE X - spm > -(2 * UB)
    <2>1. k >= R * BPS
      BY <1>1, <1>4, <1>12, MulMono
    <2>2. k >= Nm
      BY <1>4, <1>7, <2>1
    <2>3. k * U >= Nm * U
      <3> HIDE DEF k, Nm
      <3> QED BY <1>1, <1>7, <2>2, MulMono
    <2>4. k * U \in Int
      BY <1>1, <1>7
    <2> HIDE DEF k, X, spm, NUm, UB, Nm
    <2> QED BY <1>7, <1>9, <1>10, <1>11, <2>3, <2>4
  <1>13. ASSUME em + g < R PROVE X - spm < 2 * UB
    <2>1. em + g + 1 <= R
      BY <1>1, <1>4, <1>13
    <2>2. (em + g + 1) * BPS <= R * BPS /\ (em + g + 1) * BPS = k + BPS
      BY <1>1, <1>4, <2>1, MulMono
    <2>3. k <= Nm
      BY <1>1, <1>4, <1>7, <2>2
    <2>4. k * U <= Nm * U
      <3> HIDE DEF k, Nm
      <3> QED BY <1>1, <1>7, <2>3, MulMono
    <2>5. k * U \in Int
      BY <1>1, <1>7
    <2> HIDE DEF k, X, spm, NUm, UB, Nm
    <2> QED BY <1>7, <1>9, <1>10, <1>11, <2>4, <2>5
  <1>14. headroom(em, p) = X - spm /\ 2 * U * BPS = 2 * UB
    BY <1>1, <1>6
  <1> HIDE DEF X, spm, UB
  <1> QED BY <1>1, <1>4, <1>5, <1>7, <1>12, <1>13, <1>14 DEF U

\* The threshold in whole numbers: V is what the price has to cover, d what is
\* left of sn per unit of ratio, L the price found.
LEMMA BandSuffices ==
    ASSUME NEW d \in Nat \ {0}, NEW sn \in Nat, d * BPS <= sn, sn < d * BPS + BPS,
           NEW V \in Int, NEW L \in Nat, V < L * d + d + WAD, L > 0 => L * d <= V,
           NEW B \in Nat, NEW K \in Nat, B * d >= K + WAD, B * d >= K + L, NEW p \in Nat
    PROVE  /\ p > L + B => sn * p - BPS * V >= K * BPS
           /\ p < L - B => sn * p - BPS * V <= -(K * BPS)
  <1>0. BPS \in Nat \ {0} /\ WAD \in Nat
    BY UnitsAssumption
  <1> DEFINE dL == L * d
             dB == B * d
             dp == p * d
             z == sn * p
  <1>1. dL \in Nat /\ dB \in Nat /\ dp \in Nat /\ z \in Nat
    BY MulNat
  <1>2. ASSUME p > L + B PROVE z - BPS * V >= K * BPS
    <2>1. p >= L + B + 1
      BY <1>2
    <2>2. (L + B + 1) * d <= dp /\ (L + B + 1) * d = dL + dB + d
      BY <2>1, MulMono
    <2>3. dp >= V + K
      <3> HIDE DEF dL, dB, dp
      <3>1. dL + dB + d <= dp
        BY <2>2
      <3>2. dB >= K + WAD /\ V < dL + d + WAD
        BY DEF dB, dL
      <3> QED BY <1>0, <1>1, <3>1, <3>2
    <2>4. z >= (d * BPS) * p /\ (d * BPS) * p = dp * BPS
      BY <1>0, MulMono
    <2>5. dp * BPS >= (V + K) * BPS /\ (V + K) * BPS = BPS * V + K * BPS
      <3> HIDE DEF dp
      <3> QED BY <1>0, <1>1, <2>3, MulMono
    <2>6. BPS * V \in Int /\ K * BPS \in Int /\ dp * BPS \in Int
      BY <1>0, <1>1
    <2> HIDE DEF z, dp
    <2> QED BY <1>0, <1>1, <2>4, <2>5, <2>6
  <1>3. ASSUME p < L - B PROVE z - BPS * V <= -(K * BPS)
    <2>1. L > 0 /\ p + B + 1 <= L /\ p <= L
      BY <1>3
    <2>2. (p + B + 1) * d <= dL /\ (p + B + 1) * d = dp + dB + d
      BY <2>1, MulMono
    <2>3. dp + p <= V - K
      <3> HIDE DEF dL, dB, dp
      <3>1. dp + dB + d <= dL
        BY <2>2
      <3>2. dB >= K + L /\ dL <= V
        BY <2>1 DEF dB, dL
      <3> QED BY <1>0, <1>1, <2>1, <3>1, <3>2
    <2>4. z <= (d * BPS + BPS) * p /\ (d * BPS + BPS) * p = (dp + p) * BPS
      BY <1>0, MulMono
    <2>5. (dp + p) * BPS <= (V - K) * BPS /\ (V - K) * BPS = BPS * V - K * BPS
      <3> HIDE DEF dp
      <3> QED BY <1>0, <1>1, <2>3, MulMono
    <2>6. BPS * V \in Int /\ K * BPS \in Int /\ (dp + p) * BPS \in Int
      BY <1>0, <1>1
    <2> HIDE DEF z, dp
    <2> QED BY <1>0, <1>1, <2>4, <2>5, <2>6
  <1> QED BY <1>2, <1>3

\* What the price has to cover, and what a price unit covers of it, in units of
\* quantity * price: with both, headroom is linear in the price.
Covered(em) == abs(size) * entry + (IF size > 0 THEN -(em * QTY_PRICE_TO_USD6) ELSE em * QTY_PRICE_TO_USD6)
Covers == abs(size) * (IF size > 0 THEN BPS - MM_BPS ELSE BPS + MM_BPS)

\* The source's divisor is what a price unit covers, per unit of ratio, rounded down.
LEMMA SlopeDivides ==
    ASSUME PositionInv, Slope > 0
    PROVE  /\ Slope \in Nat \ {0} /\ Covers \in Nat /\ size # 0
           /\ Slope * BPS <= Covers /\ Covers < Slope * BPS + BPS
  <1>1. size \in Int /\ BPS \in Nat \ {0} /\ MM_BPS \in 0..BPS /\ abs(size) \in Nat
    BY UnitsAssumption, PositionAssumption, AbsType DEF PositionInv
  <1>2. Covers \in Nat
    <2>1. BPS - MM_BPS \in Nat /\ BPS + MM_BPS \in Nat
      BY <1>1
    <2>2. abs(size) * (BPS - MM_BPS) \in Nat /\ abs(size) * (BPS + MM_BPS) \in Nat
      BY <1>1, <2>1, MulNat
    <2> QED BY <2>2 DEF Covers
  <1>3. Slope = Covers \div BPS
    BY DEF Slope, Covers
  <1>4. Slope \in Nat /\ Slope * BPS <= Covers /\ Covers < Slope * BPS + BPS
    BY <1>1, <1>2, <1>3, DivBounds
  <1>5. size = 0 => Covers = 0
    BY <1>1 DEF Covers, abs
  <1>6. Covers # 0
    <2> HIDE DEF Covers
    <2>1. Slope * BPS # 0
      BY <1>1, <1>4, MulPos
    <2>2. Slope * BPS \in Nat
      BY <1>1, <1>4
    <2> QED BY <1>4, <2>1, <2>2
  <1> QED BY <1>2, <1>4, <1>5, <1>6

\* A long gains headroom with the price, a short loses it.
LEMMA HeadroomIsLinear ==
    ASSUME PositionInv, NEW em \in Int, NEW p \in Nat
    PROVE  /\ size > 0 => headroom(em, p) = Covers * p - BPS * Covered(em)
           /\ size < 0 => headroom(em, p) = BPS * Covered(em) - Covers * p
           /\ Covered(em) \in Int
  <1> DEFINE U == QTY_PRICE_TO_USD6
             mU == em * U
             sp == size * p
             se == size * entry
  <1>1. size \in Int /\ entry \in Nat /\ BPS \in Nat /\ MM_BPS \in Nat /\ U \in Nat /\ abs(size) \in Nat
    BY UnitType, UnitsAssumption, PositionAssumption, AbsType DEF PositionInv
  <1>2. mU \in Int /\ sp \in Int /\ se \in Int /\ size * (p - entry) = sp - se
    BY <1>1
  <1>3. CASE size > 0
    <2>1. abs(size) = size
      BY <1>1, <1>3 DEF abs
    <2>2. headroom(em, p) = BPS * (mU + (sp - se)) - sp * MM_BPS
      BY <1>2, <2>1 DEF headroom
    <2>3. Covered(em) = se - mU
      BY <1>2, <1>3, <2>1 DEF Covered
    <2>4. Covers * p = BPS * sp - sp * MM_BPS
      BY <1>1, <1>3, <2>1 DEF Covers
    <2> HIDE DEF mU, sp, se
    <2>5. BPS * (mU + (sp - se)) = BPS * mU + BPS * sp - BPS * se /\ BPS * (se - mU) = BPS * se - BPS * mU
      BY <1>1, <1>2
    <2>6. BPS * mU \in Int /\ BPS * sp \in Int /\ BPS * se \in Int /\ sp * MM_BPS \in Int
      BY <1>1, <1>2
    <2>7. headroom(em, p) = Covers * p - BPS * Covered(em)
      BY <2>2, <2>3, <2>4, <2>5, <2>6
    <2> QED BY <1>1, <1>2, <1>3, <2>3, <2>7
  <1>4. CASE size < 0
    <2>1. abs(size) = -size
      BY <1>1, <1>4 DEF abs
    <2>2. headroom(em, p) = BPS * (mU + (sp - se)) + sp * MM_BPS
      <3>1. abs(size) * p * MM_BPS = -(sp * MM_BPS)
        BY <1>1, <2>1
      <3>2. BPS * (mU + (sp - se)) \in Int /\ sp * MM_BPS \in Int
        BY <1>1, <1>2
      <3> QED BY <1>2, <3>1, <3>2 DEF headroom
    <2>3. Covered(em) = mU - se
      BY <1>1, <1>2, <1>4, <2>1 DEF Covered
    <2>4. Covers * p = -(BPS * sp) - sp * MM_BPS
      BY <1>1, <1>4, <2>1 DEF Covers
    <2> HIDE DEF mU, sp, se
    <2>5. BPS * (mU + (sp - se)) = BPS * mU + BPS * sp - BPS * se /\ BPS * (mU - se) = BPS * mU - BPS * se
      BY <1>1, <1>2
    <2>6. BPS * mU \in Int /\ BPS * sp \in Int /\ BPS * se \in Int /\ sp * MM_BPS \in Int
      BY <1>1, <1>2
    <2>7. headroom(em, p) = BPS * Covered(em) - Covers * p
      BY <2>2, <2>3, <2>4, <2>5, <2>6
    <2> QED BY <1>1, <1>2, <1>4, <2>3, <2>7
  <1>5. CASE size = 0
    <2>1. Covered(em) \in Int
      BY <1>1, <1>2 DEF Covered
    <2> QED BY <1>5, <2>1
  <1> QED BY <1>1, <1>3, <1>4, <1>5

\* The source's price is what has to be covered over the slope, short of it by
\* one rounding of the entry notional and one of the division.
LEMMA PriceCovers ==
    ASSUME PositionInv, Slope > 0, NEW em \in Int, NEW L, L = liquidationPrice(size, entry, em, MM_BPS)
    PROVE  /\ L \in Nat
           /\ Covered(em) < L * Slope + Slope + WAD
           /\ L > 0 => L * Slope <= Covered(em)
  <1> DEFINE sE == abs(size) * entry
             EN == sE \div WAD
             Q == em * USD6_TO_USD18
             num == IF size > 0 THEN EN - Q ELSE EN + Q
             V == Covered(em)
             d == Slope
             nW == num * WAD
  <1>1. /\ size \in Int /\ entry \in Nat /\ WAD \in Nat \ {0} /\ USD6_TO_USD18 \in Nat
        /\ sE \in Nat /\ d \in Nat \ {0} /\ size # 0 /\ Q \in Int
    <2>1. size \in Int /\ entry \in Nat /\ WAD \in Nat \ {0} /\ USD6_TO_USD18 \in Nat
      BY UnitsAssumption, ScaleAssumption DEF PositionInv
    <2>2. sE \in Nat
      BY <2>1, AbsType, MulNat
    <2> QED BY <2>1, <2>2, SlopeDivides
  <1>2. L = IF num <= 0 THEN 0 ELSE nW \div d
    BY <1>1 DEF liquidationPrice, Slope
  <1>3. V = sE + (IF size > 0 THEN -(Q * WAD) ELSE Q * WAD)
    <2>1. em * QTY_PRICE_TO_USD6 = Q * WAD
      BY <1>1 DEF QTY_PRICE_TO_USD6
    <2> QED BY <2>1 DEF Covered
  <1>4. EN \in Nat /\ EN * WAD <= sE /\ sE < EN * WAD + WAD
    <2> HIDE DEF sE
    <2> QED BY <1>1, DivBounds
  <1> HIDE DEF sE, EN, Q, V, d
  <1>5. V \in Int /\ num \in Int /\ nW \in Int /\ nW <= V /\ V < nW + WAD
    <2>1. Q * WAD \in Int /\ EN * WAD \in Int
      BY <1>1, <1>4
    <2>2. nW = EN * WAD + (IF size > 0 THEN -(Q * WAD) ELSE Q * WAD) /\ num \in Int
      BY <1>1, <1>4
    <2> HIDE DEF nW, num
    <2> QED BY <1>1, <1>3, <1>4, <2>1, <2>2
  <1>6. CASE num <= 0
    <2>1. L = 0 /\ nW <= 0
      BY <1>1, <1>2, <1>5, <1>6
    <2>2. L * d = 0
      BY <1>1, <2>1
    <2> HIDE DEF nW, num
    <2>3. V < L * d + d + WAD
      BY <1>1, <1>5, <2>1, <2>2
    <2> QED BY <2>1, <2>3 DEF V, d
  <1>7. CASE num > 0
    <2>1. nW \in Nat /\ L = nW \div d
      BY <1>1, <1>2, <1>5, <1>7
    <2> HIDE DEF nW, num
    <2>2. L \in Nat /\ L * d <= nW /\ nW < L * d + d
      BY <1>1, <2>1, DivBounds
    <2>3. L * d \in Int
      BY <1>1, <2>2
    <2>4. V < L * d + d + WAD /\ L * d <= V
      BY <1>1, <1>5, <2>1, <2>2, <2>3
    <2> QED BY <2>2, <2>4 DEF V, d
  <1> QED BY <1>5, <1>6, <1>7

\* The band holds the money roundings with either rounding of the price.
LEMMA BandCovers ==
    ASSUME PositionInv, Slope > 0, NEW L \in Nat
    PROVE  /\ Band(L) \in Nat
           /\ Band(L) * Slope >= 2 * QTY_PRICE_TO_USD6 + WAD
           /\ Band(L) * Slope >= 2 * QTY_PRICE_TO_USD6 + L
  <1> DEFINE K == 2 * QTY_PRICE_TO_USD6
             a == K + (IF L > WAD THEN L ELSE WAD)
  <1>1. K \in Nat /\ WAD \in Nat /\ Slope \in Nat \ {0}
    BY UnitType, UnitsAssumption, SlopeDivides
  <1>2. a \in Nat /\ a >= K + L /\ a >= K + WAD
    <2> HIDE DEF K
    <2> QED BY <1>1
  <1>3. Band(L) = CeilDiv(a, Slope)
    BY DEF Band
  <1> HIDE DEF a, K
  <1>4. Band(L) \in Nat /\ a <= Band(L) * Slope
    BY <1>1, <1>2, <1>3, CeilBounds
  <1>5. Band(L) * Slope \in Int
    BY <1>1, <1>4
  <1>6. Band(L) * Slope >= K + WAD /\ Band(L) * Slope >= K + L
    BY <1>1, <1>2, <1>4, <1>5
  <1> QED BY <1>4, <1>6 DEF K

\* On either side of the price, beyond the band, the answer is isLiquidatable's.
LEMMA PriceDecides ==
    ASSUME PositionInv, Slope > 0, NEW em \in Int, NEW p \in Nat, NEW L,
           L = liquidationPrice(size, entry, em, MM_BPS)
    PROVE  /\ size > 0 => /\ p > L + Band(L) => ~BelowMaintenance(em, p)
                          /\ p < L - Band(L) => BelowMaintenance(em, p)
           /\ size < 0 => /\ p > L + Band(L) => BelowMaintenance(em, p)
                          /\ p < L - Band(L) => ~BelowMaintenance(em, p)
  <1> DEFINE K == 2 * QTY_PRICE_TO_USD6
             V == Covered(em)
             B == Band(L)
             h == headroom(em, p)
             z == Covers * p - BPS * V
  <1>1. L \in Nat /\ V \in Int /\ B \in Nat /\ K \in Nat /\ BPS \in Nat /\ size \in Int
        /\ Covers \in Nat /\ Slope \in Nat \ {0}
    <2>1. L \in Nat /\ V \in Int /\ Covers \in Nat /\ Slope \in Nat \ {0}
      BY PriceCovers, HeadroomIsLinear, SlopeDivides
    <2>2. B \in Nat
      BY <2>1, BandCovers
    <2>3. K \in Nat /\ BPS \in Nat /\ size \in Int
      BY UnitType, UnitsAssumption DEF PositionInv
    <2> QED BY <2>1, <2>2, <2>3
  <1>2. /\ p > L + B => z >= K * BPS
        /\ p < L - B => z <= -(K * BPS)
    <2>1. /\ Slope * BPS <= Covers /\ Covers < Slope * BPS + BPS
          /\ V < L * Slope + Slope + WAD /\ (L > 0 => L * Slope <= V)
          /\ B * Slope >= K + WAD /\ B * Slope >= K + L
      BY <1>1, SlopeDivides, PriceCovers, BandCovers
    <2> HIDE DEF K, V, B
    <2> QED BY <1>1, <2>1, BandSuffices
  <1>3. (h <= -(K * BPS) => BelowMaintenance(em, p)) /\ (h >= K * BPS => ~BelowMaintenance(em, p))
    BY HeadroomDecides
  <1>4. (size > 0 => h = z) /\ (size < 0 => h = -z)
    <2>1. BPS * V \in Int /\ Covers * p \in Int
      BY <1>1
    <2> QED BY <2>1, HeadroomIsLinear
  <1>5. z \in Int /\ K * BPS \in Int
    BY <1>1
  <1> HIDE DEF h, z, K, B
  <1>6. /\ size > 0 => (p > L + B => ~BelowMaintenance(em, p)) /\ (p < L - B => BelowMaintenance(em, p))
        /\ size < 0 => (p > L + B => BelowMaintenance(em, p)) /\ (p < L - B => ~BelowMaintenance(em, p))
    BY <1>2, <1>3, <1>4, <1>5
  <1> QED BY <1>6 DEF B

\* The distance shown agrees with the side of the price the mark is on.
LEMMA DistanceDecides ==
    ASSUME NEW L \in Nat, NEW p \in Nat \ {0}, NEW q \in Int \ {0}
    PROVE  /\ (IF q > 0 THEN p < L ELSE p > L) => distanceBps(p, L, q) = 0
           /\ (IF q > 0 THEN p > L ELSE p < L) =>
                 distanceBps(p, L, q) > 0 \/ BPS * abs(p - L) < p
  <1>1. BPS \in Nat \ {0}
    BY UnitsAssumption
  <1>2. 0 * BPS = 0 /\ 0 \div p = 0 /\ NoDistance > 0
    BY <1>1 DEF NoDistance
  <1>3. ASSUME IF q > 0 THEN p < L ELSE p > L PROVE distanceBps(p, L, q) = 0
    <2>1. IF q > 0 THEN Pos(p - L) = 0 /\ L # 0 ELSE Pos(L - p) = 0
      BY <1>3 DEF Pos
    <2> QED BY <1>2, <2>1 DEF distanceBps
  <1>4. ASSUME IF q > 0 THEN p > L ELSE p < L, ~(BPS * abs(p - L) < p) PROVE distanceBps(p, L, q) > 0
    <2> DEFINE x == abs(p - L)
    <2>1. x \in Nat /\ (IF q > 0 THEN Pos(p - L) = x ELSE Pos(L - p) = x /\ L # 0)
      BY <1>4 DEF Pos, abs
    <2>2. p # 0
      OBVIOUS
    <2> HIDE DEF x
    <2>3. x * BPS \in Nat /\ 1 * p <= x * BPS
      BY <1>1, <1>4, <2>1 DEF x
    <2>4. (x * BPS) \div p >= 1 /\ (x * BPS) \div p \in Nat
      BY <2>3, DivAtLeast, DivNat
    <2>5. distanceBps(p, L, q) = NoDistance \/ distanceBps(p, L, q) = (x * BPS) \div p
      BY <2>1, <2>2 DEF distanceBps
    <2> QED BY <1>2, <2>4, <2>5
  <1> QED BY <1>3, <1>4

LEMMA PositionThreshold == ASSUME PositionInv PROVE LiquidationPriceIsThreshold
  <1> SUFFICES ASSUME Slope > 0, NEW margin \in Margins, NEW p \in MarkPrices, NEW L,
                      L = liquidationPrice(size, entry, margin, MM_BPS)
               PROVE  /\ (IF size > 0 THEN p < L - Band(L) ELSE p > L + Band(L))
                            => BelowMaintenance(margin, p) /\ distanceBps(p, L, size) = 0
                      /\ (IF size > 0 THEN p > L + Band(L) ELSE p < L - Band(L))
                            => /\ ~BelowMaintenance(margin, p)
                               /\ distanceBps(p, L, size) > 0 \/ BPS * abs(p - L) < p
    BY DEF LiquidationPriceIsThreshold
  <1>1. margin \in Int /\ p \in Nat \ {0} /\ size \in Int \ {0} /\ L \in Nat /\ Band(L) \in Nat
    BY PositionAssumption, SlopeDivides, PriceCovers, BandCovers DEF PositionInv
  <1>2. /\ size > 0 => /\ p > L + Band(L) => ~BelowMaintenance(margin, p)
                       /\ p < L - Band(L) => BelowMaintenance(margin, p)
        /\ size < 0 => /\ p > L + Band(L) => BelowMaintenance(margin, p)
                       /\ p < L - Band(L) => ~BelowMaintenance(margin, p)
    BY <1>1, PriceDecides
  <1>3. /\ (IF size > 0 THEN p < L ELSE p > L) => distanceBps(p, L, size) = 0
        /\ (IF size > 0 THEN p > L ELSE p < L) =>
              distanceBps(p, L, size) > 0 \/ BPS * abs(p - L) < p
    BY <1>1, DistanceDecides
  <1>4. /\ (IF size > 0 THEN p < L - Band(L) ELSE p > L + Band(L)) => (IF size > 0 THEN p < L ELSE p > L)
        /\ (IF size > 0 THEN p > L + Band(L) ELSE p < L - Band(L)) => (IF size > 0 THEN p > L ELSE p < L)
    BY <1>1
  <1> QED BY <1>1, <1>2, <1>3, <1>4

(* However a position was built, what PerpMath books for it is the cash that
   moved, and the liquidation price the planner and the risk limits rely on is
   where isLiquidatable changes its answer, whatever the margin, the mark and the
   maintenance ratio. *)
THEOREM PositionMathsAlways == EitherSpec => []PositionMathsHolds
  <1>1. EitherInit => PositionInv
    BY PositionInitHolds DEF EitherInit
  <1>2. PositionInv /\ [EitherNext]_<<subject, vars, positionVars>> => PositionInv'
    <2> SUFFICES ASSUME PositionInv, [EitherNext]_<<subject, vars, positionVars>> PROVE PositionInv'
      OBVIOUS
    <2>1. CASE PositionNext
      BY <2>1, FillHolds DEF PositionNext
    <2>2. CASE UNCHANGED positionVars
      BY <2>2 DEF positionVars, PositionInv
    <2> QED BY <2>1, <2>2 DEF EitherNext
  <1>3. PositionInv => PositionMathsHolds
    BY PositionAccounts, PositionThreshold DEF PositionMathsHolds
  <1> QED BY <1>1, <1>2, <1>3, PTL DEF EitherSpec
=============================================================================
