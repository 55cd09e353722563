------------------------------ MODULE BookProofs ------------------------------
(***************************************************************************)
(* What every step on the books of the strategy keeps, for every choice of *)
(* units, prices and plans: the linear equation between the counters of    *)
(* the five contracts, and the signs of all that is unsigned in the code.  *)
(* StrategyProofs and RiskProofs rest on it, each for its own callers.     *)
(***************************************************************************)
EXTENDS StrategyBook, TLAPS

(* What the strategy has in cash, less all that says where it came from. *)
unexplained(b) ==
    b.float + b.usdc.last - b.usdc.chk + b.margin + b.basis
    - b.netCapital - b.funding - b.realized - b.spotRealized - b.badDebt
    + b.swapFees + b.swapSlippage + b.feesPaid + b.penalties

Balanced(b) == b \in Book /\ unexplained(b) = 0 /\ b.usdc.last <= b.usdc.bal

(* What an environment must be for the arithmetic to be defined. *)
Env(e) ==
    /\ e.price \in Nat \ {0} /\ e.mark \in Nat \ {0}
    /\ \A x \in {e.feed, e.lending, e.dex, e.healthy, e.paused} : x \in BOOLEAN
    /\ e.liquid.usdc \in Int /\ e.liquid.weth \in Int

-----------------------------------------------------------------------------
(* Ranges of the arithmetic: every amount is some integer. *)

LEMMA DivInt == ASSUME NEW a \in Int, NEW d \in Nat \ {0} PROVE a \div d \in Int
  OBVIOUS

LEMMA MulInt == ASSUME NEW a \in Int, NEW b \in Int PROVE a * b \in Int
  OBVIOUS

LEMMA QType == Q \in Nat \ {0}
  BY UnitsAssumption, ScaleAssumption, MulPos DEF Q, QTY_PRICE_TO_USD6

LEMMA Ratios ==
    /\ BPS \in Nat \ {0} /\ WAD \in Nat \ {0} /\ DEPTH \in Nat \ {0}
    /\ MIN_HEDGE_TRADE_QTY \in Int
    /\ FEE \in Int /\ IMR \in Int /\ MMR \in Int /\ PENALTY \in Int
    /\ DEX_FEE \in Int /\ SPREAD \in Int /\ CAP \in Int
  <1>1. BPS \in Nat \ {0} /\ WAD \in Nat \ {0}
    BY UnitsAssumption
  <1>2. DEPTH \in Nat \ {0} /\ MIN_HEDGE_TRADE_QTY \in Int
    BY BookAssumption
  <1>3. \A r \in {FEE, IMR, MMR, PENALTY, DEX_FEE, SPREAD, CAP} : r \in 0..(BPS - 1)
    BY BookAssumption
  <1>4. \A r \in {FEE, IMR, MMR, PENALTY, DEX_FEE, SPREAD, CAP} : r \in Int
    BY <1>1, <1>3
  <1> QED BY <1>1, <1>2, <1>4

LEMMA AbsInt == ASSUME NEW x \in Int PROVE abs(x) \in Nat
  BY DEF abs

LEMMA CeilInt == ASSUME NEW a \in Int, NEW d \in Nat \ {0} PROVE CeilDiv(a, d) \in Int
  <1>1. a + d - 1 \in Int
    OBVIOUS
  <1> QED BY <1>1, DivInt DEF CeilDiv

LEMMA MinInt == ASSUME NEW a \in Int, NEW b \in Int PROVE Min2(a, b) \in Int
  BY DEF Min2

LEMMA PosInt == ASSUME NEW a \in Int PROVE Pos(a) \in Nat
  BY DEF Pos

\* a * b / d, the form of nearly every amount.
LEMMA MulDivInt ==
    ASSUME NEW a \in Int, NEW b \in Int, NEW d \in Nat \ {0}
    PROVE  (a * b) \div d \in Int /\ CeilDiv(a * b, d) \in Int
  BY MulInt, DivInt, CeilInt

LEMMA NotionalInt ==
    ASSUME NEW size \in Int, NEW price \in Int PROVE notional(size, price) \in Int
  BY AbsInt, MulDivInt, QType DEF notional, Q

LEMMA PnlInt ==
    ASSUME NEW size \in Int, NEW entry \in Int, NEW price \in Int
    PROVE  pnl(size, entry, price) \in Int
  <1>1. abs(size) \in Int /\ abs(price - entry) \in Int
    BY AbsInt
  <1>2. (abs(size) * abs(price - entry)) \div QTY_PRICE_TO_USD6 \in Int
    BY <1>1, MulDivInt, QType DEF Q
  <1> QED BY <1>2 DEF pnl

LEMMA RealizedInt ==
    ASSUME NEW size \in Int, NEW entry \in Int, NEW delta \in Int, NEW price \in Int
    PROVE  tradeRealized(size, entry, delta, price) \in Int
  <1> DEFINE q == Min2(abs(delta), abs(size))
             s == IF size > 0 THEN q ELSE -q
  <1>1. q \in Int
    BY AbsInt, MinInt
  <1>2. s \in Int
    BY <1>1
  <1>3. pnl(s, entry, price) \in Int
    BY <1>2, PnlInt
  <1> QED BY <1>3 DEF tradeRealized

LEMMA EntryInt ==
    ASSUME NEW size \in Int, NEW entry \in Int, NEW delta \in Int, NEW price \in Int
    PROVE  tradeEntry(size, entry, delta, price) \in Int
  <1>1. CASE size + delta = 0
    BY <1>1 DEF tradeEntry
  <1>2. CASE size + delta # 0
    <2>1. abs(size) + abs(delta) \in Nat \ {0}
      BY <1>2 DEF abs
    <2>2. abs(size) * entry + abs(delta) * price \in Int
      BY AbsInt, MulInt
    <2>3. (abs(size) * entry + abs(delta) * price) \div (abs(size) + abs(delta)) \in Int
      BY <2>1, <2>2, DivInt
    <2> QED BY <2>3 DEF tradeEntry
  <1> QED BY <1>1, <1>2

LEMMA ImpactInt == ASSUME NEW v \in Int PROVE impact(v) \in Int
  <1>1. (v * BPS) \div DEPTH \in Int
    BY Ratios, MulDivInt
  <1> QED BY <1>1, Ratios, MinInt DEF impact

LEMMA ExecPriceInt ==
    ASSUME NEW delta \in Int, NEW mark \in Int PROVE execPrice(delta, mark) \in Int
  <1>1. impact(notional(delta, mark)) \in Int
    BY NotionalInt, ImpactInt
  <1>2. /\ BPS + impact(notional(delta, mark)) \in Int
        /\ BPS - impact(notional(delta, mark)) \in Int
    BY <1>1, Ratios
  <1> QED BY <1>2, Ratios, MulDivInt DEF execPrice

LEMMA QuoteBuyInt ==
    ASSUME NEW x \in Int, NEW mark \in Nat \ {0} PROVE quoteBuy(x, mark) \in Int
  <1> DEFINE net == x - CeilDiv(x * DEX_FEE, BPS)
             qty == (net * Q) \div mark
             rest == BPS - impact(net)
  <1>1. net \in Int
    BY Ratios, MulDivInt
  <1>2. qty \in Int /\ rest \in Int
    BY <1>1, Ratios, QType, MulDivInt, ImpactInt
  <1>3. (qty * rest) \div BPS \in Int
    BY <1>2, Ratios, MulDivInt
  <1> QED BY <1>3 DEF quoteBuy

LEMMA QuoteSellInt ==
    ASSUME NEW qty \in Int, NEW mark \in Int PROVE quoteSell(qty, mark) \in Int
  <1> DEFINE net == qty - CeilDiv(qty * DEX_FEE, BPS)
             value == (net * mark) \div Q
             rest == BPS - impact(value)
  <1>1. net \in Int
    BY Ratios, MulDivInt
  <1>2. value \in Int
    BY <1>1, QType, MulDivInt
  <1>3. rest \in Int
    BY <1>2, Ratios, ImpactInt
  <1>4. (value * rest) \div BPS \in Int
    BY <1>2, <1>3, Ratios, MulDivInt
  <1> QED BY <1>4 DEF quoteSell

-----------------------------------------------------------------------------
(* The primitive steps: each moves amounts between the counters of the     *)
(* equation, or touches none of them.                                      *)

LEMMA BookTypes ==
    ASSUME NEW b \in Book
    PROVE  /\ b.vault \in Int /\ b.float \in Int /\ b.weth \in Int /\ b.usdc \in Loan /\ b.lent \in Loan
           /\ b.netCapital \in Int /\ b.basis \in Int /\ b.spotRealized \in Int
           /\ b.swapFees \in Int /\ b.swapSlippage \in Int
           /\ b.size \in Int /\ b.entry \in Int /\ b.margin \in Int /\ b.pending \in Int
           /\ b.realized \in Int /\ b.funding \in Int /\ b.feesPaid \in Int /\ b.penalties \in Int
           /\ b.badDebt \in Int /\ b.markEntry \in Int /\ b.slippage \in Int
           /\ b.accruing \in BOOLEAN /\ b.ok \in BOOLEAN
  BY DEF Book

LEMMA LoanTypes ==
    ASSUME NEW l \in Loan PROVE l.bal \in Int /\ l.last \in Int /\ l.chk \in Int
  BY DEF Loan

(* The terms of the equation. *)
Terms(b) ==
    /\ b.float \in Int /\ b.usdc.last \in Int /\ b.usdc.chk \in Int /\ b.margin \in Int
    /\ b.basis \in Int /\ b.netCapital \in Int /\ b.funding \in Int /\ b.realized \in Int
    /\ b.spotRealized \in Int /\ b.badDebt \in Int /\ b.swapFees \in Int
    /\ b.swapSlippage \in Int /\ b.feesPaid \in Int /\ b.penalties \in Int

LEMMA TermTypes == ASSUME NEW b \in Book PROVE Terms(b)
  BY BookTypes, LoanTypes DEF Terms

(* A checkpoint moves the growth since the last one into the interest. *)
LEMMA MovedType ==
    ASSUME NEW l \in Loan, NEW x \in Int
    PROVE  /\ Moved(l, x) \in Loan /\ Moved(l, x).last <= Moved(l, x).bal
           /\ l.last <= l.bal => Moved(l, x).last - Moved(l, x).chk = l.last - l.chk + x
  <1>1. l.bal \in Int /\ l.last \in Int /\ l.chk \in Int
    BY DEF Loan
  <1>2. Pos(l.bal - l.last) \in Int /\ (l.last <= l.bal => Pos(l.bal - l.last) = l.bal - l.last)
    BY <1>1 DEF Pos
  <1>3. interest(l) \in Int /\ interest(l) = l.chk + Pos(l.bal - l.last)
    BY <1>1, <1>2 DEF interest
  <1>4. Moved(l, x) \in Loan
    BY <1>1, <1>3 DEF Moved, Loan
  <1>5. /\ Moved(l, x).last = l.bal + x /\ Moved(l, x).bal = l.bal + x
        /\ Moved(l, x).chk = interest(l)
    BY DEF Moved
  <1>6. l.last <= l.bal => Moved(l, x).last - Moved(l, x).chk = l.last - l.chk + x
    BY <1>1, <1>2, <1>3, <1>5
  <1> QED BY <1>1, <1>4, <1>5, <1>6

LEMMA SupplyUsdcBalanced ==
    ASSUME NEW b, Balanced(b), NEW e, NEW x \in Int
    PROVE  Balanced(SupplyUsdc(b, e, x))
  <1> DEFINE c == SupplyUsdc(b, e, x)
             f == b.float - x
             u == Moved(b.usdc, x)
             o == b.ok /\ e.lending
  <1>1. b \in Book /\ f \in Int /\ b.usdc \in Loan /\ o \in BOOLEAN
    BY BookTypes DEF Balanced
  <1>2. /\ u \in Loan /\ u.last <= u.bal
        /\ u.last - u.chk = b.usdc.last - b.usdc.chk + x
    BY <1>1, MovedType DEF Balanced
  <1>3. c = [b EXCEPT !.float = f, !.usdc = u, !.ok = o]
    BY DEF SupplyUsdc
  <1>4. unexplained(b) = 0 /\ f = b.float - x
    BY DEF Balanced
  <1> HIDE DEF c, f, u, o
  <1>5. c \in Book
    BY <1>1, <1>2, <1>3 DEF Book
  <1>6. /\ c.float = f /\ c.usdc = u /\ c.margin = b.margin /\ c.basis = b.basis
        /\ c.netCapital = b.netCapital /\ c.funding = b.funding /\ c.realized = b.realized
        /\ c.spotRealized = b.spotRealized /\ c.badDebt = b.badDebt /\ c.swapFees = b.swapFees
        /\ c.swapSlippage = b.swapSlippage /\ c.feesPaid = b.feesPaid /\ c.penalties = b.penalties
    BY <1>1, <1>3 DEF Book
  <1>7. unexplained(c) = unexplained(b)
    BY <1>1, <1>2, <1>4, <1>6, BookTypes, LoanTypes DEF unexplained
  <1> QED BY <1>2, <1>4, <1>5, <1>6, <1>7 DEF Balanced, c

LEMMA WithdrawUsdcBalanced ==
    ASSUME NEW b, Balanced(b), NEW e, NEW x \in Int
    PROVE  Balanced(WithdrawUsdc(b, e, x))
  <1> DEFINE c == WithdrawUsdc(b, e, x)
             f == b.float + x
             u == Moved(b.usdc, -x)
             o == b.ok /\ e.lending /\ x <= withdrawable(b.usdc, e.liquid.usdc)
  <1>1. b \in Book /\ f \in Int /\ b.usdc \in Loan /\ o \in BOOLEAN /\ -x \in Int
    BY BookTypes DEF Balanced
  <1>2. /\ u \in Loan /\ u.last <= u.bal
        /\ u.last - u.chk = b.usdc.last - b.usdc.chk + (-x)
    BY <1>1, MovedType DEF Balanced
  <1>3. c = [b EXCEPT !.float = f, !.usdc = u, !.ok = o]
    BY DEF WithdrawUsdc
  <1>4. unexplained(b) = 0 /\ f = b.float + x
    BY DEF Balanced
  <1> HIDE DEF c, f, u, o
  <1>5. c \in Book
    BY <1>1, <1>2, <1>3 DEF Book
  <1>6. /\ c.float = f /\ c.usdc = u /\ c.margin = b.margin /\ c.basis = b.basis
        /\ c.netCapital = b.netCapital /\ c.funding = b.funding /\ c.realized = b.realized /\ c.spotRealized = b.spotRealized
        /\ c.badDebt = b.badDebt /\ c.swapFees = b.swapFees /\ c.swapSlippage = b.swapSlippage /\ c.feesPaid = b.feesPaid
        /\ c.penalties = b.penalties
    BY <1>1, <1>3 DEF Book
  <1>7. unexplained(c) = unexplained(b)
    BY <1>1, <1>2, <1>4, <1>6, BookTypes, LoanTypes DEF unexplained
  <1> QED BY <1>2, <1>4, <1>5, <1>6, <1>7 DEF Balanced, c

LEMMA ReturnToVaultBalanced ==
    ASSUME NEW b, Balanced(b), NEW x \in Int
    PROVE  Balanced(ReturnToVault(b, x))
  <1> DEFINE c == ReturnToVault(b, x)
             n == b.netCapital - x
             f == b.float - x
             v == b.vault + x
  <1>1. b \in Book /\ n \in Int /\ f \in Int /\ v \in Int
    BY BookTypes DEF Balanced
  <1>2. c = [b EXCEPT !.netCapital = n, !.float = f, !.vault = v]
    BY DEF ReturnToVault
  <1>3. unexplained(b) = 0 /\ n = b.netCapital - x /\ f = b.float - x
    BY DEF Balanced
  <1> HIDE DEF c, n, f, v
  <1>4. c \in Book
    BY <1>1, <1>2 DEF Book
  <1>5. /\ c.float = f /\ c.usdc = b.usdc /\ c.margin = b.margin /\ c.basis = b.basis
        /\ c.netCapital = n /\ c.funding = b.funding /\ c.realized = b.realized /\ c.spotRealized = b.spotRealized
        /\ c.badDebt = b.badDebt /\ c.swapFees = b.swapFees /\ c.swapSlippage = b.swapSlippage /\ c.feesPaid = b.feesPaid
        /\ c.penalties = b.penalties
    BY <1>1, <1>2 DEF Book
  <1>6. unexplained(c) = unexplained(b)
    BY <1>1, <1>3, <1>5, BookTypes, LoanTypes DEF unexplained
  <1> QED BY <1>3, <1>4, <1>5, <1>6 DEF Balanced, c

LEMMA DepositMarginMoves ==
    ASSUME NEW b, Balanced(b), NEW x \in Int, NEW o \in BOOLEAN
    PROVE  Balanced([b EXCEPT !.float = @ - x, !.margin = @ + x, !.ok = o])
  <1> DEFINE c == [b EXCEPT !.float = @ - x, !.margin = @ + x, !.ok = o]
             f == b.float - x
             m == b.margin + x
  <1>1. b \in Book /\ f \in Int /\ m \in Int
    BY BookTypes DEF Balanced
  <1>2. c = [b EXCEPT !.float = f, !.margin = m, !.ok = o]
    OBVIOUS
  <1>3. unexplained(b) = 0 /\ f = b.float - x /\ m = b.margin + x
    BY DEF Balanced
  <1> HIDE DEF c, f, m
  <1>4. c \in Book
    BY <1>1, <1>2 DEF Book
  <1>5. /\ c.float = f /\ c.usdc = b.usdc /\ c.margin = m /\ c.basis = b.basis
        /\ c.netCapital = b.netCapital /\ c.funding = b.funding /\ c.realized = b.realized /\ c.spotRealized = b.spotRealized
        /\ c.badDebt = b.badDebt /\ c.swapFees = b.swapFees /\ c.swapSlippage = b.swapSlippage /\ c.feesPaid = b.feesPaid
        /\ c.penalties = b.penalties
    BY <1>1, <1>2 DEF Book
  <1>6. unexplained(c) = unexplained(b)
    BY <1>1, <1>3, <1>5, BookTypes, LoanTypes DEF unexplained
  <1> QED BY <1>3, <1>4, <1>5, <1>6 DEF Balanced, c

LEMMA SettledBalanced ==
    ASSUME NEW b, Balanced(b), NEW e
    PROVE  Balanced(Settled(b, e))
  <1> DEFINE c == Settled(b, e)
             m == b.margin + b.pending
             g == b.funding + b.pending
             z == 0
             a == FALSE
             o == b.ok /\ (e.feed \/ ~b.accruing)
  <1>1. b \in Book /\ m \in Int /\ g \in Int /\ z \in Int /\ a \in BOOLEAN /\ o \in BOOLEAN
    BY BookTypes DEF Balanced
  <1>2. c = [b EXCEPT !.margin = m, !.funding = g, !.pending = z, !.accruing = a, !.ok = o]
    BY DEF Settled
  <1>3. unexplained(b) = 0 /\ m = b.margin + b.pending /\ g = b.funding + b.pending
    BY DEF Balanced
  <1> HIDE DEF c, m, g, z, a, o
  <1>4. c \in Book
    BY <1>1, <1>2 DEF Book
  <1>5. /\ c.float = b.float /\ c.usdc = b.usdc /\ c.margin = m /\ c.basis = b.basis
        /\ c.netCapital = b.netCapital /\ c.funding = g /\ c.realized = b.realized /\ c.spotRealized = b.spotRealized
        /\ c.badDebt = b.badDebt /\ c.swapFees = b.swapFees /\ c.swapSlippage = b.swapSlippage /\ c.feesPaid = b.feesPaid
        /\ c.penalties = b.penalties
    BY <1>1, <1>2 DEF Book
  <1>6. unexplained(c) = unexplained(b)
    BY <1>1, <1>3, <1>5, BookTypes, LoanTypes DEF unexplained
  <1> QED BY <1>3, <1>4, <1>5, <1>6 DEF Balanced, c

LEMMA FilledBalanced ==
    ASSUME NEW b, Balanced(b), NEW delta \in Int, NEW p \in Int
    PROVE  Balanced(Filled(b, delta, p))
  <1> DEFINE c == Filled(b, delta, p)
             s == b.size + delta
             t == tradeEntry(b.size, b.entry, delta, p)
             r == tradeRealized(b.size, b.entry, delta, p)
             m == b.margin + r
             q == b.realized + r
  <1>1. b \in Book /\ s \in Int
    BY BookTypes DEF Balanced
  <1>2. b.size \in Int /\ b.entry \in Int /\ b.margin \in Int /\ b.realized \in Int
    BY <1>1, BookTypes
  <1>3. t \in Int
    BY <1>2, EntryInt
  <1>4. r \in Int
    BY <1>2, RealizedInt
  <1>5. m \in Int /\ q \in Int
    BY <1>2, <1>4
  <1>6. c = [b EXCEPT !.size = s, !.entry = t, !.margin = m, !.realized = q]
    BY DEF Filled
  <1>7. unexplained(b) = 0 /\ m = b.margin + r /\ q = b.realized + r
    BY DEF Balanced
  <1> HIDE DEF c, s, t, r, m, q
  <1>8. c \in Book
    BY <1>1, <1>6, <1>3, <1>5 DEF Book
  <1>9. /\ c.float = b.float /\ c.usdc = b.usdc /\ c.margin = m /\ c.basis = b.basis
        /\ c.netCapital = b.netCapital /\ c.funding = b.funding /\ c.realized = q /\ c.spotRealized = b.spotRealized
        /\ c.badDebt = b.badDebt /\ c.swapFees = b.swapFees /\ c.swapSlippage = b.swapSlippage /\ c.feesPaid = b.feesPaid
        /\ c.penalties = b.penalties
    BY <1>1, <1>6 DEF Book
  <1>10. unexplained(c) = unexplained(b)
    BY <1>1, <1>7, <1>9, <1>4, BookTypes, LoanTypes DEF unexplained
  <1> QED BY <1>7, <1>8, <1>9, <1>10 DEF Balanced, c

LEMMA FeePaidBalanced ==
    ASSUME NEW b, Balanced(b), NEW fee \in Int
    PROVE  Balanced([b EXCEPT !.margin = @ - fee, !.feesPaid = @ + fee])
  <1> DEFINE c == [b EXCEPT !.margin = @ - fee, !.feesPaid = @ + fee]
             m == b.margin - fee
             g == b.feesPaid + fee
  <1>1. b \in Book /\ m \in Int /\ g \in Int
    BY BookTypes DEF Balanced
  <1>2. c = [b EXCEPT !.margin = m, !.feesPaid = g]
    OBVIOUS
  <1>3. unexplained(b) = 0 /\ m = b.margin - fee /\ g = b.feesPaid + fee
    BY DEF Balanced
  <1> HIDE DEF c, m, g
  <1>4. c \in Book
    BY <1>1, <1>2 DEF Book
  <1>5. /\ c.float = b.float /\ c.usdc = b.usdc /\ c.margin = m /\ c.basis = b.basis
        /\ c.netCapital = b.netCapital /\ c.funding = b.funding /\ c.realized = b.realized /\ c.spotRealized = b.spotRealized
        /\ c.badDebt = b.badDebt /\ c.swapFees = b.swapFees /\ c.swapSlippage = b.swapSlippage /\ c.feesPaid = g
        /\ c.penalties = b.penalties
    BY <1>1, <1>2 DEF Book
  <1>6. unexplained(c) = unexplained(b)
    BY <1>1, <1>3, <1>5, BookTypes, LoanTypes DEF unexplained
  <1> QED BY <1>3, <1>4, <1>5, <1>6 DEF Balanced, c
\* Reverting or not is no money.
LEMMA OkBalanced ==
    ASSUME NEW b, Balanced(b), NEW o \in BOOLEAN
    PROVE  Balanced([b EXCEPT !.ok = o])
  <1> DEFINE c == [b EXCEPT !.ok = o]
  <1>1. b \in Book
    BY BookTypes DEF Balanced
  <1>2. c = [b EXCEPT !.ok = o]
    OBVIOUS
  <1>3. unexplained(b) = 0
    BY DEF Balanced
  <1> HIDE DEF c
  <1>4. c \in Book
    BY <1>1, <1>2 DEF Book
  <1>5. /\ c.float = b.float /\ c.usdc = b.usdc /\ c.margin = b.margin /\ c.basis = b.basis
        /\ c.netCapital = b.netCapital /\ c.funding = b.funding /\ c.realized = b.realized /\ c.spotRealized = b.spotRealized
        /\ c.badDebt = b.badDebt /\ c.swapFees = b.swapFees /\ c.swapSlippage = b.swapSlippage /\ c.feesPaid = b.feesPaid
        /\ c.penalties = b.penalties
    BY <1>1, <1>2 DEF Book
  <1>6. unexplained(c) = unexplained(b)
    BY <1>1, <1>3, <1>5, BookTypes, LoanTypes DEF unexplained
  <1> QED BY <1>3, <1>4, <1>5, <1>6 DEF Balanced, c

LEMMA SupplyWethBalanced ==
    ASSUME NEW b, Balanced(b), NEW e, NEW x \in Int
    PROVE  Balanced(SupplyWeth(b, e, x))
  <1> DEFINE c == SupplyWeth(b, e, x)
             w == b.weth - x
             l == Moved(b.lent, x)
             o == b.ok /\ e.lending
  <1>1. b \in Book /\ w \in Int /\ b.lent \in Loan /\ o \in BOOLEAN
    BY BookTypes DEF Balanced
  <1>2. l \in Loan
    BY <1>1, MovedType
  <1>3. c = [b EXCEPT !.weth = w, !.lent = l, !.ok = o]
    BY DEF SupplyWeth
  <1>4. unexplained(b) = 0
    BY DEF Balanced
  <1> HIDE DEF c, w, l, o
  <1>5. c \in Book
    BY <1>1, <1>2, <1>3 DEF Book
  <1>6. /\ c.float = b.float /\ c.usdc = b.usdc /\ c.margin = b.margin /\ c.basis = b.basis
        /\ c.netCapital = b.netCapital /\ c.funding = b.funding /\ c.realized = b.realized /\ c.spotRealized = b.spotRealized
        /\ c.badDebt = b.badDebt /\ c.swapFees = b.swapFees /\ c.swapSlippage = b.swapSlippage /\ c.feesPaid = b.feesPaid
        /\ c.penalties = b.penalties
    BY <1>1, <1>3 DEF Book
  <1>7. unexplained(c) = unexplained(b)
    BY <1>1, <1>2, <1>4, <1>6, BookTypes, LoanTypes DEF unexplained
  <1> QED BY <1>4, <1>5, <1>6, <1>7 DEF Balanced, c

LEMMA WithdrawWethBalanced ==
    ASSUME NEW b, Balanced(b), NEW e, NEW x \in Int
    PROVE  Balanced(WithdrawWeth(b, e, x))
  <1> DEFINE c == WithdrawWeth(b, e, x)
             w == b.weth + x
             l == Moved(b.lent, -x)
             o == b.ok /\ e.lending /\ x <= withdrawable(b.lent, e.liquid.weth)
  <1>1. b \in Book /\ w \in Int /\ b.lent \in Loan /\ o \in BOOLEAN /\ -x \in Int
    BY BookTypes DEF Balanced
  <1>2. l \in Loan
    BY <1>1, MovedType
  <1>3. c = [b EXCEPT !.weth = w, !.lent = l, !.ok = o]
    BY DEF WithdrawWeth
  <1>4. unexplained(b) = 0
    BY DEF Balanced
  <1> HIDE DEF c, w, l, o
  <1>5. c \in Book
    BY <1>1, <1>2, <1>3 DEF Book
  <1>6. /\ c.float = b.float /\ c.usdc = b.usdc /\ c.margin = b.margin /\ c.basis = b.basis
        /\ c.netCapital = b.netCapital /\ c.funding = b.funding /\ c.realized = b.realized /\ c.spotRealized = b.spotRealized
        /\ c.badDebt = b.badDebt /\ c.swapFees = b.swapFees /\ c.swapSlippage = b.swapSlippage /\ c.feesPaid = b.feesPaid
        /\ c.penalties = b.penalties
    BY <1>1, <1>3 DEF Book
  <1>7. unexplained(c) = unexplained(b)
    BY <1>1, <1>2, <1>4, <1>6, BookTypes, LoanTypes DEF unexplained
  <1> QED BY <1>4, <1>5, <1>6, <1>7 DEF Balanced, c

LEMMA SlippageInt ==
    ASSUME NEW delta \in Int, NEW p \in Int, NEW mark \in Int
    PROVE  slippageOf(delta, p, mark) \in Int
  <1>1. notional(delta, abs(p - mark)) \in Int
    BY AbsInt, NotionalInt
  <1> QED BY <1>1 DEF slippageOf

\* The adapter's own records are no money either.
LEMMA TradedBalanced ==
    ASSUME NEW a \in Book, NEW b, Balanced(b), NEW e, Env(e),
           NEW delta \in Int, NEW p \in Int, NEW bound \in Int
    PROVE  Balanced(Traded(a, b, e, delta, p, bound))
  <1> DEFINE c == Traded(a, b, e, delta, p, bound)
             s == b.slippage + slippageOf(delta, p, e.mark)
             t == tradeEntry(a.size, a.markEntry, delta, e.mark)
             o == /\ b.ok /\ e.feed /\ delta # 0
                  /\ IF delta > 0 THEN p <= bound ELSE p >= bound
                  /\ IncreasesRisk(a.size, b.size) => equity(b, e.mark) >= marginReq(b.size, e.mark, IMR)
  <1>1. b \in Book /\ e.mark \in Int /\ a.size \in Int /\ a.markEntry \in Int /\ b.slippage \in Int
    BY BookTypes DEF Balanced, Env
  <1>2. slippageOf(delta, p, e.mark) \in Int
    BY <1>1, SlippageInt
  <1>3. s \in Int
    BY <1>1, <1>2
  <1>4. t \in Int
    BY <1>1, EntryInt
  <1>5. o \in BOOLEAN
    BY <1>1
  <1>6. c = [b EXCEPT !.slippage = s, !.markEntry = t, !.ok = o]
    BY DEF Traded
  <1>7. unexplained(b) = 0
    BY DEF Balanced
  <1> HIDE DEF c, s, t, o
  <1>8. c \in Book
    BY <1>1, <1>3, <1>4, <1>5, <1>6 DEF Book
  <1>9. /\ c.float = b.float /\ c.usdc = b.usdc /\ c.margin = b.margin /\ c.basis = b.basis
        /\ c.netCapital = b.netCapital /\ c.funding = b.funding /\ c.realized = b.realized /\ c.spotRealized = b.spotRealized
        /\ c.badDebt = b.badDebt /\ c.swapFees = b.swapFees /\ c.swapSlippage = b.swapSlippage /\ c.feesPaid = b.feesPaid
        /\ c.penalties = b.penalties
    BY <1>1, <1>6 DEF Book
  <1>10. unexplained(c) = unexplained(b)
    BY <1>1, <1>2, <1>4, <1>5, <1>7, <1>9, BookTypes, LoanTypes DEF unexplained
  <1> QED BY <1>7, <1>8, <1>9, <1>10 DEF Balanced, c

\* Money may enter and leave the vault: it is no part of the equation.
LEMMA VaultBalanced ==
    ASSUME NEW b, Balanced(b), NEW v \in Int
    PROVE  Balanced([b EXCEPT !.vault = v])
  <1> DEFINE c == [b EXCEPT !.vault = v]
  <1>1. b \in Book
    BY BookTypes DEF Balanced
  <1>2. c = [b EXCEPT !.vault = v]
    OBVIOUS
  <1>3. unexplained(b) = 0
    BY DEF Balanced
  <1> HIDE DEF c
  <1>4. c \in Book
    BY <1>1, <1>2 DEF Book
  <1>5. /\ c.float = b.float /\ c.usdc = b.usdc /\ c.margin = b.margin /\ c.basis = b.basis
        /\ c.netCapital = b.netCapital /\ c.funding = b.funding /\ c.realized = b.realized /\ c.spotRealized = b.spotRealized
        /\ c.badDebt = b.badDebt /\ c.swapFees = b.swapFees /\ c.swapSlippage = b.swapSlippage /\ c.feesPaid = b.feesPaid
        /\ c.penalties = b.penalties
    BY <1>1, <1>2 DEF Book
  <1>6. unexplained(c) = unexplained(b)
    BY <1>1, <1>3, <1>5, BookTypes, LoanTypes DEF unexplained
  <1> QED BY <1>3, <1>4, <1>5, <1>6 DEF Balanced, c

LEMMA EmptyBalanced == ASSUME NEW capital \in Int PROVE Balanced(EmptyBook(capital))
  <1> DEFINE b == EmptyBook(capital)
  <1>1. NoLoan \in Loan
    BY DEF NoLoan, Loan
  <1>2. b \in Book
    BY <1>1 DEF EmptyBook, Book
  <1>3. unexplained(b) = 0 /\ b.usdc.last <= b.usdc.bal
    BY DEF unexplained, EmptyBook, NoLoan
  <1> QED BY <1>2, <1>3 DEF Balanced

LEMMA ReceivedBalanced ==
    ASSUME NEW b, Balanced(b), NEW x \in Int, NEW o \in BOOLEAN
    PROVE  Balanced([b EXCEPT !.vault = @ - x, !.float = @ + x, !.netCapital = @ + x, !.ok = o])
  <1> DEFINE c == [b EXCEPT !.vault = @ - x, !.float = @ + x, !.netCapital = @ + x, !.ok = o]
             v == b.vault - x
             f == b.float + x
             n == b.netCapital + x
  <1>1. b \in Book /\ v \in Int /\ f \in Int /\ n \in Int
    BY BookTypes DEF Balanced
  <1>2. c = [b EXCEPT !.vault = v, !.float = f, !.netCapital = n, !.ok = o]
    OBVIOUS
  <1>3. unexplained(b) = 0 /\ f = b.float + x /\ n = b.netCapital + x
    BY DEF Balanced
  <1> HIDE DEF c, v, f, n
  <1>4. c \in Book
    BY <1>1, <1>2 DEF Book
  <1>5. /\ c.float = f /\ c.usdc = b.usdc /\ c.margin = b.margin /\ c.basis = b.basis
        /\ c.netCapital = n /\ c.funding = b.funding /\ c.realized = b.realized /\ c.spotRealized = b.spotRealized
        /\ c.badDebt = b.badDebt /\ c.swapFees = b.swapFees /\ c.swapSlippage = b.swapSlippage /\ c.feesPaid = b.feesPaid
        /\ c.penalties = b.penalties
    BY <1>1, <1>2 DEF Book
  <1>6. unexplained(c) = unexplained(b)
    <2>1. Terms(b)
      BY <1>1, TermTypes
    <2> QED BY <1>3, <1>5, <2>1 DEF Terms, unexplained
  <1> QED BY <1>3, <1>4, <1>5, <1>6 DEF Balanced, c

LEMMA MarginOutBalanced ==
    ASSUME NEW b, Balanced(b), NEW x \in Int, NEW o \in BOOLEAN
    PROVE  Balanced([b EXCEPT !.float = @ + x, !.margin = @ - x, !.ok = o])
  <1> DEFINE c == [b EXCEPT !.float = @ + x, !.margin = @ - x, !.ok = o]
             f == b.float + x
             m == b.margin - x
  <1>1. b \in Book /\ f \in Int /\ m \in Int
    BY BookTypes DEF Balanced
  <1>2. c = [b EXCEPT !.float = f, !.margin = m, !.ok = o]
    OBVIOUS
  <1>3. unexplained(b) = 0 /\ f = b.float + x /\ m = b.margin - x
    BY DEF Balanced
  <1> HIDE DEF c, f, m
  <1>4. c \in Book
    BY <1>1, <1>2 DEF Book
  <1>5. /\ c.float = f /\ c.usdc = b.usdc /\ c.margin = m /\ c.basis = b.basis
        /\ c.netCapital = b.netCapital /\ c.funding = b.funding /\ c.realized = b.realized /\ c.spotRealized = b.spotRealized
        /\ c.badDebt = b.badDebt /\ c.swapFees = b.swapFees /\ c.swapSlippage = b.swapSlippage /\ c.feesPaid = b.feesPaid
        /\ c.penalties = b.penalties
    BY <1>1, <1>2 DEF Book
  <1>6. unexplained(c) = unexplained(b)
    BY <1>1, <1>3, <1>5, BookTypes, LoanTypes DEF unexplained
  <1> QED BY <1>3, <1>4, <1>5, <1>6 DEF Balanced, c

\* What is paid is what is bought at the oracle's price, fee and slippage.
LEMMA BoughtBalanced ==
    ASSUME NEW b, Balanced(b), NEW x \in Int, NEW qty \in Int, NEW mid \in Int, NEW fee \in Int, NEW o \in BOOLEAN
    PROVE  Balanced([b EXCEPT !.float = @ - x, !.weth = @ + qty,
                               !.basis = @ + mid, !.swapFees = @ + fee,
                               !.swapSlippage = @ + (x - mid - fee), !.ok = o])
  <1> DEFINE c == [b EXCEPT !.float = @ - x, !.weth = @ + qty,
                               !.basis = @ + mid, !.swapFees = @ + fee,
                               !.swapSlippage = @ + (x - mid - fee), !.ok = o]
             f == b.float - x
             w == b.weth + qty
             a == b.basis + mid
             g == b.swapFees + fee
             s == b.swapSlippage + (x - mid - fee)
  <1>1. b \in Book /\ f \in Int /\ w \in Int /\ a \in Int /\ g \in Int /\ s \in Int
    BY BookTypes DEF Balanced
  <1>2. c = [b EXCEPT
                !.float = f, !.weth = w, !.basis = a, !.swapFees = g, !.swapSlippage = s, !.ok = o]
    OBVIOUS
  <1>3. unexplained(b) = 0 /\ f = b.float - x /\ a = b.basis + mid /\ g = b.swapFees + fee
        /\ s = b.swapSlippage + (x - mid - fee)
    BY DEF Balanced
  <1> HIDE DEF c, f, w, a, g, s
  <1>4. c \in Book
    BY <1>1, <1>2 DEF Book
  <1>5. /\ c.float = f /\ c.usdc = b.usdc /\ c.margin = b.margin /\ c.basis = a
        /\ c.netCapital = b.netCapital /\ c.funding = b.funding /\ c.realized = b.realized /\ c.spotRealized = b.spotRealized
        /\ c.badDebt = b.badDebt /\ c.swapFees = g /\ c.swapSlippage = s /\ c.feesPaid = b.feesPaid
        /\ c.penalties = b.penalties
    BY <1>1, <1>2 DEF Book
  <1>6. unexplained(c) = unexplained(b)
    BY <1>1, <1>3, <1>5, BookTypes, LoanTypes DEF unexplained
  <1> QED BY <1>3, <1>4, <1>5, <1>6 DEF Balanced, c

\* A sale turns basis, profit, fee and slippage into cash.
LEMMA SaleBalanced ==
    ASSUME NEW b, Balanced(b), NEW qty \in Int, NEW out \in Int, NEW mid \in Int, NEW portion \in Int, NEW fee \in Int
    PROVE  Balanced([b EXCEPT !.weth = @ - qty, !.float = @ + out, !.basis = @ - portion,
                               !.spotRealized = @ + (mid - portion),
                               !.swapFees = @ + fee, !.swapSlippage = @ + (mid - out - fee)])
  <1> DEFINE c == [b EXCEPT !.weth = @ - qty, !.float = @ + out, !.basis = @ - portion,
                               !.spotRealized = @ + (mid - portion),
                               !.swapFees = @ + fee, !.swapSlippage = @ + (mid - out - fee)]
             w == b.weth - qty
             f == b.float + out
             a == b.basis - portion
             r == b.spotRealized + (mid - portion)
             g == b.swapFees + fee
             s == b.swapSlippage + (mid - out - fee)
  <1>1. b \in Book /\ f \in Int /\ w \in Int /\ a \in Int /\ r \in Int /\ g \in Int /\ s \in Int
    BY BookTypes DEF Balanced
  <1>2. c = [b EXCEPT
                !.weth = w, !.float = f, !.basis = a, !.spotRealized = r, !.swapFees = g, !.swapSlippage = s]
    OBVIOUS
  <1>3. unexplained(b) = 0 /\ f = b.float + out /\ a = b.basis - portion /\ r = b.spotRealized + (mid - portion)
        /\ g = b.swapFees + fee /\ s = b.swapSlippage + (mid - out - fee)
    BY DEF Balanced
  <1> HIDE DEF c, w, f, a, r, g, s
  <1>4. c \in Book
    BY <1>1, <1>2 DEF Book
  <1>5. /\ c.float = f /\ c.usdc = b.usdc /\ c.margin = b.margin /\ c.basis = a
        /\ c.netCapital = b.netCapital /\ c.funding = b.funding /\ c.realized = b.realized /\ c.spotRealized = r
        /\ c.badDebt = b.badDebt /\ c.swapFees = g /\ c.swapSlippage = s /\ c.feesPaid = b.feesPaid
        /\ c.penalties = b.penalties
    BY <1>1, <1>2 DEF Book
  <1>6. unexplained(c) = unexplained(b)
    <2>1. Terms(b)
      BY <1>1, TermTypes
    <2> QED BY <1>3, <1>5, <2>1 DEF Terms, unexplained
  <1> QED BY <1>3, <1>4, <1>5, <1>6 DEF Balanced, c

\* What the margin does not bear the venue writes off.
LEMMA WrittenOffBalanced ==
    ASSUME NEW b, Balanced(b), NEW penalty \in Int, NEW left \in Int, left = b.margin - penalty, NEW o \in BOOLEAN
    PROVE  Balanced([b EXCEPT !.margin = Pos(left), !.penalties = @ + penalty,
                               !.badDebt = @ + Pos(-left), !.ok = o])
  <1> DEFINE c == [b EXCEPT !.margin = Pos(left), !.penalties = @ + penalty,
                               !.badDebt = @ + Pos(-left), !.ok = o]
             m == Pos(left)
             n == b.penalties + penalty
             w == Pos(-left)
             d == b.badDebt + w
  <1>1. b \in Book /\ m \in Int /\ n \in Int /\ w \in Int /\ m - w = left
    BY BookTypes DEF Balanced, Pos
  <1>2. d \in Int
    BY <1>1, BookTypes
  <1>3. c = [b EXCEPT !.margin = m, !.penalties = n, !.badDebt = d, !.ok = o]
    OBVIOUS
  <1>4. unexplained(b) = 0 /\ n = b.penalties + penalty /\ d = b.badDebt + w
    BY DEF Balanced
  <1> HIDE DEF c, m, n, w, d
  <1>5. c \in Book
    BY <1>1, <1>2, <1>3 DEF Book
  <1>6. /\ c.float = b.float /\ c.usdc = b.usdc /\ c.margin = m /\ c.basis = b.basis
        /\ c.netCapital = b.netCapital /\ c.funding = b.funding /\ c.realized = b.realized /\ c.spotRealized = b.spotRealized
        /\ c.badDebt = d /\ c.swapFees = b.swapFees /\ c.swapSlippage = b.swapSlippage /\ c.feesPaid = b.feesPaid
        /\ c.penalties = n
    BY <1>1, <1>3 DEF Book
  <1>7. unexplained(c) = unexplained(b)
    BY <1>1, <1>2, <1>4, <1>6, BookTypes, LoanTypes DEF unexplained
  <1> QED BY <1>4, <1>5, <1>6, <1>7 DEF Balanced, c
-----------------------------------------------------------------------------
(* The steps built from them. *)

LEMMA EnvTypes ==
    ASSUME NEW e, Env(e)
    PROVE  /\ e.price \in Nat \ {0} /\ e.mark \in Nat \ {0} /\ e.price \in Int /\ e.mark \in Int
           /\ e.feed \in BOOLEAN /\ e.lending \in BOOLEAN /\ e.dex \in BOOLEAN
           /\ e.liquid.usdc \in Int /\ e.liquid.weth \in Int
  BY DEF Env

LEMMA BalancedTypes ==
    ASSUME NEW b, Balanced(b)
    PROVE  /\ b \in Book /\ b.usdc \in Loan /\ b.lent \in Loan
           /\ b.vault \in Int /\ b.float \in Int /\ b.weth \in Int /\ b.basis \in Int
           /\ b.size \in Int /\ b.entry \in Int /\ b.margin \in Int /\ b.pending \in Int
           /\ b.usdc.bal \in Int /\ b.usdc.last \in Int /\ b.lent.bal \in Int /\ b.lent.last \in Int
           /\ b.ok \in BOOLEAN
  BY BookTypes, LoanTypes DEF Balanced

LEMMA ChargedBalanced ==
    ASSUME NEW b, Balanced(b), NEW delta \in Int, NEW p \in Int
    PROVE  Balanced(Charged(b, delta, p))
  <1> DEFINE fee == CeilDiv(notional(delta, p) * FEE, BPS)
             f == Filled(b, delta, p)
  <1>1. Balanced(f)
    BY FilledBalanced
  <1>2. fee \in Int
    BY NotionalInt, Ratios, MulDivInt
  <1>3. Charged(b, delta, p) = [f EXCEPT !.margin = @ - fee, !.feesPaid = @ + fee]
    BY DEF Charged
  <1> HIDE DEF fee, f
  <1> QED BY <1>1, <1>2, <1>3, FeePaidBalanced

LEMMA TradeBalanced ==
    ASSUME NEW b, Balanced(b), NEW e, Env(e), NEW delta \in Int, NEW bound \in Int
    PROVE  Balanced(Trade(b, e, delta, bound))
  <1>1. execPrice(delta, e.mark) \in Int
    BY EnvTypes, ExecPriceInt
  <1>2. Balanced(Charged(Settled(b, e), delta, execPrice(delta, e.mark)))
    BY <1>1, SettledBalanced, ChargedBalanced
  <1> QED BY <1>1, <1>2, BalancedTypes, TradedBalanced DEF Trade, TradeAt

LEMMA DepositMarginBalanced ==
    ASSUME NEW b, Balanced(b), NEW e, NEW x \in Int
    PROVE  Balanced(DepositMargin(b, e, x))
  <1> DEFINE s == Settled(b, e)
             o == s.ok /\ x > 0 /\ b.float >= x
  <1>1. Balanced(s) /\ o \in BOOLEAN
    BY SettledBalanced
  <1>2. DepositMargin(b, e, x) = [s EXCEPT !.float = @ - x, !.margin = @ + x, !.ok = o]
    BY DEF DepositMargin
  <1> HIDE DEF s, o
  <1>3. Balanced([s EXCEPT !.float = @ - x, !.margin = @ + x, !.ok = o])
    BY <1>1, DepositMarginMoves
  <1> QED BY <1>2, <1>3

LEMMA WithdrawMarginBalanced ==
    ASSUME NEW b, Balanced(b), NEW e, NEW x \in Int
    PROVE  Balanced(WithdrawMargin(b, e, x))
  <1> DEFINE s == Settled(b, e)
             o == /\ s.ok /\ x > 0 /\ s.margin >= x
                  /\ b.size # 0 => /\ e.feed
                                   /\ equity(s, e.mark) - x >= marginReq(b.size, e.mark, IMR)
  <1>1. Balanced(s) /\ o \in BOOLEAN
    BY SettledBalanced
  <1>2. WithdrawMargin(b, e, x) = [s EXCEPT !.float = @ + x, !.margin = @ - x, !.ok = o]
    BY DEF WithdrawMargin
  <1> HIDE DEF s, o
  <1>3. Balanced([s EXCEPT !.float = @ + x, !.margin = @ - x, !.ok = o])
    BY <1>1, MarginOutBalanced
  <1> QED BY <1>2, <1>3

LEMMA WithdrawableInt ==
    ASSUME NEW l \in Loan, NEW others \in Int PROVE withdrawable(l, others) \in Int
  <1>1. l.bal \in Int /\ Pos(l.bal + others) \in Int
    BY LoanTypes, PosInt
  <1> QED BY <1>1, MinInt DEF withdrawable

LEMMA PullFromReserveBalanced ==
    ASSUME NEW b, Balanced(b), NEW e, NEW x \in Int
    PROVE  Balanced(PullFromReserve(b, e, x))
  <1>1. x - b.float \in Int
    BY BalancedTypes
  <1> QED BY <1>1, WithdrawUsdcBalanced DEF PullFromReserve

LEMMA ParkFloatBalanced ==
    ASSUME NEW b, Balanced(b), NEW e PROVE Balanced(ParkFloat(b, e))
  BY BalancedTypes, SupplyUsdcBalanced DEF ParkFloat

LEMMA BuyWethBalanced ==
    ASSUME NEW b, Balanced(b), NEW e, Env(e), NEW x \in Int, NEW slip \in Int
    PROVE  Balanced(BuyWeth(b, e, x, slip))
  <1> DEFINE qty == quoteBuy(x, e.mark)
             mid == (qty * e.price) \div Q
             fee == CeilDiv(x * DEX_FEE, BPS)
             minOut == (((x * Q) \div e.price) * (BPS - slip)) \div BPS
             o == b.ok /\ e.feed /\ e.dex /\ qty >= minOut /\ b.float >= x
             bought == [b EXCEPT !.float = @ - x, !.weth = @ + qty,
                                 !.basis = @ + mid, !.swapFees = @ + fee,
                                 !.swapSlippage = @ + (x - mid - fee), !.ok = o]
  <1>1. qty \in Int
    BY EnvTypes, QuoteBuyInt
  <1>2. mid \in Int /\ fee \in Int
    BY <1>1, EnvTypes, QType, Ratios, MulDivInt
  <1>3. o \in BOOLEAN
    OBVIOUS
  <1>4. BuyWeth(b, e, x, slip) = SupplyWeth(bought, e, qty)
    BY DEF BuyWeth
  <1> HIDE DEF qty, mid, fee, o
  <1>5. Balanced(bought)
    BY <1>1, <1>2, <1>3, BoughtBalanced
  <1> QED BY <1>1, <1>4, <1>5, SupplyWethBalanced

LEMMA RecordedBalanced ==
    ASSUME NEW b, Balanced(b), NEW held \in Int, NEW qty \in Int, NEW out \in Int,
           NEW feeWeth \in Int, NEW price \in Int
    PROVE  Balanced(Recorded(b, held, qty, out, feeWeth, price))
  <1> DEFINE mid == (qty * price) \div Q
             fee == (feeWeth * price) \div Q
             portion == IF held <= 0 THEN 0 ELSE Min2(b.basis, (b.basis * qty) \div held)
  <1>1. mid \in Int /\ fee \in Int
    BY QType, MulDivInt
  <1>2. portion \in Int
    <2>1. CASE held <= 0
      BY <2>1
    <2>2. CASE ~(held <= 0)
      <3>1. held \in Nat \ {0} /\ b.basis \in Int
        BY <2>2, BalancedTypes
      <3>2. (b.basis * qty) \div held \in Int
        BY <3>1, MulDivInt
      <3> QED BY <2>2, <3>1, <3>2, MinInt
    <2> QED BY <2>1, <2>2
  <1>3. Recorded(b, held, qty, out, feeWeth, price)
        = [b EXCEPT !.weth = @ - qty, !.float = @ + out, !.basis = @ - portion,
                    !.spotRealized = @ + (mid - portion),
                    !.swapFees = @ + fee, !.swapSlippage = @ + (mid - out - fee)]
    BY DEF Recorded
  <1> HIDE DEF mid, fee, portion
  <1>4. Balanced([b EXCEPT !.weth = @ - qty, !.float = @ + out, !.basis = @ - portion,
                           !.spotRealized = @ + (mid - portion),
                           !.swapFees = @ + fee, !.swapSlippage = @ + (mid - out - fee)])
    BY <1>1, <1>2, SaleBalanced
  <1> QED BY <1>3, <1>4

LEMMA SoldBalanced ==
    ASSUME NEW b, Balanced(b), NEW e, Env(e), NEW held \in Int, NEW qty \in Int, NEW minOut \in Int
    PROVE  Balanced(Sold(b, e, held, qty, minOut))
  <1> DEFINE s == Recorded(b, held, qty, quoteSell(qty, e.mark), CeilDiv(qty * DEX_FEE, BPS), e.price)
             o == s.ok /\ e.feed /\ e.dex /\ quoteSell(qty, e.mark) >= minOut
  <1>1. quoteSell(qty, e.mark) \in Int /\ CeilDiv(qty * DEX_FEE, BPS) \in Int /\ e.price \in Int
    BY EnvTypes, QuoteSellInt, Ratios, MulDivInt
  <1>2. Balanced(s) /\ o \in BOOLEAN
    BY <1>1, RecordedBalanced
  <1>3. Sold(b, e, held, qty, minOut) = [s EXCEPT !.ok = o]
    BY DEF Sold
  <1> HIDE DEF s, o
  <1> QED BY <1>2, <1>3, OkBalanced

LEMMA HeldInt == ASSUME NEW b, Balanced(b), NEW e PROVE wethHeld(b, e) \in Int
  BY BalancedTypes DEF wethHeld, readBalance

LEMMA SellWethBalanced ==
    ASSUME NEW b, Balanced(b), NEW e, Env(e), NEW qty \in Int, NEW slip \in Int
    PROVE  Balanced(SellWeth(b, e, qty, slip))
  <1> DEFINE a == IF b.weth < qty THEN WithdrawWeth(b, e, qty - b.weth) ELSE b
             worth == (qty * e.price) \div Q
             minOut == (worth * (BPS - slip)) \div BPS
  <1>1. qty - b.weth \in Int
    BY BalancedTypes
  <1>2. Balanced(a)
    BY <1>1, WithdrawWethBalanced
  <1>3. worth \in Int /\ BPS - slip \in Int
    BY EnvTypes, QType, Ratios, MulDivInt
  <1>4. minOut \in Int
    BY <1>3, Ratios, MulDivInt
  <1> HIDE DEF a, minOut, worth
  <1>5. SellWeth(b, e, qty, slip) = Sold(a, e, wethHeld(b, e), qty, minOut)
    BY DEF SellWeth, a, minOut, worth
  <1> QED BY <1>2, <1>4, <1>5, HeldInt, SoldBalanced

LEMMA PerpTradeBalanced ==
    ASSUME NEW b, Balanced(b), NEW e, Env(e), NEW delta \in Int, NEW slip \in Int
    PROVE  Balanced(PerpTrade(b, e, delta, slip))
  <1>1. BPS + slip \in Int /\ BPS - slip \in Int /\ e.price \in Int
    BY EnvTypes, Ratios
  <1>2. (e.price * (BPS + slip)) \div BPS \in Int /\ (e.price * (BPS - slip)) \div BPS \in Int
    BY <1>1, Ratios, MulDivInt
  <1> QED BY <1>2, TradeBalanced DEF PerpTrade
LEMMA EquityInt ==
    ASSUME NEW b, Balanced(b), NEW e, Env(e)
    PROVE  /\ equity(b, e.mark) \in Int
           /\ pnl(b.size, b.entry, e.mark) \in Int /\ pnl(b.size, b.entry, e.price) \in Int
  <1>1. pnl(b.size, b.entry, e.mark) \in Int /\ pnl(b.size, b.entry, e.price) \in Int
    BY BalancedTypes, EnvTypes, PnlInt
  <1> QED BY <1>1, BalancedTypes DEF equity

LEMMA MarginReqInt ==
    ASSUME NEW size \in Int, NEW mark \in Int, NEW ratio \in Int
    PROVE  marginReq(size, mark, ratio) \in Int
  BY NotionalInt, Ratios, MulDivInt DEF marginReq

LEMMA FreeMarginInt ==
    ASSUME NEW b, Balanced(b), NEW e, Env(e)
    PROVE  excessMargin(b, e) \in Int /\ freeMargin(b, e) \in Int
  <1>1. b.margin \in Int /\ Pos(b.margin) \in Int
    BY BalancedTypes, PosInt
  <1> DEFINE over == equity(b, e.mark) - marginReq(b.size, e.mark, IMR)
  <1>2. over \in Int
    <2>1. marginReq(b.size, e.mark, IMR) \in Int
      BY BalancedTypes, EnvTypes, Ratios, MarginReqInt
    <2> QED BY <2>1, EquityInt
  <1>3. Pos(over) \in Int
    BY <1>2, PosInt
  <1>4. (Pos(over) * 99) \div 100 \in Int
    BY <1>3, MulDivInt
  <1>5. excessMargin(b, e) \in Int
    BY <1>1, <1>4 DEF excessMargin
  <1> QED BY <1>1, <1>5, MinInt DEF freeMargin

LEMMA CrystallizedBalanced ==
    ASSUME NEW b, Balanced(b), NEW e, Env(e), NEW needed \in Int, NEW slip \in Int
    PROVE  Balanced(Crystallized(b, e, needed, slip))
  <1>1. ASSUME NEW q \in Int PROVE Balanced(CrystallizedSlice(b, e, q, slip))
    <2> DEFINE close == IF b.size < 0 THEN q ELSE -q
    <2>1. close \in Int /\ -close \in Int
      OBVIOUS
    <2>2. Balanced(PerpTrade(b, e, close, slip))
      BY <2>1, PerpTradeBalanced
    <2>3. Balanced(Reopened(b, e, close, slip))
      BY <2>1, <2>2, PerpTradeBalanced DEF Reopened
    <2> QED BY <2>3 DEF CrystallizedSlice
  <1> DEFINE u == pnl(b.size, b.entry, e.mark)
             profit == Min2((needed * 102) \div 100, u)
             q == CeilDiv(abs(b.size) * profit, u)
  <1>2. u \in Int
    BY EquityInt
  <1>3. CASE b.size = 0 \/ u <= 0
    BY <1>3 DEF Crystallized, CrystallizedFrom
  <1>4. CASE ~(b.size = 0 \/ u <= 0)
    <2>1. u \in Nat \ {0} /\ abs(b.size) \in Int
      BY <1>2, <1>4, BalancedTypes, AbsInt
    <2>2. profit \in Int
      BY <1>2, MulDivInt, MinInt
    <2> HIDE DEF profit, u
    <2>3. q \in Int
      BY <2>1, <2>2, MulDivInt
    <2>4. Balanced(CrystallizedSlice(b, e, q, slip))
      BY <1>1, <2>3
    <2>5. Crystallized(b, e, needed, slip) = CrystallizedSlice(b, e, q, slip)
      BY <1>4 DEF Crystallized, CrystallizedFrom, u, profit
    <2> QED BY <2>4, <2>5
  <1> QED BY <1>3, <1>4

LEMMA WithdrawUpToBalanced ==
    ASSUME NEW b, Balanced(b), NEW e, NEW x \in Int PROVE Balanced(WithdrawUpTo(b, e, x))
  BY WithdrawMarginBalanced DEF WithdrawUpTo

LEMMA WithdrawFreeMarginBalanced ==
    ASSUME NEW b, Balanced(b), NEW e, Env(e), NEW wanted \in Int, NEW slip \in Int
    PROVE  Balanced(WithdrawFreeMargin(b, e, wanted, slip))
  <1> DEFINE o == b.ok /\ (b.size # 0 => e.feed)
             s == [b EXCEPT !.ok = o]
             free == freeMargin(b, e)
             excess == excessMargin(b, e)
             needed == Min2(wanted, excess) - free
             m == MadeFree(s, e, wanted, free, excess, slip)
  <1>1. o \in BOOLEAN
    OBVIOUS
  <1>2. Balanced(s)
    BY <1>1, OkBalanced
  <1>3. needed \in Int
    BY FreeMarginInt, MinInt
  <1> HIDE DEF o, s, free, excess
  <1>4. Balanced(Crystallized(s, e, needed, slip))
    BY <1>2, <1>3, CrystallizedBalanced
  <1>5. Balanced(m)
    BY <1>2, <1>4 DEF MadeFree
  <1>6. WithdrawFreeMargin(b, e, wanted, slip) = WithdrawFree(m, e, wanted)
    BY DEF WithdrawFreeMargin, s, o, free, excess
  <1> HIDE DEF m
  <1>7. Min2(wanted, freeMargin(m, e)) \in Int
    BY <1>5, FreeMarginInt, MinInt
  <1>8. Balanced(WithdrawFree(m, e, wanted))
    BY <1>5, <1>7, WithdrawUpToBalanced DEF WithdrawFree
  <1> QED BY <1>6, <1>8

-----------------------------------------------------------------------------
(* The calls. *)

LEMMA ReceivedCall ==
    ASSUME NEW b, Balanced(b), NEW e, NEW x \in Int
    PROVE  Balanced(onCapitalReceived(b, e, x))
  <1> DEFINE o == b.ok /\ x <= b.vault
             r == [b EXCEPT !.vault = @ - x, !.float = @ + x, !.netCapital = @ + x, !.ok = o]
  <1>1. o \in BOOLEAN
    OBVIOUS
  <1>2. onCapitalReceived(b, e, x) = ParkFloat(r, e)
    BY DEF onCapitalReceived
  <1> HIDE DEF o
  <1>3. Balanced(r)
    BY <1>1, ReceivedBalanced
  <1> QED BY <1>2, <1>3, ParkFloatBalanced

LEMMA ReturnUpToBalanced ==
    ASSUME NEW b, Balanced(b), NEW amount \in Int PROVE Balanced(ReturnUpTo(b, amount))
  BY BalancedTypes, MinInt, ReturnToVaultBalanced DEF ReturnUpTo

LEMMA WithdrawLiquidCall ==
    ASSUME NEW b, Balanced(b), NEW e, Env(e), NEW amount \in Int
    PROVE  Balanced(withdrawLiquid(b, e, amount))
  <1> DEFINE o == b.ok /\ e.lending
             s == [b EXCEPT !.ok = o]
             x == Min2(amount - b.float, withdrawable(b.usdc, e.liquid.usdc))
             d == IF b.float >= amount THEN b ELSE DrawReserve(s, e, x)
  <1>1. o \in BOOLEAN
    OBVIOUS
  <1>2. Balanced(s)
    BY <1>1, OkBalanced
  <1>3. amount - b.float \in Int /\ withdrawable(b.usdc, e.liquid.usdc) \in Int
    BY BalancedTypes, EnvTypes, WithdrawableInt
  <1>4. x \in Int
    BY <1>3, MinInt
  <1>5. withdrawLiquid(b, e, amount) = ReturnUpTo(d, amount)
    BY DEF withdrawLiquid
  <1> HIDE DEF s, x
  <1>6. Balanced(DrawReserve(s, e, x))
    BY <1>2, <1>4, WithdrawUsdcBalanced DEF DrawReserve
  <1>7. Balanced(d)
    BY <1>6
  <1> HIDE DEF d
  <1> QED BY <1>5, <1>7, ReturnUpToBalanced

LEMMA PerpEquityInt ==
    ASSUME NEW b, Balanced(b), NEW e, Env(e) PROVE perpEquity(b, e) \in Nat
  <1>1. equity(b, e.mark) \in Int /\ Pos(b.margin) + pnl(b.size, b.entry, e.price) \in Int
    BY BalancedTypes, EquityInt, Ratios, PosInt
  <1> QED BY <1>1, PosInt DEF perpEquity

LEMMA ReleaseInt ==
    ASSUME NEW b, Balanced(b), NEW before \in Int, NEW f \in Int, NEW e, Env(e)
    PROVE  release(b, before, f, e) \in Int
  <1>1. Pos(b.margin) \in Int /\ equity(b, e.mark) \in Int /\ WAD - f \in Int
    BY BalancedTypes, EquityInt, Ratios, PosInt
  <1> DEFINE kept == CeilDiv(before * (WAD - f), WAD)
  <1>2. kept \in Int
    BY <1>1, Ratios, MulDivInt
  <1> HIDE DEF kept
  <1>3. Pos(equity(b, e.mark) - kept) \in Int
    BY <1>1, <1>2, PosInt
  <1>4. Min2(Pos(equity(b, e.mark) - kept), Pos(b.margin)) \in Int
    BY <1>1, <1>3, MinInt
  <1> QED BY <1>1, <1>4 DEF release, kept

LEMMA ShareInt == ASSUME NEW x \in Int, NEW f \in Int PROVE shareOf(x, f) \in Int
  BY Ratios, MulDivInt DEF shareOf

LEMMA UnwindShareBalanced ==
    ASSUME NEW b, Balanced(b), NEW e, Env(e), NEW amount \in Int, NEW f \in Int,
           NEW before \in Int, NEW slip \in Int
    PROVE  Balanced(UnwindShare(b, e, amount, f, before, slip))
  <1> DEFINE q == shareOf(abs(b.size), f)
             qty == shareOf(wethHeld(b, e), f)
             b1 == CloseShare(b, e, q, f, slip)
             b2 == SellShare(b1, e, qty, slip)
             o == b2.ok /\ (b2.size # 0 => e.feed)
             b3 == [b2 EXCEPT !.ok = o]
             b4 == Release(b2, e, before, f)
  <1>1. q \in Int /\ qty \in Int
    <2>1. abs(b.size) \in Int /\ wethHeld(b, e) \in Int
      BY BalancedTypes, AbsInt, HeldInt
    <2> QED BY <2>1, ShareInt
  <1>2. UnwindShare(b, e, amount, f, before, slip) = ParkFloat(ReturnUpTo(b4, amount), e)
    BY DEF UnwindShare, PayAndPark
  <1>3. Balanced(b1)
    BY <1>1, PerpTradeBalanced DEF CloseShare
  <1>4. Balanced(b2)
    BY <1>1, <1>3, SellWethBalanced DEF SellShare
  <1>5. b4 = WithdrawUpTo(b3, e, release(b2, before, f, e)) /\ o \in BOOLEAN
    BY DEF Release
  <1> HIDE DEF q, qty, b1, b2, o, b4
  <1>6. Balanced(b3)
    BY <1>4, <1>5, OkBalanced
  <1>7. release(b2, before, f, e) \in Int
    BY <1>4, ReleaseInt
  <1> HIDE DEF b3
  <1>8. Balanced(b4)
    BY <1>5, <1>6, <1>7, WithdrawUpToBalanced
  <1> QED BY <1>2, <1>8, ReturnUpToBalanced, ParkFloatBalanced

LEMMA UnwindForCall ==
    ASSUME NEW b, Balanced(b), NEW e, Env(e), NEW amount \in Int, NEW slip \in Int
    PROVE  Balanced(unwindFor(b, e, amount, slip))
  <1> DEFINE o == b.ok /\ e.healthy /\ ~e.paused
             s == [b EXCEPT !.ok = o]
             worth == (wethHeld(b, e) * e.price) \div Q + perpEquity(b, e)
             f == Min2((amount * WAD) \div worth, WAD)
  <1>1. o \in BOOLEAN
    OBVIOUS
  <1>2. Balanced(s)
    BY <1>1, OkBalanced
  <1>3. worth \in Int
    <2>1. (wethHeld(b, e) * e.price) \div Q \in Int
      BY HeldInt, EnvTypes, QType, MulDivInt
    <2> QED BY <2>1, PerpEquityInt
  <1>4. unwindFor(b, e, amount, slip) = UnwindWorth(s, e, amount, worth, slip)
    BY DEF unwindFor
  <1> HIDE DEF o, s, worth
  <1>5. CASE worth <= 0 \/ amount = 0
    BY <1>2, <1>4, <1>5 DEF UnwindWorth
  <1>6. CASE ~(worth <= 0 \/ amount = 0)
    <2>1. worth \in Nat \ {0}
      BY <1>3, <1>6
    <2>2. f \in Int
      BY <2>1, Ratios, MulDivInt, MinInt
    <2>3. UnwindWorth(s, e, amount, worth, slip) = UnwindShare(s, e, amount, f, perpEquity(s, e), slip)
      BY <1>6 DEF UnwindWorth
    <2> HIDE DEF f
    <2> QED BY <1>2, <1>4, <2>2, <2>3, PerpEquityInt, UnwindShareBalanced
  <1> QED BY <1>5, <1>6
Plan == [longUsdDelta : Int, marginDelta : Int, hedgeRatioBps : Nat, slip : 0..BPS]

LEMMA PlanTypes ==
    ASSUME NEW plan \in Plan
    PROVE  /\ plan.longUsdDelta \in Int /\ plan.marginDelta \in Int /\ plan.hedgeRatioBps \in Int
           /\ plan.slip \in Int
  BY Ratios DEF Plan

LEMMA ShrinkLongBalanced ==
    ASSUME NEW b, Balanced(b), NEW e, Env(e), NEW plan \in Plan
    PROVE  Balanced(ShrinkLong(b, e, plan))
  <1> DEFINE qty == Min2((-plan.longUsdDelta * Q) \div e.price, wethHeld(b, e))
  <1>1. -plan.longUsdDelta * Q \in Int /\ plan.slip \in Int
    BY PlanTypes, QType, MulInt
  <1>2. (-plan.longUsdDelta * Q) \div e.price \in Int
    BY <1>1, EnvTypes, DivInt
  <1>3. qty \in Int
    BY <1>2, HeldInt, MinInt
  <1>4. ShrinkLong(b, e, plan) = IF plan.longUsdDelta >= 0 THEN b ELSE SellLong(b, e, qty, plan.slip)
    BY DEF ShrinkLong
  <1> HIDE DEF qty
  <1>5. Balanced(SellLong(b, e, qty, plan.slip))
    BY <1>1, <1>3, SellWethBalanced DEF SellLong
  <1> QED BY <1>4, <1>5

LEMMA MoveMarginBalanced ==
    ASSUME NEW b, Balanced(b), NEW e, Env(e), NEW plan \in Plan
    PROVE  Balanced(MoveMargin(b, e, plan))
  <1>1. plan.marginDelta \in Int /\ -plan.marginDelta \in Int /\ plan.slip \in Int
    BY PlanTypes
  <1>2. Balanced(DepositMargin(PullFromReserve(b, e, plan.marginDelta), e, plan.marginDelta))
    BY <1>1, PullFromReserveBalanced, DepositMarginBalanced
  <1>3. Balanced(WithdrawFreeMargin(b, e, -plan.marginDelta, plan.slip))
    BY <1>1, WithdrawFreeMarginBalanced
  <1> QED BY <1>2, <1>3 DEF MoveMargin

LEMMA GrowLongBalanced ==
    ASSUME NEW b, Balanced(b), NEW e, Env(e), NEW plan \in Plan
    PROVE  Balanced(GrowLong(b, e, plan))
  <1>1. Balanced(PullFromReserve(b, e, plan.longUsdDelta))
    BY PlanTypes, PullFromReserveBalanced
  <1> QED BY <1>1, PlanTypes, BuyWethBalanced DEF GrowLong

LEMMA RehedgeBalanced ==
    ASSUME NEW b, Balanced(b), NEW e, Env(e), NEW plan \in Plan
    PROVE  Balanced(Rehedge(b, e, plan))
  <1>1. (wethHeld(b, e) * plan.hedgeRatioBps) \div BPS \in Int
    BY HeldInt, PlanTypes, Ratios, MulDivInt
  <1>2. hedgeDiff(b, e, plan) \in Int
    BY <1>1, BalancedTypes DEF hedgeDiff
  <1> QED BY <1>2, PlanTypes, PerpTradeBalanced DEF Rehedge, Rehedged

LEMMA ReleaseLeftBalanced ==
    ASSUME NEW b, Balanced(b), NEW e, Env(e), NEW plan \in Plan, NEW left \in Int
    PROVE  Balanced(ReleaseLeft(b, e, plan, left))
  BY PlanTypes, WithdrawFreeMarginBalanced DEF ReleaseLeft

LEMMA RebalanceCall ==
    ASSUME NEW b, Balanced(b), NEW e, Env(e), NEW plan \in Plan
    PROVE  Balanced(executeRebalance(b, e, plan))
  <1> DEFINE o == b.ok /\ e.healthy /\ ~e.paused
             s == [b EXCEPT !.ok = o]
             b1 == ShrinkLong(s, e, plan)
             b2 == MoveMargin(b1, e, plan)
             b3 == GrowLong(b2, e, plan)
             b4 == Rehedge(b3, e, plan)
             left == marginLeft(b1, b2, plan)
             b5 == ReleaseLeft(b4, e, plan, left)
  <1>1. o \in BOOLEAN
    OBVIOUS
  <1>2. executeRebalance(b, e, plan) = ParkFloat(b5, e)
    BY DEF executeRebalance, AfterSale, AfterMargin
  <1>3. Balanced(s)
    BY <1>1, OkBalanced
  <1> HIDE DEF o, s
  <1>4. Balanced(b1)
    BY <1>3, ShrinkLongBalanced
  <1> HIDE DEF b1
  <1>5. Balanced(b2)
    BY <1>4, MoveMarginBalanced
  <1> HIDE DEF b2
  <1>6. left \in Int
    BY <1>4, <1>5, BalancedTypes, PlanTypes DEF marginLeft
  <1>7. Balanced(b3)
    BY <1>5, GrowLongBalanced
  <1> HIDE DEF b3, left
  <1>8. Balanced(b4)
    BY <1>7, RehedgeBalanced
  <1> HIDE DEF b4
  <1>9. Balanced(b5)
    BY <1>6, <1>8, ReleaseLeftBalanced
  <1> HIDE DEF b5
  <1> QED BY <1>2, <1>9, ParkFloatBalanced

(* A step of the emergency that fails leaves the book as it was. *)
LEMMA TriedBalanced ==
    ASSUME NEW b, Balanced(b), NEW step, Balanced(step) PROVE Balanced(Tried(b, step))
  BY DEF Tried

LEMMA EmergencyCall ==
    ASSUME NEW b, Balanced(b), NEW e, Env(e), NEW minSell \in Int, NEW maxBuy \in Int
    PROVE  Balanced(emergencyUnwind(b, e, minSell, maxBuy))
  <1> DEFINE bound == IF b.size < 0 THEN maxBuy ELSE minSell
             b1 == TryClose(b, e, bound)
             b2 == TryMargin(b1, e)
             b3 == TryWeth(b2, e)
             b4 == TrySell(b3, e, minSell)
             b5 == TryReserve(b4, e)
  <1>1. emergencyUnwind(b, e, minSell, maxBuy) = ReturnAll(b5)
    BY DEF emergencyUnwind
  <1>2. Balanced(b1)
    <2>1. bound \in Int /\ -b.size \in Int
      BY BalancedTypes
    <2> HIDE DEF bound
    <2>2. Balanced(Trade(b, e, -b.size, bound))
      BY <2>1, TradeBalanced
    <2> QED BY <2>2, TriedBalanced DEF TryClose
  <1> HIDE DEF b1
  <1>3. Balanced(b2)
    <2>1. Balanced(WithdrawMargin(b1, e, b1.margin))
      BY <1>2, BalancedTypes, WithdrawMarginBalanced
    <2> QED BY <1>2, <2>1, TriedBalanced DEF TryMargin
  <1> HIDE DEF b2
  <1>4. Balanced(b3)
    <2>1. withdrawable(b2.lent, e.liquid.weth) \in Int
      BY <1>3, BalancedTypes, EnvTypes, WithdrawableInt
    <2>2. Balanced(WithdrawWeth(b2, e, withdrawable(b2.lent, e.liquid.weth)))
      BY <1>3, <2>1, WithdrawWethBalanced
    <2> QED BY <1>3, <2>2, TriedBalanced DEF TryWeth
  <1> HIDE DEF b3
  <1>5. Balanced(b4)
    <2> DEFINE minOut == (b3.weth * minSell) \div Q
    <2>1. b3.weth \in Int /\ minOut \in Int /\ wethHeld(b3, e) \in Int
      BY <1>4, BalancedTypes, QType, MulDivInt, HeldInt
    <2> HIDE DEF minOut
    <2>2. Balanced(Sold(b3, e, wethHeld(b3, e), b3.weth, minOut))
      BY <1>4, <2>1, SoldBalanced
    <2>3. b4 = IF b3.weth = 0 THEN b3 ELSE Tried(b3, Sold(b3, e, wethHeld(b3, e), b3.weth, minOut))
      BY DEF TrySell, minOut
    <2> QED BY <1>4, <2>2, <2>3, TriedBalanced
  <1> HIDE DEF b4
  <1>6. Balanced(b5)
    <2>1. withdrawable(b4.usdc, e.liquid.usdc) \in Int
      BY <1>5, BalancedTypes, EnvTypes, WithdrawableInt
    <2>2. Balanced(WithdrawUsdc(b4, e, withdrawable(b4.usdc, e.liquid.usdc)))
      BY <1>5, <2>1, WithdrawUsdcBalanced
    <2> QED BY <1>5, <2>2, TriedBalanced DEF TryReserve
  <1> HIDE DEF b5
  <1>7. b5.float \in Int
    BY <1>6, BalancedTypes
  <1> QED BY <1>1, <1>6, <1>7, ReturnToVaultBalanced DEF ReturnAll
-----------------------------------------------------------------------------
(* What happens at the venue without the strategy. *)

LEMMA LiquidatedBalanced ==
    ASSUME NEW b, Balanced(b), NEW e, Env(e) PROVE Balanced(Liquidated(b, e))
  <1> DEFINE s == Settled(b, e)
             f == Filled(s, -s.size, e.mark)
             cut == (notional(s.size, e.mark) * PENALTY) \div BPS
             penalty == Min2(cut, Pos(f.margin))
             left == f.margin - penalty
             o == /\ f.ok /\ e.feed /\ b.size # 0
                  /\ equity(s, e.mark) < marginReq(s.size, e.mark, MMR)
  <1>1. Balanced(s) /\ s.size \in Int /\ -s.size \in Int /\ e.mark \in Int
    BY SettledBalanced, BalancedTypes, EnvTypes
  <1>2. Balanced(f)
    BY <1>1, FilledBalanced
  <1>3. cut \in Int
    BY <1>1, NotionalInt, Ratios, MulDivInt
  <1>4. f.margin \in Int /\ penalty \in Int
    <2> HIDE DEF f, cut
    <2>1. f.margin \in Int /\ Pos(f.margin) \in Int
      BY <1>2, BalancedTypes, PosInt
    <2> QED BY <1>3, <2>1, MinInt
  <1>5. left \in Int /\ left = f.margin - penalty /\ o \in BOOLEAN
    BY <1>4
  <1>6. Liquidated(b, e) = [f EXCEPT !.margin = Pos(left), !.penalties = @ + penalty,
                                     !.badDebt = @ + Pos(-left), !.ok = o]
    BY DEF Liquidated
  <1> HIDE DEF f, penalty, left, o
  <1>7. Balanced([f EXCEPT !.margin = Pos(left), !.penalties = @ + penalty,
                           !.badDebt = @ + Pos(-left), !.ok = o])
    BY <1>2, <1>4, <1>5, WrittenOffBalanced
  <1> QED BY <1>6, <1>7

LEMMA DeleveragedBalanced ==
    ASSUME NEW b, Balanced(b), NEW e, Env(e), NEW share \in Int
    PROVE  Balanced(Deleveraged(b, e, share))
  <1> DEFINE s == Settled(b, e)
             d == -mulDivSigned(s.size, share, BPS)
             f == Filled(s, d, e.mark)
             o == f.ok /\ e.feed /\ mulDivSigned(s.size, share, BPS) # 0
  <1>1. Balanced(s) /\ s.size \in Int /\ e.mark \in Int
    BY SettledBalanced, BalancedTypes, EnvTypes
  <1>2. d \in Int
    <2>1. (s.size * share) \div BPS \in Int /\ (abs(s.size) * share) \div BPS \in Int
      BY <1>1, AbsInt, Ratios, MulDivInt
    <2> QED BY <2>1 DEF mulDivSigned
  <1>3. Balanced(f) /\ o \in BOOLEAN
    BY <1>1, <1>2, FilledBalanced
  <1>4. Deleveraged(b, e, share) = [f EXCEPT !.ok = o]
    BY DEF Deleveraged
  <1> HIDE DEF f, o
  <1>5. Balanced([f EXCEPT !.ok = o])
    BY <1>3, OkBalanced
  <1> QED BY <1>4, <1>5

\* Interest is in the balance only, until the next checkpoint.
LEMMA InterestBalanced ==
    ASSUME NEW b, Balanced(b), NEW l \in Loan, l.bal >= b.usdc.bal,
           l.last = b.usdc.last, l.chk = b.usdc.chk, NEW m \in Loan
    PROVE  Balanced([b EXCEPT !.usdc = l, !.lent = m])
  <1> DEFINE c == [b EXCEPT !.usdc = l, !.lent = m]
  <1>1. b \in Book /\ b.usdc.last \in Int /\ b.usdc.bal \in Int
    BY BalancedTypes DEF Balanced
  <1>2. c = [b EXCEPT !.usdc = l, !.lent = m]
    OBVIOUS
  <1>3. unexplained(b) = 0
    BY DEF Balanced
  <1> HIDE DEF c
  <1>4. c \in Book
    BY <1>1, <1>2 DEF Book
  <1>5. /\ c.float = b.float /\ c.usdc = l /\ c.margin = b.margin /\ c.basis = b.basis
        /\ c.netCapital = b.netCapital /\ c.funding = b.funding /\ c.realized = b.realized /\ c.spotRealized = b.spotRealized
        /\ c.badDebt = b.badDebt /\ c.swapFees = b.swapFees /\ c.swapSlippage = b.swapSlippage /\ c.feesPaid = b.feesPaid
        /\ c.penalties = b.penalties
    BY <1>1, <1>2 DEF Book
  <1>6. unexplained(c) = unexplained(b)
    BY <1>1, <1>3, <1>5, BookTypes, LoanTypes DEF unexplained
  <1>7. c.usdc.last <= c.usdc.bal
    BY <1>1, <1>5, LoanTypes DEF Balanced
  <1> QED BY <1>3, <1>4, <1>6, <1>7 DEF Balanced, c

\* Funding that is not settled is in neither margin nor income.
LEMMA FundingBalanced ==
    ASSUME NEW b, Balanced(b), NEW x \in Int, NEW a \in BOOLEAN
    PROVE  Balanced([b EXCEPT !.pending = x, !.accruing = a])
  <1> DEFINE c == [b EXCEPT !.pending = x, !.accruing = a]
  <1>1. b \in Book
    BY BookTypes DEF Balanced
  <1>2. c = [b EXCEPT !.pending = x, !.accruing = a]
    OBVIOUS
  <1>3. unexplained(b) = 0
    BY DEF Balanced
  <1> HIDE DEF c
  <1>4. c \in Book
    BY <1>1, <1>2 DEF Book
  <1>5. /\ c.float = b.float /\ c.usdc = b.usdc /\ c.margin = b.margin /\ c.basis = b.basis
        /\ c.netCapital = b.netCapital /\ c.funding = b.funding /\ c.realized = b.realized /\ c.spotRealized = b.spotRealized
        /\ c.badDebt = b.badDebt /\ c.swapFees = b.swapFees /\ c.swapSlippage = b.swapSlippage /\ c.feesPaid = b.feesPaid
        /\ c.penalties = b.penalties
    BY <1>1, <1>2 DEF Book
  <1>6. unexplained(c) = unexplained(b)
    BY <1>1, <1>3, <1>5, BookTypes, LoanTypes DEF unexplained
  <1> QED BY <1>3, <1>4, <1>5, <1>6 DEF Balanced, c

LEMMA IndexBalanced ==
    ASSUME NEW b, Balanced(b), NEW a \in BOOLEAN
    PROVE  Balanced([b EXCEPT !.accruing = a])
  <1> DEFINE c == [b EXCEPT !.accruing = a]
  <1>1. b \in Book
    BY BookTypes DEF Balanced
  <1>2. c = [b EXCEPT !.accruing = a]
    OBVIOUS
  <1>3. unexplained(b) = 0
    BY DEF Balanced
  <1> HIDE DEF c
  <1>4. c \in Book
    BY <1>1, <1>2 DEF Book
  <1>5. /\ c.float = b.float /\ c.usdc = b.usdc /\ c.margin = b.margin /\ c.basis = b.basis
        /\ c.netCapital = b.netCapital /\ c.funding = b.funding /\ c.realized = b.realized /\ c.spotRealized = b.spotRealized
        /\ c.badDebt = b.badDebt /\ c.swapFees = b.swapFees /\ c.swapSlippage = b.swapSlippage /\ c.feesPaid = b.feesPaid
        /\ c.penalties = b.penalties
    BY <1>1, <1>2 DEF Book
  <1>6. unexplained(c) = unexplained(b)
    BY <1>1, <1>3, <1>5, BookTypes, LoanTypes DEF unexplained
  <1> QED BY <1>3, <1>4, <1>5, <1>6 DEF Balanced, c


-----------------------------------------------------------------------------
(* Signs: no unsigned amount of a book is ever taken below zero by a call  *)
(* that does not revert, and no WETH is left lying in the strategy but by   *)
(* the emergency.                                                          *)

NaturalLoan(l) == l.bal >= 0 /\ l.last >= 0 /\ l.chk >= 0
Natural(b) ==
    /\ NaturalLoan(b.usdc) /\ NaturalLoan(b.lent)
    /\ b.vault >= 0 /\ b.float >= 0 /\ b.weth >= 0 /\ b.basis >= 0 /\ b.swapFees >= 0
    /\ b.entry >= 0 /\ b.markEntry >= 0
    /\ b.feesPaid >= 0 /\ b.penalties >= 0 /\ b.badDebt >= 0

(* From b to c, unless c is what a reverted call would have left. *)
Signed(b, c) == c.ok => b.ok /\ (Natural(b) => Natural(c))
Tidy(b, c) == Signed(b, c) /\ (b.weth = 0 => c.weth = 0)

LEMMA TidyTrans ==
    /\ \A b, c, d : Tidy(b, c) /\ Tidy(c, d) => Tidy(b, d)
    /\ \A b, c, d : Signed(b, c) /\ Signed(c, d) => Signed(b, d)
    /\ \A b : Tidy(b, b) /\ Signed(b, b)
  BY DEF Tidy, Signed

\* What a call that did revert leaves is not looked at.
LEMMA OkTidy ==
    ASSUME NEW b \in Book, NEW o \in BOOLEAN, o => b.ok
    PROVE  Tidy(b, [b EXCEPT !.ok = o])
  <1> DEFINE c == [b EXCEPT !.ok = o]
  <1>1. /\ c.usdc = b.usdc /\ c.lent = b.lent /\ c.vault = b.vault /\ c.float = b.float /\ c.weth = b.weth
        /\ c.basis = b.basis /\ c.swapFees = b.swapFees /\ c.entry = b.entry /\ c.markEntry = b.markEntry
        /\ c.feesPaid = b.feesPaid /\ c.penalties = b.penalties /\ c.badDebt = b.badDebt /\ c.ok = o
    BY DEF Book
  <1> HIDE DEF c
  <1>2. Tidy(b, c)
    BY <1>1 DEF Tidy, Signed, Natural
  <1> QED BY <1>2 DEF c

\* What a checkpoint books is not negative, nor is what it leaves.
LEMMA MovedNatural ==
    ASSUME NEW l \in Loan, NaturalLoan(l), NEW x \in Int, l.bal + x >= 0
    PROVE  NaturalLoan(Moved(l, x))
  <1>1. l.bal \in Int /\ l.last \in Int /\ l.chk \in Int
    BY DEF Loan
  <1>2. interest(l) >= 0
    BY <1>1 DEF NaturalLoan, interest, Pos
  <1> QED BY <1>1, <1>2 DEF Moved, NaturalLoan

LEMMA WithdrawableNatural ==
    ASSUME NEW l \in Loan, NEW others \in Int
    PROVE  /\ withdrawable(l, others) <= l.bal
           /\ NaturalLoan(l) => withdrawable(l, others) >= 0
  <1>1. l.bal \in Int /\ Pos(l.bal + others) \in Nat
    BY LoanTypes, PosInt
  <1> QED BY <1>1 DEF withdrawable, Min2, NaturalLoan

LEMMA SupplyUsdcTidy ==
    ASSUME NEW b, Balanced(b), NEW e, NEW x \in Int, b.float >= 0 => x >= 0, x <= b.float
    PROVE  Tidy(b, SupplyUsdc(b, e, x))
  <1> DEFINE c == SupplyUsdc(b, e, x)
             f == b.float - x
             u == Moved(b.usdc, x)
  <1>1. b \in Book /\ b.usdc \in Loan /\ b.float \in Int /\ b.usdc.bal \in Int
    BY BalancedTypes
  <1>2. f >= 0
    BY <1>1
  <1>3. Natural(b) => NaturalLoan(u)
    <2>1. NaturalLoan(b.usdc) /\ b.float >= 0 => b.usdc.bal + x >= 0
      BY <1>1 DEF NaturalLoan
    <2> QED BY <1>1, <2>1, MovedNatural DEF Natural
  <1>4. c = [b EXCEPT !.float = f, !.usdc = u, !.ok = b.ok /\ e.lending]
    BY DEF SupplyUsdc
  <1> HIDE DEF c, f, u
  <1>5. /\ c.usdc = u /\ c.lent = b.lent /\ c.vault = b.vault /\ c.float = f /\ c.weth = b.weth
        /\ c.basis = b.basis /\ c.swapFees = b.swapFees /\ c.entry = b.entry /\ c.markEntry = b.markEntry
        /\ c.feesPaid = b.feesPaid /\ c.penalties = b.penalties /\ c.badDebt = b.badDebt
        /\ c.ok = (b.ok /\ e.lending)
    BY <1>1, <1>4 DEF Book
  <1> QED BY <1>2, <1>3, <1>5 DEF Tidy, Signed, Natural, c

LEMMA WithdrawUsdcTidy ==
    ASSUME NEW b, Balanced(b), NEW e, Env(e), NEW x \in Int, x >= 0
    PROVE  Tidy(b, WithdrawUsdc(b, e, x))
  <1> DEFINE c == WithdrawUsdc(b, e, x)
             f == b.float + x
             u == Moved(b.usdc, -x)
             o == b.ok /\ e.lending /\ x <= withdrawable(b.usdc, e.liquid.usdc)
  <1>1. b \in Book /\ b.usdc \in Loan /\ b.float \in Int /\ b.usdc.bal \in Int /\ -x \in Int
    BY BalancedTypes
  <1>2. b.float >= 0 => f >= 0
    BY <1>1
  <1>3. o /\ Natural(b) => NaturalLoan(u)
    <2>1. x <= withdrawable(b.usdc, e.liquid.usdc) => b.usdc.bal + (-x) >= 0
      BY <1>1, EnvTypes, WithdrawableInt, WithdrawableNatural
    <2> QED BY <1>1, <2>1, MovedNatural DEF Natural
  <1>4. c = [b EXCEPT !.float = f, !.usdc = u, !.ok = o]
    BY DEF WithdrawUsdc
  <1>5. o => b.ok
    OBVIOUS
  <1> HIDE DEF c, f, u, o
  <1>6. /\ c.usdc = u /\ c.lent = b.lent /\ c.vault = b.vault /\ c.float = f /\ c.weth = b.weth
        /\ c.basis = b.basis /\ c.swapFees = b.swapFees /\ c.entry = b.entry /\ c.markEntry = b.markEntry
        /\ c.feesPaid = b.feesPaid /\ c.penalties = b.penalties /\ c.badDebt = b.badDebt
        /\ c.ok = o
    BY <1>1, <1>4 DEF Book
  <1> QED BY <1>2, <1>3, <1>5, <1>6 DEF Tidy, Signed, Natural, c

LEMMA WithdrawWethSigned ==
    ASSUME NEW b, Balanced(b), NEW e, Env(e), NEW x \in Int, x >= 0
    PROVE  Signed(b, WithdrawWeth(b, e, x)) /\ WithdrawWeth(b, e, x).weth = b.weth + x
  <1> DEFINE c == WithdrawWeth(b, e, x)
             w == b.weth + x
             u == Moved(b.lent, -x)
             o == b.ok /\ e.lending /\ x <= withdrawable(b.lent, e.liquid.weth)
  <1>1. b \in Book /\ b.lent \in Loan /\ b.weth \in Int /\ b.lent.bal \in Int /\ -x \in Int
    BY BalancedTypes
  <1>2. b.weth >= 0 => w >= 0
    BY <1>1
  <1>3. o /\ Natural(b) => NaturalLoan(u)
    <2>1. x <= withdrawable(b.lent, e.liquid.weth) => b.lent.bal + (-x) >= 0
      BY <1>1, EnvTypes, WithdrawableInt, WithdrawableNatural
    <2> QED BY <1>1, <2>1, MovedNatural DEF Natural
  <1>4. c = [b EXCEPT !.weth = w, !.lent = u, !.ok = o]
    BY DEF WithdrawWeth
  <1>5. o => b.ok
    OBVIOUS
  <1>6. w = b.weth + x
    OBVIOUS
  <1> HIDE DEF c, w, u, o
  <1>7. /\ c.usdc = b.usdc /\ c.lent = u /\ c.vault = b.vault /\ c.float = b.float /\ c.weth = w
        /\ c.basis = b.basis /\ c.swapFees = b.swapFees /\ c.entry = b.entry /\ c.markEntry = b.markEntry
        /\ c.feesPaid = b.feesPaid /\ c.penalties = b.penalties /\ c.badDebt = b.badDebt
        /\ c.ok = o
    BY <1>1, <1>4 DEF Book
  <1> QED BY <1>2, <1>3, <1>5, <1>6, <1>7 DEF Signed, Natural, c

LEMMA ReturnToVaultTidy ==
    ASSUME NEW b, Balanced(b), NEW x \in Int, x <= b.float, b.float >= 0 => x >= 0
    PROVE  Tidy(b, ReturnToVault(b, x))
  <1> DEFINE c == ReturnToVault(b, x)
             n == b.netCapital - x
             f == b.float - x
             v == b.vault + x
  <1>1. b \in Book /\ b.float \in Int /\ b.vault \in Int
    BY BalancedTypes
  <1>2. f >= 0 /\ (b.float >= 0 /\ b.vault >= 0 => v >= 0)
    BY <1>1
  <1>3. c = [b EXCEPT !.netCapital = n, !.float = f, !.vault = v]
    BY DEF ReturnToVault
  <1> HIDE DEF c, n, f, v
  <1>4. /\ c.usdc = b.usdc /\ c.lent = b.lent /\ c.vault = v /\ c.float = f /\ c.weth = b.weth
        /\ c.basis = b.basis /\ c.swapFees = b.swapFees /\ c.entry = b.entry /\ c.markEntry = b.markEntry
        /\ c.feesPaid = b.feesPaid /\ c.penalties = b.penalties /\ c.badDebt = b.badDebt
        /\ c.ok = b.ok
    BY <1>1, <1>3 DEF Book
  <1> QED BY <1>2, <1>4 DEF Tidy, Signed, Natural, c

LEMMA SettledTidy ==
    ASSUME NEW b, Balanced(b), NEW e PROVE Tidy(b, Settled(b, e))
  <1> DEFINE c == Settled(b, e)
             m == b.margin + b.pending
             g == b.funding + b.pending
             o == b.ok /\ (e.feed \/ ~b.accruing)
  <1>1. b \in Book
    BY BalancedTypes
  <1>2. c = [b EXCEPT !.margin = m, !.funding = g, !.pending = 0, !.accruing = FALSE, !.ok = o]
    BY DEF Settled
  <1>3. o => b.ok
    OBVIOUS
  <1> HIDE DEF c, m, g, o
  <1>4. /\ c.usdc = b.usdc /\ c.lent = b.lent /\ c.vault = b.vault /\ c.float = b.float /\ c.weth = b.weth
        /\ c.basis = b.basis /\ c.swapFees = b.swapFees /\ c.entry = b.entry /\ c.markEntry = b.markEntry
        /\ c.feesPaid = b.feesPaid /\ c.penalties = b.penalties /\ c.badDebt = b.badDebt
        /\ c.ok = o
    BY <1>1, <1>2 DEF Book
  <1> QED BY <1>3, <1>4 DEF Tidy, Signed, Natural, c

-----------------------------------------------------------------------------
(* Signs of the arithmetic. *)

\* Prices, fees and impacts: what is paid is less than what it is paid for.
LEMMA RatioBounds == \A r \in {FEE, PENALTY, DEX_FEE, SPREAD, CAP} : r \in Nat /\ r < BPS
  <1>1. BPS \in Nat \ {0}
    BY UnitsAssumption
  <1>2. \A r \in {FEE, PENALTY, DEX_FEE, SPREAD, CAP} : r \in 0..(BPS - 1)
    BY BookAssumption
  <1> QED BY <1>1, <1>2

LEMMA MulDivNat ==
    ASSUME NEW a \in Nat, NEW b \in Nat, NEW d \in Nat \ {0}
    PROVE  a * b \in Nat /\ (a * b) \div d \in Nat /\ CeilDiv(a * b, d) \in Nat
  BY MulNat, DivNat, CeilDivType

LEMMA NotionalNat ==
    ASSUME NEW size \in Int, NEW price \in Nat PROVE notional(size, price) \in Nat
  BY AbsInt, MulDivNat, QType DEF notional, Q

LEMMA EntryNat ==
    ASSUME NEW size \in Int, NEW entry \in Nat, NEW delta \in Int, NEW price \in Nat
    PROVE  tradeEntry(size, entry, delta, price) \in Nat
  <1>1. CASE size + delta = 0
    BY <1>1 DEF tradeEntry
  <1>2. CASE size + delta # 0
    <2>1. abs(size) + abs(delta) \in Nat \ {0} /\ abs(size) \in Nat /\ abs(delta) \in Nat
      BY <1>2 DEF abs
    <2>2. abs(size) * entry + abs(delta) * price \in Nat
      BY <2>1, MulNat
    <2>3. (abs(size) * entry + abs(delta) * price) \div (abs(size) + abs(delta)) \in Nat
      BY <2>1, <2>2, DivNat
    <2> QED BY <2>3 DEF tradeEntry
  <1> QED BY <1>1, <1>2

LEMMA ImpactBounds == ASSUME NEW v \in Nat PROVE impact(v) \in Nat /\ impact(v) < BPS
  <1>1. (v * BPS) \div DEPTH \in Nat
    BY Ratios, MulDivNat
  <1>2. SPREAD \in Nat /\ CAP \in Nat /\ CAP < BPS
    BY RatioBounds
  <1> HIDE DEF impact
  <1>3. SPREAD + (v * BPS) \div DEPTH \in Nat
    BY <1>1, <1>2
  <1> QED BY <1>2, <1>3, Ratios DEF impact, Min2

LEMMA ExecPriceNat ==
    ASSUME NEW delta \in Int, NEW mark \in Nat PROVE execPrice(delta, mark) \in Nat
  <1> DEFINE i == impact(notional(delta, mark))
  <1>1. i \in Nat /\ i < BPS
    BY NotionalNat, ImpactBounds
  <1> HIDE DEF i
  <1>2. BPS + i \in Nat /\ BPS - i \in Nat
    BY <1>1, Ratios
  <1>3. CeilDiv(mark * (BPS + i), BPS) \in Nat /\ (mark * (BPS - i)) \div BPS \in Nat
    BY <1>2, Ratios, MulDivNat
  <1> QED BY <1>3 DEF execPrice, i

\* A fee is at most what it is taken from.
LEMMA FeeBounds ==
    ASSUME NEW x \in Nat PROVE CeilDiv(x * DEX_FEE, BPS) \in Nat /\ CeilDiv(x * DEX_FEE, BPS) <= x
  <1>1. DEX_FEE \in Nat /\ DEX_FEE <= BPS /\ BPS \in Nat \ {0}
    BY RatioBounds, Ratios
  <1>2. x * DEX_FEE \in Nat /\ x * DEX_FEE <= x * BPS
    BY <1>1, MulNat, MulMono
  <1> QED BY <1>1, <1>2, CeilAtMost, CeilDivType

LEMMA QuoteBuyNat ==
    ASSUME NEW x \in Nat, NEW mark \in Nat \ {0} PROVE quoteBuy(x, mark) \in Nat
  <1> DEFINE net == x - CeilDiv(x * DEX_FEE, BPS)
             qty == (net * Q) \div mark
             rest == BPS - impact(net)
  <1>1. net \in Nat
    BY FeeBounds
  <1> HIDE DEF net
  <1>2. qty \in Nat
    BY <1>1, QType, MulDivNat
  <1>4. rest \in Nat
    BY <1>1, Ratios, ImpactBounds
  <1> HIDE DEF qty, rest
  <1>3. (qty * rest) \div BPS \in Nat
    BY <1>2, <1>4, Ratios, MulDivNat
  <1> QED BY <1>3 DEF quoteBuy, net, qty, rest

LEMMA QuoteSellNat ==
    ASSUME NEW qty \in Nat, NEW mark \in Nat PROVE quoteSell(qty, mark) \in Nat
  <1> DEFINE net == qty - CeilDiv(qty * DEX_FEE, BPS)
             value == (net * mark) \div Q
             rest == BPS - impact(value)
  <1>1. net \in Nat
    BY FeeBounds
  <1> HIDE DEF net
  <1>2. value \in Nat
    BY <1>1, QType, MulDivNat
  <1> HIDE DEF value
  <1>3. rest \in Nat
    BY <1>2, Ratios, ImpactBounds
  <1>4. (value * rest) \div BPS \in Nat
    BY <1>2, <1>3, Ratios, MulDivNat
  <1> QED BY <1>4 DEF quoteSell, net, value

-----------------------------------------------------------------------------
(* The primitive steps with amounts of their own. *)

LEMMA FilledTidy ==
    ASSUME NEW b, Balanced(b), NEW delta \in Int, NEW p \in Nat
    PROVE  Tidy(b, Filled(b, delta, p)) /\ Filled(b, delta, p).ok = b.ok
  <1> DEFINE c == Filled(b, delta, p)
             t == tradeEntry(b.size, b.entry, delta, p)
             s == b.size + delta
             m == b.margin + tradeRealized(b.size, b.entry, delta, p)
             r == b.realized + tradeRealized(b.size, b.entry, delta, p)
  <1>1. b \in Book /\ b.size \in Int /\ b.entry \in Int
    BY BalancedTypes
  <1>2. b.entry >= 0 => t >= 0
    <2>1. ASSUME b.entry >= 0 PROVE t \in Nat
      <3>1. b.entry \in Nat
        BY <1>1, <2>1
      <3> QED BY <1>1, <3>1, EntryNat
    <2> QED BY <2>1
  <1>3. c = [b EXCEPT !.size = s, !.entry = t, !.margin = m, !.realized = r]
    BY DEF Filled
  <1> HIDE DEF c, t, s, m, r
  <1>4. /\ c.usdc = b.usdc /\ c.lent = b.lent /\ c.vault = b.vault /\ c.float = b.float /\ c.weth = b.weth
        /\ c.basis = b.basis /\ c.swapFees = b.swapFees /\ c.entry = t /\ c.markEntry = b.markEntry
        /\ c.feesPaid = b.feesPaid /\ c.penalties = b.penalties /\ c.badDebt = b.badDebt
        /\ c.ok = b.ok
    BY <1>1, <1>3 DEF Book
  <1> QED BY <1>2, <1>4 DEF Tidy, Signed, Natural, c

LEMMA ChargedTidy ==
    ASSUME NEW b, Balanced(b), NEW delta \in Int, NEW p \in Nat
    PROVE  Tidy(b, Charged(b, delta, p))
  <1> DEFINE f == Filled(b, delta, p)
             fee == CeilDiv(notional(delta, p) * FEE, BPS)
             c == Charged(b, delta, p)
             m == f.margin - fee
             g == f.feesPaid + fee
  <1>1. Balanced(f) /\ Tidy(b, f)
    BY FilledBalanced, FilledTidy
  <1>2. fee \in Nat
    BY NotionalNat, RatioBounds, Ratios, MulDivNat
  <1>3. c = [f EXCEPT !.margin = m, !.feesPaid = g]
    BY DEF Charged
  <1> HIDE DEF f, fee
  <1>4. f \in Book /\ f.feesPaid \in Int
    BY <1>1, BalancedTypes, BookTypes
  <1>5. f.feesPaid >= 0 => g >= 0
    BY <1>2, <1>4
  <1> HIDE DEF c, m, g
  <1>6. /\ c.usdc = f.usdc /\ c.lent = f.lent /\ c.vault = f.vault /\ c.float = f.float /\ c.weth = f.weth
        /\ c.basis = f.basis /\ c.swapFees = f.swapFees /\ c.entry = f.entry /\ c.markEntry = f.markEntry
        /\ c.feesPaid = g /\ c.penalties = f.penalties /\ c.badDebt = f.badDebt
        /\ c.ok = f.ok
    BY <1>3, <1>4 DEF Book
  <1>7. Tidy(f, c)
    BY <1>5, <1>6 DEF Tidy, Signed, Natural
  <1> QED BY <1>1, <1>7, TidyTrans DEF c

LEMMA TradedTidy ==
    ASSUME NEW a, Balanced(a), NEW b, Balanced(b), Tidy(a, b), NEW e, Env(e),
           NEW delta \in Int, NEW p \in Int, NEW bound \in Int
    PROVE  Tidy(a, Traded(a, b, e, delta, p, bound))
  <1> DEFINE c == Traded(a, b, e, delta, p, bound)
             s == b.slippage + slippageOf(delta, p, e.mark)
             t == tradeEntry(a.size, a.markEntry, delta, e.mark)
             o == /\ b.ok /\ e.feed /\ delta # 0
                  /\ IF delta > 0 THEN p <= bound ELSE p >= bound
                  /\ IncreasesRisk(a.size, b.size) => equity(b, e.mark) >= marginReq(b.size, e.mark, IMR)
  <1>1. b \in Book /\ a.size \in Int /\ a.markEntry \in Int /\ e.mark \in Nat
    BY BalancedTypes, BookTypes, EnvTypes
  <1>2. a.markEntry >= 0 => t >= 0
    <2>1. ASSUME a.markEntry >= 0 PROVE t \in Nat
      <3>1. a.markEntry \in Nat
        BY <1>1, <2>1
      <3> QED BY <1>1, <3>1, EntryNat
    <2> QED BY <2>1
  <1>3. c = [b EXCEPT !.slippage = s, !.markEntry = t, !.ok = o]
    BY DEF Traded
  <1>4. o => b.ok
    OBVIOUS
  <1> HIDE DEF c, s, t, o
  <1>5. /\ c.usdc = b.usdc /\ c.lent = b.lent /\ c.vault = b.vault /\ c.float = b.float /\ c.weth = b.weth
        /\ c.basis = b.basis /\ c.swapFees = b.swapFees /\ c.entry = b.entry /\ c.markEntry = t
        /\ c.feesPaid = b.feesPaid /\ c.penalties = b.penalties /\ c.badDebt = b.badDebt
        /\ c.ok = o
    BY <1>1, <1>3 DEF Book
  <1> QED BY <1>2, <1>4, <1>5 DEF Tidy, Signed, Natural, c

LEMMA TradeTidy ==
    ASSUME NEW b, Balanced(b), NEW e, Env(e), NEW delta \in Int, NEW bound \in Int
    PROVE  Tidy(b, Trade(b, e, delta, bound))
  <1> DEFINE p == execPrice(delta, e.mark)
             s == Settled(b, e)
             t == Charged(s, delta, p)
  <1>1. p \in Nat
    BY EnvTypes, ExecPriceNat
  <1>2. Balanced(s) /\ Tidy(b, s)
    BY SettledBalanced, SettledTidy
  <1>3. Balanced(t) /\ Tidy(s, t)
    BY <1>1, <1>2, ChargedBalanced, ChargedTidy
  <1>4. Tidy(b, t)
    BY <1>2, <1>3, TidyTrans
  <1> HIDE DEF t
  <1>5. Tidy(b, Traded(b, t, e, delta, p, bound))
    BY <1>1, <1>3, <1>4, TradedTidy
  <1> QED BY <1>5 DEF Trade, TradeAt, t

LEMMA DepositMarginTidy ==
    ASSUME NEW b, Balanced(b), NEW e, NEW x \in Int
    PROVE  Tidy(b, DepositMargin(b, e, x))
  <1> DEFINE s == Settled(b, e)
             c == DepositMargin(b, e, x)
             f == s.float - x
             m == s.margin + x
             o == s.ok /\ x > 0 /\ b.float >= x
  <1>1. Balanced(s) /\ Tidy(b, s)
    BY SettledBalanced, SettledTidy
  <1>2. s.float = b.float
    BY BalancedTypes DEF Settled, Book
  <1>3. c = [s EXCEPT !.float = f, !.margin = m, !.ok = o]
    BY DEF DepositMargin
  <1> HIDE DEF s
  <1>4. s \in Book /\ s.float \in Int
    BY <1>1, BalancedTypes
  <1>5. o => s.ok /\ f >= 0
    BY <1>2, <1>4
  <1> HIDE DEF c, f, m, o
  <1>6. /\ c.usdc = s.usdc /\ c.lent = s.lent /\ c.vault = s.vault /\ c.float = f /\ c.weth = s.weth
        /\ c.basis = s.basis /\ c.swapFees = s.swapFees /\ c.entry = s.entry /\ c.markEntry = s.markEntry
        /\ c.feesPaid = s.feesPaid /\ c.penalties = s.penalties /\ c.badDebt = s.badDebt
        /\ c.ok = o
    BY <1>3, <1>4 DEF Book
  <1>7. Tidy(s, c)
    BY <1>5, <1>6 DEF Tidy, Signed, Natural
  <1> QED BY <1>1, <1>7, TidyTrans DEF c

LEMMA WithdrawMarginTidy ==
    ASSUME NEW b, Balanced(b), NEW e, NEW x \in Int
    PROVE  Tidy(b, WithdrawMargin(b, e, x))
  <1> DEFINE s == Settled(b, e)
             c == WithdrawMargin(b, e, x)
             f == s.float + x
             m == s.margin - x
             o == /\ s.ok /\ x > 0 /\ s.margin >= x
                  /\ b.size # 0 => /\ e.feed
                                   /\ equity(s, e.mark) - x >= marginReq(b.size, e.mark, IMR)
  <1>1. Balanced(s) /\ Tidy(b, s)
    BY SettledBalanced, SettledTidy
  <1>2. c = [s EXCEPT !.float = f, !.margin = m, !.ok = o]
    BY DEF WithdrawMargin
  <1> HIDE DEF s
  <1>3. s \in Book /\ s.float \in Int
    BY <1>1, BalancedTypes
  <1>4. o => s.ok /\ (s.float >= 0 => f >= 0)
    BY <1>3
  <1> HIDE DEF c, f, m, o
  <1>5. /\ c.usdc = s.usdc /\ c.lent = s.lent /\ c.vault = s.vault /\ c.float = f /\ c.weth = s.weth
        /\ c.basis = s.basis /\ c.swapFees = s.swapFees /\ c.entry = s.entry /\ c.markEntry = s.markEntry
        /\ c.feesPaid = s.feesPaid /\ c.penalties = s.penalties /\ c.badDebt = s.badDebt
        /\ c.ok = o
    BY <1>2, <1>3 DEF Book
  <1>6. Tidy(s, c)
    BY <1>4, <1>5 DEF Tidy, Signed, Natural
  <1> QED BY <1>1, <1>6, TidyTrans DEF c

-----------------------------------------------------------------------------
(* The steps built from them. *)

LEMMA ParkFloatTidy ==
    ASSUME NEW b, Balanced(b), NEW e PROVE Tidy(b, ParkFloat(b, e)) /\ ParkFloat(b, e).float = 0
  <1>1. b \in Book /\ b.float \in Int
    BY BalancedTypes
  <1>2. CASE b.float = 0
    BY <1>2, TidyTrans DEF ParkFloat
  <1>3. CASE b.float # 0
    <2>1. Tidy(b, SupplyUsdc(b, e, b.float))
      BY <1>1, SupplyUsdcTidy
    <2>2. SupplyUsdc(b, e, b.float).float = b.float - b.float
      BY <1>1 DEF SupplyUsdc, Book
    <2> QED BY <1>1, <1>3, <2>1, <2>2 DEF ParkFloat
  <1> QED BY <1>2, <1>3

LEMMA PullFromReserveTidy ==
    ASSUME NEW b, Balanced(b), NEW e, Env(e), NEW x \in Int
    PROVE  Tidy(b, PullFromReserve(b, e, x))
  <1>1. CASE b.float >= x
    BY <1>1, TidyTrans DEF PullFromReserve
  <1>2. CASE ~(b.float >= x)
    <2>1. x - b.float \in Int /\ x - b.float >= 0
      BY <1>2, BalancedTypes
    <2> QED BY <1>2, <2>1, WithdrawUsdcTidy DEF PullFromReserve
  <1> QED BY <1>1, <1>2

\* What is bought is lent at once.
LEMMA BuyWethTidy ==
    ASSUME NEW b, Balanced(b), NEW e, Env(e), NEW x \in Nat, NEW slip \in Int
    PROVE  Tidy(b, BuyWeth(b, e, x, slip))
  <1> DEFINE qty == quoteBuy(x, e.mark)
             mid == (qty * e.price) \div Q
             fee == CeilDiv(x * DEX_FEE, BPS)
             minOut == (((x * Q) \div e.price) * (BPS - slip)) \div BPS
             o == b.ok /\ e.feed /\ e.dex /\ qty >= minOut /\ b.float >= x
             f == b.float - x
             w == b.weth + qty
             a == b.basis + mid
             g == b.swapFees + fee
             s == b.swapSlippage + (x - mid - fee)
             t == [b EXCEPT !.float = f, !.weth = w, !.basis = a, !.swapFees = g,
                            !.swapSlippage = s, !.ok = o]
             l == Moved(t.lent, qty)
             c == BuyWeth(b, e, x, slip)
  <1>1. /\ b \in Book /\ b.float \in Int /\ b.weth \in Int /\ b.basis \in Int /\ b.swapFees \in Int
        /\ b.lent \in Loan /\ b.lent.bal \in Int
    BY BalancedTypes, BookTypes
  <1>2. qty \in Nat
    BY EnvTypes, QuoteBuyNat
  <1>3. mid \in Nat /\ fee \in Nat
    <2> HIDE DEF qty
    <2>1. e.price \in Nat
      BY EnvTypes
    <2> QED BY <1>2, <2>1, QType, MulDivNat, FeeBounds
  <1>4. c = [t EXCEPT !.weth = @ - qty, !.lent = l, !.ok = @ /\ e.lending]
    BY DEF BuyWeth, SupplyWeth
  <1> HIDE DEF c, qty, mid, fee
  <1>5. /\ o => f >= 0
        /\ b.basis >= 0 => a >= 0
        /\ b.swapFees >= 0 => g >= 0
        /\ w - qty = b.weth /\ (o => b.ok)
    BY <1>1, <1>2, <1>3
  <1> HIDE DEF f, w, a, g, s, o
  <1>6. /\ t.usdc = b.usdc /\ t.lent = b.lent /\ t.vault = b.vault /\ t.float = f /\ t.weth = w
        /\ t.basis = a /\ t.swapFees = g /\ t.entry = b.entry /\ t.markEntry = b.markEntry
        /\ t.feesPaid = b.feesPaid /\ t.penalties = b.penalties /\ t.badDebt = b.badDebt
        /\ t.ok = o /\ DOMAIN t = DOMAIN b
    BY <1>1 DEF Book
  <1>7. NaturalLoan(b.lent) => NaturalLoan(l)
    <2>1. NaturalLoan(b.lent) => b.lent.bal + qty >= 0
      BY <1>1, <1>2 DEF NaturalLoan
    <2> QED BY <1>1, <1>2, <1>6, <2>1, MovedNatural
  <1> HIDE DEF l
  <1>8. /\ c.usdc = t.usdc /\ c.lent = l /\ c.vault = t.vault /\ c.float = t.float /\ c.weth = t.weth - qty
        /\ c.basis = t.basis /\ c.swapFees = t.swapFees /\ c.entry = t.entry /\ c.markEntry = t.markEntry
        /\ c.feesPaid = t.feesPaid /\ c.penalties = t.penalties /\ c.badDebt = t.badDebt
        /\ c.ok = (t.ok /\ e.lending)
    BY <1>1, <1>4, <1>6 DEF Book
  <1> HIDE DEF t
  <1>9. c.weth = b.weth
    BY <1>5, <1>6, <1>8
  <1> QED BY <1>5, <1>6, <1>7, <1>8, <1>9 DEF Tidy, Signed, Natural, c

\* A sale takes out of the basis no more than there is.
LEMMA RecordedSigned ==
    ASSUME NEW b, Balanced(b), NEW held \in Int, NEW qty \in Nat, qty <= b.weth, NEW out \in Nat,
           NEW feeWeth \in Nat, NEW price \in Nat
    PROVE  /\ Signed(b, Recorded(b, held, qty, out, feeWeth, price))
           /\ Recorded(b, held, qty, out, feeWeth, price).weth = b.weth - qty
  <1> DEFINE mid == (qty * price) \div Q
             fee == (feeWeth * price) \div Q
             part == (b.basis * qty) \div held
             portion == IF held <= 0 THEN 0 ELSE Min2(b.basis, part)
             w == b.weth - qty
             f == b.float + out
             a == b.basis - portion
             r == b.spotRealized + (mid - portion)
             g == b.swapFees + fee
             s == b.swapSlippage + (mid - out - fee)
             c == Recorded(b, held, qty, out, feeWeth, price)
  <1>1. b \in Book /\ b.float \in Int /\ b.weth \in Int /\ b.basis \in Int /\ b.swapFees \in Int
    BY BalancedTypes, BookTypes
  <1>2. fee \in Nat
    BY QType, MulDivNat
  <1>3. portion \in Int /\ (b.basis >= 0 => portion <= b.basis)
    <2>1. CASE held <= 0
      BY <1>1, <2>1
    <2>2. CASE ~(held <= 0)
      <3>1. held \in Nat \ {0}
        BY <2>2
      <3>2. part \in Int
        BY <1>1, <3>1, MulDivInt
      <3> HIDE DEF part
      <3> QED BY <1>1, <2>2, <3>2 DEF Min2
    <2> QED BY <2>1, <2>2
  <1>4. c = [b EXCEPT !.weth = w, !.float = f, !.basis = a, !.spotRealized = r, !.swapFees = g,
                      !.swapSlippage = s]
    BY DEF Recorded
  <1> HIDE DEF c, fee, portion, mid
  <1>5. /\ w >= 0 /\ (b.float >= 0 => f >= 0) /\ (b.basis >= 0 => a >= 0) /\ (b.swapFees >= 0 => g >= 0)
    BY <1>1, <1>2, <1>3
  <1>6. w = b.weth - qty
    OBVIOUS
  <1> HIDE DEF w, f, a, r, g, s
  <1>7. /\ c.usdc = b.usdc /\ c.lent = b.lent /\ c.vault = b.vault /\ c.float = f /\ c.weth = w
        /\ c.basis = a /\ c.swapFees = g /\ c.entry = b.entry /\ c.markEntry = b.markEntry
        /\ c.feesPaid = b.feesPaid /\ c.penalties = b.penalties /\ c.badDebt = b.badDebt
        /\ c.ok = b.ok
    BY <1>1, <1>4 DEF Book
  <1> QED BY <1>5, <1>6, <1>7 DEF Signed, Natural, c

LEMMA SoldSigned ==
    ASSUME NEW b, Balanced(b), NEW e, Env(e), NEW held \in Int, NEW qty \in Nat, qty <= b.weth,
           NEW minOut \in Int
    PROVE  Signed(b, Sold(b, e, held, qty, minOut)) /\ Sold(b, e, held, qty, minOut).weth = b.weth - qty
  <1> DEFINE s == Recorded(b, held, qty, quoteSell(qty, e.mark), CeilDiv(qty * DEX_FEE, BPS), e.price)
             o == s.ok /\ e.feed /\ e.dex /\ quoteSell(qty, e.mark) >= minOut
             c == Sold(b, e, held, qty, minOut)
  <1>1. quoteSell(qty, e.mark) \in Nat /\ CeilDiv(qty * DEX_FEE, BPS) \in Nat /\ e.price \in Nat
    BY EnvTypes, QuoteSellNat, FeeBounds
  <1>2. Balanced(s)
    BY <1>1, RecordedBalanced
  <1>3. Signed(b, s) /\ s.weth = b.weth - qty
    <2> DEFINE out == quoteSell(qty, e.mark)
               fee == CeilDiv(qty * DEX_FEE, BPS)
               price == e.price
    <2>1. out \in Nat /\ fee \in Nat /\ price \in Nat
      BY <1>1
    <2> HIDE DEF out, fee, price
    <2>2. /\ Signed(b, Recorded(b, held, qty, out, fee, price))
          /\ Recorded(b, held, qty, out, fee, price).weth = b.weth - qty
      BY <2>1, RecordedSigned
    <2> QED BY <2>2 DEF out, fee, price
  <1>4. c = [s EXCEPT !.ok = o] /\ (o => s.ok) /\ o \in BOOLEAN
    <2>1. s.ok \in BOOLEAN
      BY <1>2, BalancedTypes
    <2> QED BY <2>1 DEF Sold
  <1> HIDE DEF s, o
  <1>5. Tidy(s, c) /\ c.weth = s.weth
    <2>1. s \in Book
      BY <1>2, BalancedTypes
    <2>2. c.weth = s.weth
      BY <1>4, <2>1 DEF Book
    <2> QED BY <1>4, <2>1, <2>2, OkTidy
  <1>6. Signed(b, c)
    BY <1>3, <1>5, TidyTrans DEF Tidy
  <1> QED BY <1>3, <1>5, <1>6 DEF c

\* What is sold is withdrawn first, and all of it leaves.
LEMMA SellWethTidy ==
    ASSUME NEW b, Balanced(b), NEW e, Env(e), NEW qty \in Nat, NEW slip \in Int
    PROVE  Tidy(b, SellWeth(b, e, qty, slip))
  <1> DEFINE a == IF b.weth < qty THEN WithdrawWeth(b, e, qty - b.weth) ELSE b
             worth == (qty * e.price) \div Q
             minOut == (worth * (BPS - slip)) \div BPS
             c == SellWeth(b, e, qty, slip)
  <1>1. qty - b.weth \in Int /\ b.weth \in Int
    BY BalancedTypes
  <1>2. Balanced(a)
    BY <1>1, WithdrawWethBalanced
  <1>3. /\ Signed(b, a) /\ qty <= a.weth
        /\ b.weth = 0 => a.weth = qty
    <2>1. CASE b.weth < qty
      <3>1. qty - b.weth >= 0
        BY <1>1, <2>1
      <3>2. Signed(b, a) /\ a.weth = b.weth + (qty - b.weth)
        BY <1>1, <2>1, <3>1, WithdrawWethSigned
      <3> HIDE DEF a
      <3> QED BY <1>1, <3>2
    <2>2. CASE ~(b.weth < qty)
      BY <1>1, <2>2, TidyTrans
    <2> QED BY <2>1, <2>2
  <1>4. worth \in Int /\ BPS - slip \in Int
    BY EnvTypes, QType, Ratios, MulDivInt
  <1>5. minOut \in Int
    BY <1>4, Ratios, MulDivInt
  <1> HIDE DEF a, minOut, worth
  <1>6. c = Sold(a, e, wethHeld(b, e), qty, minOut)
    BY DEF SellWeth, a, minOut, worth
  <1>7. Signed(a, c) /\ c.weth = a.weth - qty
    BY <1>2, <1>3, <1>5, <1>6, HeldInt, SoldSigned
  <1> HIDE DEF c
  <1>8. b.weth = 0 => c.weth = 0
    BY <1>3, <1>7
  <1>9. Signed(b, c)
    BY <1>3, <1>7, TidyTrans
  <1> QED BY <1>8, <1>9 DEF Tidy, c

LEMMA PerpTradeTidy ==
    ASSUME NEW b, Balanced(b), NEW e, Env(e), NEW delta \in Int, NEW slip \in Int
    PROVE  Tidy(b, PerpTrade(b, e, delta, slip))
  <1>1. BPS + slip \in Int /\ BPS - slip \in Int /\ e.price \in Int
    BY EnvTypes, Ratios
  <1>2. (e.price * (BPS + slip)) \div BPS \in Int /\ (e.price * (BPS - slip)) \div BPS \in Int
    BY <1>1, Ratios, MulDivInt
  <1> QED BY <1>2, TradeTidy DEF PerpTrade

LEMMA CrystallizedTidy ==
    ASSUME NEW b, Balanced(b), NEW e, Env(e), NEW needed \in Int, NEW slip \in Int
    PROVE  Tidy(b, Crystallized(b, e, needed, slip))
  <1>1. ASSUME NEW q \in Int PROVE Tidy(b, CrystallizedSlice(b, e, q, slip))
    <2> DEFINE close == IF b.size < 0 THEN q ELSE -q
               a == PerpTrade(b, e, close, slip)
    <2>1. close \in Int /\ -close \in Int
      OBVIOUS
    <2>2. Balanced(a) /\ Tidy(b, a)
      BY <2>1, PerpTradeBalanced, PerpTradeTidy
    <2>3. Tidy(a, PerpTrade(a, e, -close, slip))
      BY <2>1, <2>2, PerpTradeTidy
    <2>4. Tidy(b, Reopened(b, e, close, slip))
      BY <2>2, <2>3, TidyTrans DEF Reopened
    <2> QED BY <2>4, TidyTrans DEF CrystallizedSlice
  <1> DEFINE u == pnl(b.size, b.entry, e.mark)
             profit == Min2((needed * 102) \div 100, u)
             q == CeilDiv(abs(b.size) * profit, u)
  <1>2. u \in Int
    BY EquityInt
  <1>3. CASE b.size = 0 \/ u <= 0
    BY <1>3, TidyTrans DEF Crystallized, CrystallizedFrom
  <1>4. CASE ~(b.size = 0 \/ u <= 0)
    <2>1. u \in Nat \ {0} /\ abs(b.size) \in Int
      BY <1>2, <1>4, BalancedTypes, AbsInt
    <2>2. profit \in Int
      BY <1>2, MulDivInt, MinInt
    <2> HIDE DEF profit, u
    <2>3. q \in Int
      BY <2>1, <2>2, MulDivInt
    <2>4. Tidy(b, CrystallizedSlice(b, e, q, slip))
      BY <1>1, <2>3
    <2>5. Crystallized(b, e, needed, slip) = CrystallizedSlice(b, e, q, slip)
      BY <1>4 DEF Crystallized, CrystallizedFrom, u, profit
    <2> QED BY <2>4, <2>5
  <1> QED BY <1>3, <1>4

LEMMA WithdrawUpToTidy ==
    ASSUME NEW b, Balanced(b), NEW e, NEW x \in Int PROVE Tidy(b, WithdrawUpTo(b, e, x))
  BY WithdrawMarginTidy, TidyTrans DEF WithdrawUpTo

LEMMA WithdrawFreeMarginTidy ==
    ASSUME NEW b, Balanced(b), NEW e, Env(e), NEW wanted \in Int, NEW slip \in Int
    PROVE  Tidy(b, WithdrawFreeMargin(b, e, wanted, slip))
  <1> DEFINE o == b.ok /\ (b.size # 0 => e.feed)
             s == [b EXCEPT !.ok = o]
             free == freeMargin(b, e)
             excess == excessMargin(b, e)
             needed == Min2(wanted, excess) - free
             m == MadeFree(s, e, wanted, free, excess, slip)
  <1>1. o \in BOOLEAN /\ (o => b.ok) /\ b \in Book
    BY BalancedTypes
  <1>2. Balanced(s) /\ Tidy(b, s)
    BY <1>1, OkBalanced, OkTidy
  <1>3. needed \in Int
    BY FreeMarginInt, MinInt
  <1> HIDE DEF o, s, free, excess
  <1>4. /\ Balanced(Crystallized(s, e, needed, slip))
        /\ Tidy(s, Crystallized(s, e, needed, slip))
    BY <1>2, <1>3, CrystallizedBalanced, CrystallizedTidy
  <1>5. Balanced(m) /\ Tidy(s, m)
    BY <1>2, <1>4, TidyTrans DEF MadeFree
  <1>6. WithdrawFreeMargin(b, e, wanted, slip) = WithdrawFree(m, e, wanted)
    BY DEF WithdrawFreeMargin, s, o, free, excess
  <1> HIDE DEF m
  <1>7. Min2(wanted, freeMargin(m, e)) \in Int
    BY <1>5, FreeMarginInt, MinInt
  <1>8. Tidy(m, WithdrawFree(m, e, wanted))
    BY <1>5, <1>7, WithdrawUpToTidy DEF WithdrawFree
  <1>9. Tidy(b, m)
    BY <1>2, <1>5, TidyTrans
  <1> QED BY <1>6, <1>8, <1>9, TidyTrans

-----------------------------------------------------------------------------
(* The calls: besides the signs, they leave no USDC in the strategy. *)

LEMMA ReceivedTidy ==
    ASSUME NEW b, Balanced(b), NEW e, NEW x \in Nat
    PROVE  Tidy(b, onCapitalReceived(b, e, x)) /\ onCapitalReceived(b, e, x).float = 0
  <1> DEFINE o == b.ok /\ x <= b.vault
             v == b.vault - x
             f == b.float + x
             n == b.netCapital + x
             r == [b EXCEPT !.vault = @ - x, !.float = @ + x, !.netCapital = @ + x, !.ok = o]
  <1>1. b \in Book /\ b.vault \in Int /\ b.float \in Int
    BY BalancedTypes
  <1>2. onCapitalReceived(b, e, x) = ParkFloat(r, e) /\ o \in BOOLEAN
    BY DEF onCapitalReceived
  <1>3. Balanced(r)
    <2> HIDE DEF o
    <2>1. x \in Int
      OBVIOUS
    <2> QED BY <1>2, <2>1, ReceivedBalanced
  <1>4. r = [b EXCEPT !.vault = v, !.float = f, !.netCapital = n, !.ok = o]
    OBVIOUS
  <1>5. o => b.ok /\ v >= 0 /\ (b.float >= 0 => f >= 0)
    BY <1>1
  <1> HIDE DEF r, o, v, f, n
  <1>6. /\ r.usdc = b.usdc /\ r.lent = b.lent /\ r.vault = v /\ r.float = f /\ r.weth = b.weth
        /\ r.basis = b.basis /\ r.swapFees = b.swapFees /\ r.entry = b.entry /\ r.markEntry = b.markEntry
        /\ r.feesPaid = b.feesPaid /\ r.penalties = b.penalties /\ r.badDebt = b.badDebt
        /\ r.ok = o
    BY <1>1, <1>4 DEF Book
  <1>7. Tidy(b, r)
    BY <1>5, <1>6 DEF Tidy, Signed, Natural
  <1> QED BY <1>2, <1>3, <1>7, ParkFloatTidy, TidyTrans

LEMMA ReturnUpToTidy ==
    ASSUME NEW b, Balanced(b), NEW amount \in Nat
    PROVE  /\ Tidy(b, ReturnUpTo(b, amount))
           /\ ReturnUpTo(b, amount).float = b.float - Min2(amount, b.float)
           /\ ReturnUpTo(b, amount).vault = b.vault + Min2(amount, b.float)
           /\ ReturnUpTo(b, amount).ok = b.ok
  <1> DEFINE x == Min2(amount, b.float)
  <1>1. b \in Book /\ b.float \in Int
    BY BalancedTypes
  <1>2. x \in Int /\ x <= b.float /\ (b.float >= 0 => x >= 0)
    BY <1>1 DEF Min2
  <1> HIDE DEF x
  <1>3. Tidy(b, ReturnToVault(b, x))
    BY <1>2, ReturnToVaultTidy
  <1>4. /\ ReturnToVault(b, x).float = b.float - x /\ ReturnToVault(b, x).vault = b.vault + x
        /\ ReturnToVault(b, x).ok = b.ok
    BY <1>1 DEF ReturnToVault, Book
  <1> QED BY <1>3, <1>4 DEF ReturnUpTo, x

LEMMA WithdrawLiquidTidy ==
    ASSUME NEW b, Balanced(b), NEW e, Env(e), NEW amount \in Nat
    PROVE  /\ Tidy(b, withdrawLiquid(b, e, amount))
           /\ b.float = 0 => withdrawLiquid(b, e, amount).float = 0
  <1> DEFINE o == b.ok /\ e.lending
             s == [b EXCEPT !.ok = o]
             w == withdrawable(b.usdc, e.liquid.usdc)
             x == Min2(amount - b.float, w)
             d == IF b.float >= amount THEN b ELSE DrawReserve(s, e, x)
  <1>1. /\ o \in BOOLEAN /\ (o => b.ok) /\ b \in Book
        /\ amount - b.float \in Int /\ w \in Int /\ b.float \in Int
    BY BalancedTypes, EnvTypes, WithdrawableInt
  <1>2. Balanced(s) /\ Tidy(b, s) /\ s.float = b.float /\ s \in Book
    <2>1. s.float = b.float
      BY <1>1 DEF Book
    <2>2. Balanced(s) /\ Tidy(b, s)
      BY <1>1, OkBalanced, OkTidy
    <2> QED BY <2>1, <2>2, BalancedTypes
  <1>3. x \in Int /\ x <= amount - b.float
    <2> HIDE DEF w
    <2> QED BY <1>1 DEF Min2
  <1>4. withdrawLiquid(b, e, amount) = ReturnUpTo(d, amount)
    BY DEF withdrawLiquid
  <1> HIDE DEF s, x
  <1>5. Balanced(d) /\ Tidy(b, d) /\ d.float \in Int /\ (b.float = 0 => d.float <= amount)
    <2>1. CASE b.float >= amount
      BY <1>1, <2>1, TidyTrans
    <2>2. CASE ~(b.float >= amount) /\ x > 0
      <3>1. d = WithdrawUsdc(s, e, x)
        BY <2>2 DEF DrawReserve
      <3>2. Balanced(d) /\ Tidy(s, d)
        BY <1>2, <1>3, <2>2, <3>1, WithdrawUsdcBalanced, WithdrawUsdcTidy
      <3>3. d.float = s.float + x
        BY <1>2, <3>1 DEF WithdrawUsdc, Book
      <3> QED BY <1>1, <1>2, <1>3, <3>2, <3>3, TidyTrans
    <2>3. CASE ~(b.float >= amount) /\ ~(x > 0)
      <3>1. d = s
        BY <2>3 DEF DrawReserve
      <3> QED BY <1>1, <1>2, <3>1
    <2> QED BY <2>1, <2>2, <2>3
  <1> HIDE DEF d
  <1>6. Tidy(d, ReturnUpTo(d, amount)) /\ ReturnUpTo(d, amount).float = d.float - Min2(amount, d.float)
    BY <1>5, ReturnUpToTidy
  <1>7. b.float = 0 => ReturnUpTo(d, amount).float = 0
    BY <1>5, <1>6 DEF Min2
  <1> QED BY <1>4, <1>5, <1>6, <1>7, TidyTrans

LEMMA UnwindShareTidy ==
    ASSUME NEW b, Balanced(b), NEW e, Env(e), NEW amount \in Nat, NEW f \in Int,
           NEW before \in Int, NEW slip \in Int
    PROVE  /\ Tidy(b, UnwindShare(b, e, amount, f, before, slip))
           /\ UnwindShare(b, e, amount, f, before, slip).float = 0
  <1> DEFINE q == shareOf(abs(b.size), f)
             qty == shareOf(wethHeld(b, e), f)
             b1 == CloseShare(b, e, q, f, slip)
             b2 == SellShare(b1, e, qty, slip)
             o == b2.ok /\ (b2.size # 0 => e.feed)
             b3 == [b2 EXCEPT !.ok = o]
             b4 == Release(b2, e, before, f)
             b5 == ReturnUpTo(b4, amount)
  <1>1. q \in Int /\ qty \in Int
    <2>1. abs(b.size) \in Int /\ wethHeld(b, e) \in Int
      BY BalancedTypes, AbsInt, HeldInt
    <2> QED BY <2>1, ShareInt
  <1>2. UnwindShare(b, e, amount, f, before, slip) = ParkFloat(b5, e)
    BY DEF UnwindShare, PayAndPark
  <1>3. Balanced(b1) /\ Tidy(b, b1)
    BY <1>1, PerpTradeBalanced, PerpTradeTidy, TidyTrans DEF CloseShare
  <1> HIDE DEF q, qty, b1
  <1>4. Balanced(b2) /\ Tidy(b1, b2)
    <2>1. CASE qty > 0
      <3>1. qty \in Nat
        BY <1>1, <2>1
      <3> QED BY <1>3, <2>1, <3>1, SellWethBalanced, SellWethTidy DEF SellShare
    <2>2. CASE ~(qty > 0)
      BY <1>3, <2>2, TidyTrans DEF SellShare
    <2> QED BY <2>1, <2>2
  <1>5. b4 = WithdrawUpTo(b3, e, release(b2, before, f, e)) /\ o \in BOOLEAN /\ (o => b2.ok)
    BY DEF Release
  <1> HIDE DEF b2, o, b4
  <1>6. Balanced(b3) /\ Tidy(b2, b3)
    <2>1. b2 \in Book
      BY <1>4, BalancedTypes
    <2> QED BY <1>4, <1>5, <2>1, OkBalanced, OkTidy
  <1>7. release(b2, before, f, e) \in Int
    BY <1>4, ReleaseInt
  <1> HIDE DEF b3
  <1>8. Balanced(b4) /\ Tidy(b3, b4)
    BY <1>5, <1>6, <1>7, WithdrawUpToBalanced, WithdrawUpToTidy
  <1>9. Balanced(b5) /\ Tidy(b4, b5)
    BY <1>8, ReturnUpToBalanced, ReturnUpToTidy
  <1> HIDE DEF b5
  <1>10. Tidy(b5, ParkFloat(b5, e)) /\ ParkFloat(b5, e).float = 0
    BY <1>9, ParkFloatTidy
  <1>11. Tidy(b, b2) /\ Tidy(b2, b4) /\ Tidy(b4, ParkFloat(b5, e))
    BY <1>3, <1>4, <1>6, <1>8, <1>9, <1>10, TidyTrans
  <1> QED BY <1>2, <1>10, <1>11, TidyTrans

LEMMA UnwindForTidy ==
    ASSUME NEW b, Balanced(b), NEW e, Env(e), NEW amount \in Nat, NEW slip \in Int
    PROVE  /\ Tidy(b, unwindFor(b, e, amount, slip))
           /\ b.float = 0 => unwindFor(b, e, amount, slip).float = 0
  <1> DEFINE o == b.ok /\ e.healthy /\ ~e.paused
             s == [b EXCEPT !.ok = o]
             worth == (wethHeld(b, e) * e.price) \div Q + perpEquity(b, e)
             f == Min2((amount * WAD) \div worth, WAD)
  <1>1. o \in BOOLEAN /\ (o => b.ok) /\ b \in Book
    BY BalancedTypes DEF Env
  <1>2. Balanced(s) /\ Tidy(b, s) /\ s.float = b.float
    <2>1. s.float = b.float
      BY <1>1 DEF Book
    <2> QED BY <1>1, <2>1, OkBalanced, OkTidy
  <1>3. worth \in Int
    <2>1. (wethHeld(b, e) * e.price) \div Q \in Int
      BY HeldInt, EnvTypes, QType, MulDivInt
    <2> QED BY <2>1, PerpEquityInt
  <1>4. unwindFor(b, e, amount, slip) = UnwindWorth(s, e, amount, worth, slip)
    BY DEF unwindFor
  <1> HIDE DEF o, s, worth
  <1>5. CASE worth <= 0 \/ amount = 0
    BY <1>2, <1>4, <1>5 DEF UnwindWorth
  <1>6. CASE ~(worth <= 0 \/ amount = 0)
    <2>1. worth \in Nat \ {0}
      BY <1>3, <1>6
    <2>2. f \in Int
      BY <2>1, Ratios, MulDivInt, MinInt
    <2>3. UnwindWorth(s, e, amount, worth, slip) = UnwindShare(s, e, amount, f, perpEquity(s, e), slip)
      BY <1>6 DEF UnwindWorth
    <2> HIDE DEF f
    <2>4. perpEquity(s, e) \in Int
      BY <1>2, PerpEquityInt
    <2>5. /\ Tidy(s, UnwindShare(s, e, amount, f, perpEquity(s, e), slip))
          /\ UnwindShare(s, e, amount, f, perpEquity(s, e), slip).float = 0
      BY <1>2, <2>2, <2>4, UnwindShareTidy
    <2> QED BY <1>2, <1>4, <2>3, <2>5, TidyTrans
  <1> QED BY <1>5, <1>6

LEMMA ShrinkLongTidy ==
    ASSUME NEW b, Balanced(b), NEW e, Env(e), NEW plan \in Plan
    PROVE  Tidy(b, ShrinkLong(b, e, plan))
  <1> DEFINE qty == Min2((-plan.longUsdDelta * Q) \div e.price, wethHeld(b, e))
  <1>1. -plan.longUsdDelta * Q \in Int /\ plan.slip \in Int
    BY PlanTypes, QType, MulInt
  <1>2. (-plan.longUsdDelta * Q) \div e.price \in Int
    BY <1>1, EnvTypes, DivInt
  <1>3. qty \in Int
    BY <1>2, HeldInt, MinInt
  <1>4. ShrinkLong(b, e, plan) = IF plan.longUsdDelta >= 0 THEN b ELSE SellLong(b, e, qty, plan.slip)
    BY DEF ShrinkLong
  <1> HIDE DEF qty
  <1>5. Tidy(b, SellLong(b, e, qty, plan.slip))
    <2>1. CASE qty > 0
      <3>1. qty \in Nat
        BY <1>3, <2>1
      <3> QED BY <1>1, <2>1, <3>1, SellWethTidy DEF SellLong
    <2>2. CASE ~(qty > 0)
      BY <2>2, TidyTrans DEF SellLong
    <2> QED BY <2>1, <2>2
  <1> QED BY <1>4, <1>5, TidyTrans

LEMMA MoveMarginTidy ==
    ASSUME NEW b, Balanced(b), NEW e, Env(e), NEW plan \in Plan
    PROVE  Tidy(b, MoveMargin(b, e, plan))
  <1> DEFINE p == PullFromReserve(b, e, plan.marginDelta)
  <1>1. plan.marginDelta \in Int /\ -plan.marginDelta \in Int /\ plan.slip \in Int
    BY PlanTypes
  <1>2. Balanced(p) /\ Tidy(b, p)
    BY <1>1, PullFromReserveBalanced, PullFromReserveTidy
  <1>3. Tidy(p, DepositMargin(p, e, plan.marginDelta))
    BY <1>1, <1>2, DepositMarginTidy
  <1>4. Tidy(b, WithdrawFreeMargin(b, e, -plan.marginDelta, plan.slip))
    BY <1>1, WithdrawFreeMarginTidy
  <1> QED BY <1>2, <1>3, <1>4, TidyTrans DEF MoveMargin

LEMMA GrowLongTidy ==
    ASSUME NEW b, Balanced(b), NEW e, Env(e), NEW plan \in Plan
    PROVE  Tidy(b, GrowLong(b, e, plan))
  <1> DEFINE p == PullFromReserve(b, e, plan.longUsdDelta)
  <1>1. plan.longUsdDelta \in Int /\ plan.slip \in Int
    BY PlanTypes
  <1>2. Balanced(p) /\ Tidy(b, p)
    BY <1>1, PullFromReserveBalanced, PullFromReserveTidy
  <1>3. CASE plan.longUsdDelta > 0
    <2>1. plan.longUsdDelta \in Nat
      BY <1>1, <1>3
    <2>2. Tidy(p, BuyWeth(p, e, plan.longUsdDelta, plan.slip))
      BY <1>1, <1>2, <2>1, BuyWethTidy
    <2> QED BY <1>1, <1>2, <1>3, <2>2, TidyTrans DEF GrowLong
  <1>4. CASE ~(plan.longUsdDelta > 0)
    BY <1>1, <1>4, TidyTrans DEF GrowLong
  <1> QED BY <1>3, <1>4

LEMMA RehedgeTidy ==
    ASSUME NEW b, Balanced(b), NEW e, Env(e), NEW plan \in Plan
    PROVE  Tidy(b, Rehedge(b, e, plan))
  <1>1. (wethHeld(b, e) * plan.hedgeRatioBps) \div BPS \in Int
    BY HeldInt, PlanTypes, Ratios, MulDivInt
  <1>2. hedgeDiff(b, e, plan) \in Int
    BY <1>1, BalancedTypes DEF hedgeDiff
  <1> QED BY <1>2, PlanTypes, PerpTradeTidy, TidyTrans DEF Rehedge, Rehedged

LEMMA RebalanceTidy ==
    ASSUME NEW b, Balanced(b), NEW e, Env(e), NEW plan \in Plan
    PROVE  /\ Tidy(b, executeRebalance(b, e, plan))
           /\ executeRebalance(b, e, plan).float = 0
  <1> DEFINE o == b.ok /\ e.healthy /\ ~e.paused
             s == [b EXCEPT !.ok = o]
             b1 == ShrinkLong(s, e, plan)
             b2 == MoveMargin(b1, e, plan)
             b3 == GrowLong(b2, e, plan)
             b4 == Rehedge(b3, e, plan)
             left == marginLeft(b1, b2, plan)
             b5 == ReleaseLeft(b4, e, plan, left)
  <1>1. o \in BOOLEAN /\ (o => b.ok) /\ b \in Book
    BY BalancedTypes DEF Env
  <1>2. executeRebalance(b, e, plan) = ParkFloat(b5, e)
    BY DEF executeRebalance, AfterSale, AfterMargin
  <1>3. Balanced(s) /\ Tidy(b, s)
    BY <1>1, OkBalanced, OkTidy
  <1> HIDE DEF o, s
  <1>4. Balanced(b1) /\ Tidy(s, b1)
    BY <1>3, ShrinkLongBalanced, ShrinkLongTidy
  <1> HIDE DEF b1
  <1>5. Balanced(b2) /\ Tidy(b1, b2)
    BY <1>4, MoveMarginBalanced, MoveMarginTidy
  <1> HIDE DEF b2
  <1>6. left \in Int
    BY <1>4, <1>5, BalancedTypes, PlanTypes DEF marginLeft
  <1>7. Balanced(b3) /\ Tidy(b2, b3)
    BY <1>5, GrowLongBalanced, GrowLongTidy
  <1> HIDE DEF b3, left
  <1>8. Balanced(b4) /\ Tidy(b3, b4)
    BY <1>7, RehedgeBalanced, RehedgeTidy
  <1> HIDE DEF b4
  <1>9. Balanced(b5) /\ Tidy(b4, b5)
    BY <1>6, <1>8, ReleaseLeftBalanced, PlanTypes, WithdrawFreeMarginTidy, TidyTrans DEF ReleaseLeft
  <1> HIDE DEF b5
  <1>10. Tidy(b5, ParkFloat(b5, e)) /\ ParkFloat(b5, e).float = 0
    BY <1>9, ParkFloatTidy
  <1>11. Tidy(b, b1) /\ Tidy(b1, b3) /\ Tidy(b3, b5)
    BY <1>3, <1>4, <1>5, <1>7, <1>8, <1>9, TidyTrans
  <1> QED BY <1>2, <1>10, <1>11, TidyTrans

(* A step of the emergency that fails leaves the book as it was. *)
Fit(b) == Balanced(b) /\ b.ok /\ Natural(b)

LEMMA TriedFit ==
    ASSUME NEW b, Fit(b), NEW step, Balanced(step), Signed(b, step) PROVE Fit(Tried(b, step))
  BY DEF Tried, Fit, Signed

LEMMA EmergencyFit ==
    ASSUME NEW b, Fit(b), NEW e, Env(e), NEW minSell \in Int, NEW maxBuy \in Int
    PROVE  Fit(emergencyUnwind(b, e, minSell, maxBuy)) /\ emergencyUnwind(b, e, minSell, maxBuy).float = 0
  <1> DEFINE bound == IF b.size < 0 THEN maxBuy ELSE minSell
             b1 == TryClose(b, e, bound)
             b2 == TryMargin(b1, e)
             b3 == TryWeth(b2, e)
             b4 == TrySell(b3, e, minSell)
             b5 == TryReserve(b4, e)
  <1>1. emergencyUnwind(b, e, minSell, maxBuy) = ReturnAll(b5)
    BY DEF emergencyUnwind
  <1>2. Fit(b1)
    <2>1. bound \in Int /\ -b.size \in Int /\ Balanced(b)
      BY BalancedTypes DEF Fit
    <2> HIDE DEF bound
    <2>2. Balanced(Trade(b, e, -b.size, bound)) /\ Signed(b, Trade(b, e, -b.size, bound))
      BY <2>1, TradeBalanced, TradeTidy DEF Tidy
    <2> QED BY <2>2, TriedFit DEF TryClose
  <1> HIDE DEF b1
  <1>3. Fit(b2)
    <2>1. b1.margin \in Int /\ Balanced(b1)
      BY <1>2, BalancedTypes DEF Fit
    <2>2. Balanced(WithdrawMargin(b1, e, b1.margin)) /\ Signed(b1, WithdrawMargin(b1, e, b1.margin))
      BY <2>1, WithdrawMarginBalanced, WithdrawMarginTidy DEF Tidy
    <2> QED BY <1>2, <2>2, TriedFit DEF TryMargin
  <1> HIDE DEF b2
  <1>4. Fit(b3)
    <2> DEFINE x == withdrawable(b2.lent, e.liquid.weth)
    <2>1. Balanced(b2) /\ b2.lent \in Loan /\ NaturalLoan(b2.lent)
      BY <1>3, BalancedTypes DEF Fit, Natural
    <2>2. x \in Int /\ x >= 0
      BY <2>1, EnvTypes, WithdrawableInt, WithdrawableNatural
    <2> HIDE DEF x
    <2>3. Balanced(WithdrawWeth(b2, e, x)) /\ Signed(b2, WithdrawWeth(b2, e, x))
      BY <2>1, <2>2, WithdrawWethBalanced, WithdrawWethSigned
    <2> QED BY <1>3, <2>3, TriedFit DEF TryWeth, x
  <1> HIDE DEF b3
  <1>5. Fit(b4)
    <2> DEFINE minOut == (b3.weth * minSell) \div Q
               qty == b3.weth
    <2>1. qty \in Nat /\ qty <= b3.weth /\ wethHeld(b3, e) \in Int /\ Balanced(b3)
      BY <1>4, BalancedTypes, HeldInt DEF Fit, Natural
    <2>2. minOut \in Int
      BY <2>1, QType, MulDivInt
    <2>3. TrySell(b3, e, minSell) = IF qty = 0 THEN b3 ELSE Tried(b3, Sold(b3, e, wethHeld(b3, e), qty, minOut))
      BY DEF TrySell
    <2> HIDE DEF minOut, qty
    <2>4. Balanced(Sold(b3, e, wethHeld(b3, e), qty, minOut))
      BY <2>1, <2>2, SoldBalanced
    <2>5. Signed(b3, Sold(b3, e, wethHeld(b3, e), qty, minOut))
      BY <2>1, <2>2, SoldSigned
    <2> QED BY <1>4, <2>3, <2>4, <2>5, TriedFit
  <1> HIDE DEF b4
  <1>6. Fit(b5)
    <2> DEFINE x == withdrawable(b4.usdc, e.liquid.usdc)
    <2>1. Balanced(b4) /\ b4.usdc \in Loan /\ NaturalLoan(b4.usdc)
      BY <1>5, BalancedTypes DEF Fit, Natural
    <2>2. x \in Int /\ x >= 0
      BY <2>1, EnvTypes, WithdrawableInt, WithdrawableNatural
    <2> HIDE DEF x
    <2>3. Balanced(WithdrawUsdc(b4, e, x)) /\ Signed(b4, WithdrawUsdc(b4, e, x))
      BY <2>1, <2>2, WithdrawUsdcBalanced, WithdrawUsdcTidy DEF Tidy
    <2> QED BY <1>5, <2>3, TriedFit DEF TryReserve, x
  <1> HIDE DEF b5
  <1>7. b5 \in Book /\ b5.float \in Int /\ Balanced(b5)
    BY <1>6, BalancedTypes DEF Fit
  <1>8. Balanced(ReturnAll(b5)) /\ Signed(b5, ReturnAll(b5))
    BY <1>7, ReturnToVaultBalanced, ReturnToVaultTidy DEF ReturnAll, Tidy
  <1>9. ReturnAll(b5).ok = b5.ok /\ ReturnAll(b5).float = b5.float - b5.float
    BY <1>7 DEF ReturnAll, ReturnToVault, Book
  <1>10. Fit(ReturnAll(b5)) /\ ReturnAll(b5).float = 0
    BY <1>6, <1>7, <1>8, <1>9 DEF Fit, Signed
  <1> QED BY <1>1, <1>10

-----------------------------------------------------------------------------
(* What happens at the venue without the strategy. *)

LEMMA LiquidatedTidy ==
    ASSUME NEW b, Balanced(b), NEW e, Env(e)
    PROVE  Tidy(b, Liquidated(b, e)) /\ Liquidated(b, e).float = b.float
  <1> DEFINE s == Settled(b, e)
             f == Filled(s, -s.size, e.mark)
             cut == (notional(s.size, e.mark) * PENALTY) \div BPS
             penalty == Min2(cut, Pos(f.margin))
             left == f.margin - penalty
             o == /\ f.ok /\ e.feed /\ b.size # 0
                  /\ equity(s, e.mark) < marginReq(s.size, e.mark, MMR)
             c == Liquidated(b, e)
             m == Pos(left)
             n == f.penalties + penalty
             w == f.badDebt + Pos(-left)
  <1>1. Balanced(s) /\ Tidy(b, s) /\ s.size \in Int /\ -s.size \in Int /\ e.mark \in Nat
    BY SettledBalanced, SettledTidy, BalancedTypes, EnvTypes
  <1>2. s.float = b.float
    BY BalancedTypes DEF Settled, Book
  <1>3. cut \in Nat
    BY <1>1, NotionalNat, RatioBounds, Ratios, MulDivNat
  <1> HIDE DEF s, cut
  <1>4. Balanced(f) /\ Tidy(s, f)
    BY <1>1, FilledBalanced, FilledTidy
  <1>5. f.float = s.float
    BY <1>1, BalancedTypes DEF Filled, Book
  <1>6. c = [f EXCEPT !.margin = m, !.penalties = n, !.badDebt = w, !.ok = o] /\ (o => f.ok)
    BY DEF Liquidated, s, cut
  <1> HIDE DEF f, o, c
  <1>7. f \in Book /\ f.margin \in Int /\ f.penalties \in Int /\ f.badDebt \in Int
    BY <1>4, BalancedTypes, BookTypes
  <1>8. penalty \in Nat
    BY <1>3, <1>7, PosInt DEF Min2
  <1> HIDE DEF penalty
  <1>9. Pos(-left) \in Nat
    BY <1>7, <1>8, PosInt
  <1>10. (f.penalties >= 0 => n >= 0) /\ (f.badDebt >= 0 => w >= 0)
    BY <1>7, <1>8, <1>9
  <1> HIDE DEF left, m, n, w
  <1>11. /\ c.usdc = f.usdc /\ c.lent = f.lent /\ c.vault = f.vault /\ c.float = f.float /\ c.weth = f.weth
         /\ c.basis = f.basis /\ c.swapFees = f.swapFees /\ c.entry = f.entry /\ c.markEntry = f.markEntry
         /\ c.feesPaid = f.feesPaid /\ c.penalties = n /\ c.badDebt = w
         /\ c.ok = o
    BY <1>6, <1>7 DEF Book
  <1>12. Tidy(f, c)
    BY <1>6, <1>10, <1>11 DEF Tidy, Signed, Natural
  <1>13. Tidy(b, c)
    BY <1>1, <1>4, <1>12, TidyTrans
  <1> QED BY <1>2, <1>5, <1>11, <1>13 DEF c

LEMMA DeleveragedTidy ==
    ASSUME NEW b, Balanced(b), NEW e, Env(e), NEW share \in Int
    PROVE  Tidy(b, Deleveraged(b, e, share)) /\ Deleveraged(b, e, share).float = b.float
  <1> DEFINE s == Settled(b, e)
             d == -mulDivSigned(s.size, share, BPS)
             f == Filled(s, d, e.mark)
             o == f.ok /\ e.feed /\ mulDivSigned(s.size, share, BPS) # 0
             c == Deleveraged(b, e, share)
  <1>1. Balanced(s) /\ Tidy(b, s) /\ s.size \in Int /\ e.mark \in Nat
    BY SettledBalanced, SettledTidy, BalancedTypes, EnvTypes
  <1>2. s.float = b.float
    BY BalancedTypes DEF Settled, Book
  <1>3. d \in Int
    <2>1. (s.size * share) \div BPS \in Int /\ (abs(s.size) * share) \div BPS \in Int
      BY <1>1, AbsInt, Ratios, MulDivInt
    <2> QED BY <2>1 DEF mulDivSigned
  <1> HIDE DEF s
  <1>4. c = [f EXCEPT !.ok = o]
    BY DEF Deleveraged, s
  <1> HIDE DEF c
  <1>5. Balanced(f) /\ Tidy(s, f)
    BY <1>1, <1>3, FilledBalanced, FilledTidy
  <1>6. f.float = s.float
    BY <1>1, BalancedTypes DEF Filled, Book
  <1>7. o \in BOOLEAN /\ (o => f.ok) /\ f \in Book
    BY <1>5, BalancedTypes DEF Env
  <1> HIDE DEF f, o
  <1>8. Tidy(f, c) /\ c.float = f.float
    <2>1. c.float = f.float
      BY <1>4, <1>7 DEF Book
    <2> QED BY <1>4, <1>7, <2>1, OkTidy
  <1>9. Tidy(b, c)
    BY <1>1, <1>5, <1>8, TidyTrans
  <1> QED BY <1>2, <1>6, <1>8, <1>9 DEF c

-----------------------------------------------------------------------------
LEMMA QuoteDelivered ==
    ASSUME NEW b, Balanced(b), b.ok, NEW e, Env(e), availableLiquidity(b, e) > 0
    PROVE  LET a == availableLiquidity(b, e)
               c == withdrawLiquid(b, e, a)
           IN  c.ok /\ c.vault = b.vault + a
  <1> DEFINE w == withdrawable(b.usdc, e.liquid.usdc)
             a == availableLiquidity(b, e)
             s == [b EXCEPT !.ok = b.ok /\ e.lending]
             x == Min2(a - b.float, w)
             d == IF b.float >= a THEN b ELSE DrawReserve(s, e, x)
  <1>1. b \in Book /\ b.float \in Int /\ w \in Int /\ e.lending \in BOOLEAN
    BY BalancedTypes, EnvTypes, WithdrawableInt
  <1>2. a = b.float + (IF e.lending THEN w ELSE 0)
    BY DEF availableLiquidity
  <1>3. withdrawLiquid(b, e, a) = ReturnUpTo(d, a)
    BY DEF withdrawLiquid
  <1>4. a \in Nat
    <2> HIDE DEF a, w
    <2>1. a \in Int
      BY <1>1, <1>2
    <2> QED BY <2>1 DEF a
  <1> HIDE DEF w, a
  <1>5. Balanced(d) /\ d.ok /\ d.vault = b.vault /\ d.float >= a /\ d.float \in Int
    <2>1. CASE b.float >= a
      BY <1>1, <2>1
    <2>2. CASE ~(b.float >= a)
      <3>1. e.lending /\ w > 0 /\ a - b.float = w /\ x = w
        BY <1>1, <1>2, <2>2 DEF Min2
      <3>2. s = b
        BY <1>1, <3>1 DEF Book
      <3> HIDE DEF s
      <3>3. d = WithdrawUsdc(b, e, w)
        BY <2>2, <3>1, <3>2 DEF DrawReserve
      <3>4. Balanced(d)
        BY <1>1, <3>3, WithdrawUsdcBalanced
      <3>5. d.float = b.float + w /\ d.vault = b.vault /\ d.ok = (b.ok /\ e.lending /\ w <= w)
        BY <1>1, <3>3 DEF WithdrawUsdc, Book, w
      <3> HIDE DEF d, x
      <3>6. d.float = a /\ d.float \in Int
        BY <1>1, <1>2, <3>1, <3>5
      <3>7. w <= w
        BY <1>1
      <3>8. d.ok
        BY <3>1, <3>5, <3>7
      <3>9. d.float >= a
        BY <3>6
      <3> QED BY <3>4, <3>5, <3>6, <3>8, <3>9
    <2> QED BY <2>1, <2>2
  <1> HIDE DEF d
  <1>6. /\ ReturnUpTo(d, a).vault = d.vault + Min2(a, d.float)
        /\ ReturnUpTo(d, a).ok = d.ok
    BY <1>4, <1>5, ReturnUpToTidy
  <1>7. Min2(a, d.float) = a
    BY <1>4, <1>5 DEF Min2
  <1> QED BY <1>3, <1>5, <1>6, <1>7 DEF a
=============================================================================
