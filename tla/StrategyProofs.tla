--------------------------- MODULE StrategyProofs ---------------------------
(***************************************************************************)
(* Theorems about StrategyManager and about the pages drawn from it        *)
(* (Reports), for every choice of units, prices, plans, exits and bounds.  *)
(* The report of profit and loss explains the net asset value because      *)
(* every step of the strategy, whichever branch it takes and whichever     *)
(* venue fails, keeps one linear equation between the counters of the five *)
(* contracts; roundings move amounts between them but are the same on both *)
(* sides.                                                                  *)
(***************************************************************************)
EXTENDS Reports, BookProofs, TLAPS

-----------------------------------------------------------------------------
(* The invariant, and that every step keeps it. *)

EnvType ==
    [price : Prices, mark : Prices, healthy : BOOLEAN, feed : BOOLEAN,
     lending : BOOLEAN, dex : BOOLEAN, paused : BOOLEAN, liquid : Liquidity]

Inv == Balanced(book) /\ env \in EnvType

LEMMA EnvHolds == ASSUME env \in EnvType PROVE Env(env)
  <1>1. /\ env.price \in Prices /\ env.mark \in Prices /\ env.liquid \in Liquidity
        /\ \A x \in {env.feed, env.lending, env.dex, env.healthy, env.paused} : x \in BOOLEAN
    BY DEF EnvType
  <1>2. env.price \in Nat \ {0} /\ env.mark \in Nat \ {0}
    BY <1>1, StrategyAssumption
  <1>3. env.liquid \in [usdc : Int, weth : Int]
    BY <1>1, StrategyAssumption
  <1>4. env.liquid.usdc \in Int /\ env.liquid.weth \in Int
    BY <1>3
  <1> QED BY <1>1, <1>2, <1>4 DEF Env

LEMMA ConstantTypes ==
    /\ Capital \in Int /\ MaxSlippage \in Int /\ Tolerance \in Int /\ AdlShare \in Int
    /\ Exits \subseteq Int /\ Interests \subseteq Nat /\ Fundings \subseteq Int /\ Plans \subseteq Plan
  <1>1. Capital \in Int /\ AdlShare \in Int /\ Fundings \subseteq Int
    BY StrategyAssumption
  <1>2. Tolerance \in Int /\ MaxSlippage \in Int
    BY StrategyAssumption, Ratios
  <1>3. \A s \in {Exits, Interests} : s \subseteq Nat
    BY StrategyAssumption
  <1>4. Exits \subseteq Int /\ Interests \subseteq Nat
    BY <1>3
  <1>5. Plans \subseteq Plan
    BY StrategyAssumption DEF Plan
  <1> QED BY <1>1, <1>2, <1>4, <1>5

LEMMA PaidOutBalanced ==
    ASSUME NEW b, Balanced(b), NEW x \in Int
    PROVE  Balanced(PaidOut(b, x))
  <1>1. b.vault - x \in Int
    BY BalancedTypes
  <1> QED BY <1>1, VaultBalanced DEF PaidOut

LEMMA InitHolds == Init => Inv
  <1> SUFFICES ASSUME Init PROVE Inv
    OBVIOUS
  <1>1. Balanced(book)
    BY ConstantTypes, EmptyBalanced DEF Init
  <1>2. env \in EnvType
    BY DEF Init, EnvType
  <1> QED BY <1>1, <1>2 DEF Inv

LEMMA SweptBalanced == ASSUME Inv PROVE Balanced(swept)
  BY BalancedTypes, ReceivedCall DEF Inv, swept

LEMMA AfterUnwindBalanced ==
    ASSUME NEW b, Balanced(b), NEW e, Env(e), NEW gross \in Int
    PROVE  Balanced(afterUnwind(b, e, gross))
  <1> DEFINE need == gross - b.vault
             l == IF need > 0 THEN withdrawLiquid(b, e, need) ELSE b
             u == unwindFor(l, e, gross - l.vault, MaxSlippage)
             o == u.ok /\ l.ok
  <1>1. need \in Int
    BY BalancedTypes
  <1>2. Balanced(l)
    BY <1>1, WithdrawLiquidCall
  <1>3. afterUnwind(b, e, gross)
        = IF need > 0 /\ l.vault < gross THEN [u EXCEPT !.ok = o] ELSE l
    BY DEF afterUnwind
  <1> HIDE DEF l
  <1>4. gross - l.vault \in Int
    BY <1>2, BalancedTypes
  <1>5. Balanced(u) /\ o \in BOOLEAN
    BY <1>2, <1>4, ConstantTypes, UnwindForCall
  <1> HIDE DEF u, o
  <1>6. Balanced([u EXCEPT !.ok = o])
    BY <1>5, OkBalanced
  <1> QED BY <1>2, <1>3, <1>6

LEMMA UnwoundBalanced ==
    ASSUME NEW b, Balanced(b), NEW e, Env(e) PROVE Balanced(Unwound(b, e))
  <1>1. BPS - Tolerance \in Int /\ BPS + Tolerance \in Int /\ e.mark \in Int
    BY Ratios, ConstantTypes, EnvTypes
  <1>2. (e.mark * (BPS - Tolerance)) \div BPS \in Int /\ (e.mark * (BPS + Tolerance)) \div BPS \in Int
    BY <1>1, Ratios, MulDivInt
  <1> QED BY <1>2, EmergencyCall DEF Unwound

LEMMA NextHolds == Inv /\ [Next]_vars => Inv'
  <1> SUFFICES ASSUME Inv, [Next]_vars PROVE Inv'
    OBVIOUS
  <1>0. Balanced(book) /\ env \in EnvType /\ Env(env)
    BY EnvHolds DEF Inv
  <1>1. CASE SweepIdle
    BY <1>1, <1>0, SweptBalanced DEF SweepIdle, Call, Inv
  <1>2. CASE Rebalance
    <2>1. PICK plan \in Plans : Call(executeRebalance(swept, env, plan))
      BY <1>2 DEF Rebalance
    <2>2. Balanced(executeRebalance(swept, env, plan))
      BY <1>0, ConstantTypes, SweptBalanced, RebalanceCall
    <2> QED BY <1>0, <2>1, <2>2 DEF Call, Inv
  <1>3. CASE Withdraw
    <2> DEFINE b(x) == IF book.vault < x THEN withdrawLiquid(book, env, x - book.vault) ELSE book
    <2>1. PICK x \in Exits : Call(PaidOut(b(x), x))
      BY <1>3 DEF Withdraw
    <2>2. x \in Int /\ x - book.vault \in Int
      BY <1>0, ConstantTypes, BalancedTypes
    <2>3. Balanced(b(x))
      BY <1>0, <2>2, WithdrawLiquidCall
    <2> HIDE DEF b
    <2>4. Balanced(PaidOut(b(x), x))
      BY <2>2, <2>3, PaidOutBalanced
    <2> QED BY <1>0, <2>1, <2>4 DEF Call, Inv
  <1>4. CASE RedeemWithUnwind
    <2>1. PICK x \in Exits : LET b == afterUnwind(book, env, x) IN Call(PaidOut(b, Min2(x, b.vault)))
      BY <1>4 DEF RedeemWithUnwind
    <2> DEFINE b == afterUnwind(book, env, x)
    <2>2. x \in Int
      BY ConstantTypes
    <2>3. Balanced(b)
      BY <1>0, <2>2, AfterUnwindBalanced
    <2>4. Call(PaidOut(b, Min2(x, b.vault)))
      BY <2>1
    <2> HIDE DEF b
    <2>5. Min2(x, b.vault) \in Int
      BY <2>2, <2>3, BalancedTypes, MinInt
    <2>6. Balanced(PaidOut(b, Min2(x, b.vault)))
      BY <2>3, <2>5, PaidOutBalanced
    <2> QED BY <1>0, <2>4, <2>6 DEF Call, Inv
  <1>5. CASE EmergencyUnwind
    <2>1. env' \in EnvType
      BY <1>5, <1>0 DEF EmergencyUnwind, EnvType
    <2> QED BY <1>5, <1>0, <2>1, UnwoundBalanced DEF EmergencyUnwind, Inv
  <1>6. CASE GuardianRepeats
    BY <1>6, <1>0, UnwoundBalanced DEF GuardianRepeats, Inv
  <1>7. CASE PriceMoves
    BY <1>7, <1>0 DEF PriceMoves, Move, EnvType, Inv
  <1>8. CASE LiquidityMoves
    BY <1>8, <1>0 DEF LiquidityMoves, Move, EnvType, Inv
  <1>9. CASE FeedFails \/ OracleFails \/ LendingFails \/ DexFails
    BY <1>9, <1>0 DEF FeedFails, OracleFails, LendingFails, DexFails, Move, EnvType, Inv
  <1>10. CASE FeedReturns \/ OracleReturns \/ LendingReturns \/ DexReturns \/ LiquidityReturns
    BY <1>10, <1>0 DEF FeedReturns, OracleReturns, LendingReturns, DexReturns, LiquidityReturns, EnvType, Inv
  <1>11. CASE Interest
    <2>1. PICK i \in Interests :
            Move([book EXCEPT !.usdc.bal = @ + (IF @ > 0 THEN i ELSE 0),
                              !.lent.bal = @ + (IF @ > 0 THEN i ELSE 0)], env)
      BY <1>11 DEF Interest
    <2> DEFINE x == book.usdc.bal + (IF book.usdc.bal > 0 THEN i ELSE 0)
               y == book.lent.bal + (IF book.lent.bal > 0 THEN i ELSE 0)
               l == [book.usdc EXCEPT !.bal = x]
               m == [book.lent EXCEPT !.bal = y]
    <2>2. i \in Nat /\ x \in Int /\ x >= book.usdc.bal /\ y \in Int
      BY <1>0, ConstantTypes, BalancedTypes
    <2>3. book' = [book EXCEPT !.usdc = l, !.lent = m] /\ env' = env
      BY <2>1 DEF Move
    <2>4. book.usdc \in Loan /\ book.lent \in Loan
      BY <1>0, BalancedTypes
    <2> HIDE DEF x, y
    <2>5. l \in Loan /\ m \in Loan /\ l.bal = x /\ l.last = book.usdc.last /\ l.chk = book.usdc.chk
      BY <2>2, <2>4 DEF Loan
    <2> HIDE DEF l, m
    <2>6. Balanced([book EXCEPT !.usdc = l, !.lent = m])
      BY <1>0, <2>2, <2>5, InterestBalanced
    <2> QED BY <1>0, <2>3, <2>6 DEF Inv
  <1>12. CASE Funding
    <2>1. PICK f \in Fundings : Move([book EXCEPT !.pending = @ + f, !.accruing = TRUE], env)
      BY <1>12 DEF Funding
    <2> DEFINE x == book.pending + f
               a == TRUE
    <2>2. x \in Int /\ a \in BOOLEAN
      BY <1>0, ConstantTypes, BalancedTypes
    <2>3. book' = [book EXCEPT !.pending = x, !.accruing = a] /\ env' = env
      BY <2>1 DEF Move
    <2> HIDE DEF x, a
    <2> QED BY <1>0, <2>2, <2>3, FundingBalanced DEF Inv
  <1>13. CASE IndexMoves
    <2> DEFINE a == FALSE
    <2>1. book' = [book EXCEPT !.accruing = a] /\ env' = env
      BY <1>13 DEF IndexMoves, Move
    <2>2. a \in BOOLEAN
      OBVIOUS
    <2> HIDE DEF a
    <2> QED BY <1>0, <2>1, <2>2, IndexBalanced DEF Inv
  <1>14. CASE Liquidation
    BY <1>14, <1>0, LiquidatedBalanced DEF Liquidation, Move, Inv
  <1>15. CASE Deleveraging
    BY <1>15, <1>0, ConstantTypes, DeleveragedBalanced DEF Deleveraging, Move, Inv
  <1>16. CASE UNCHANGED vars
    BY <1>16, <1>0 DEF vars, Inv
  <1> QED
    BY <1>1, <1>2, <1>3, <1>4, <1>5, <1>6, <1>7, <1>8, <1>9, <1>10, <1>11, <1>12, <1>13, <1>14,
       <1>15, <1>16 DEF Next

LEMMA InvHolds == Spec => []Inv
  BY InitHolds, NextHolds, PTL DEF Spec

-----------------------------------------------------------------------------
(* From the equation to the report: the net asset value counts the reserve, *)
(* the long and the venue's equity, the report their causes; what neither   *)
(* the oracle nor the venue can say cancels out.                            *)

LEMMA ReportExplains ==
    ASSUME Inv, env.feed \/ book.margin >= 0 PROVE residual = 0
  <1> DEFINE long == longValue(book, env)
             incomeWeth == (readInterest(book.lent, env) * env.price) \div Q
             unrealized == pnl(book.size, IF book.size = 0 THEN 0 ELSE book.markEntry, readMark(env))
             profit == pnl(book.size, book.entry, readMark(env))
             income == readInterest(book.usdc, env)
             reserve == readBalance(book.usdc, env)
             pending == readPending(book, env)
             raw == rawEquity(book, env)
  <1>1. Balanced(book) /\ Env(env)
    BY EnvHolds DEF Inv
  <1>2. /\ Terms(book) /\ book.slippage \in Int /\ book.size \in Int /\ book.entry \in Int
        /\ book.markEntry \in Int /\ book.pending \in Int /\ book.usdc \in Loan /\ book.lent \in Loan
    BY <1>1, TermTypes, BookTypes DEF Balanced
  <1>3. readMark(env) \in Int /\ env.price \in Int
    BY <1>1, EnvTypes DEF readMark
  <1>4. unrealized \in Int /\ profit \in Int
    BY <1>2, <1>3, PnlInt
  <1>5. reserve - income = book.usdc.last - book.usdc.chk /\ income \in Int /\ reserve \in Int
    <2>1. book.usdc.last <= book.usdc.bal /\ book.usdc.bal \in Int
      BY <1>1, <1>2, LoanTypes DEF Balanced
    <2>2. interest(book.usdc) = book.usdc.chk + (book.usdc.bal - book.usdc.last)
      BY <1>2, <2>1 DEF interest, Pos, Terms
    <2> QED BY <1>2, <2>1, <2>2 DEF readBalance, readInterest, Terms
  <1>6. long \in Int
    BY <1>1, <1>3, HeldInt, QType, MulDivInt DEF longValue
  <1>7. incomeWeth \in Int
    <2>1. readInterest(book.lent, env) \in Int
      BY <1>2, LoanTypes, PosInt DEF readInterest, interest
    <2> QED BY <1>3, <2>1, QType, MulDivInt
  <1>8. raw = book.margin + profit + pending /\ pending \in Int
    BY <1>2 DEF rawEquity, equity, readMark, readPending, Pos, Terms
  <1>9. raw \in Int /\ Pos(raw) - Pos(-raw) = raw
    BY <1>2, <1>4, <1>8 DEF Pos, Terms
  <1>10. Pos(raw) \in Int /\ Pos(-raw) \in Int
    BY <1>9, PosInt
  <1>11. strategyNav(book, env) = book.float + reserve + long + Pos(raw)
    BY DEF strategyNav
  <1>12. netPnl(attribution(book, env))
         = income + incomeWeth + (book.funding + pending) + book.spotRealized
           + (long - book.basis - incomeWeth) + (book.realized + profit + book.slippage - unrealized)
           + unrealized - (book.swapFees + book.feesPaid + book.penalties)
           - (book.swapSlippage + book.slippage) + (book.badDebt + Pos(-raw))
    BY DEF netPnl, attribution
  <1>13. unexplained(book) = 0
    BY <1>1 DEF Balanced
  <1> HIDE DEF long, incomeWeth, unrealized, profit, income, reserve, pending, raw
  <1> QED
    BY <1>2, <1>4, <1>5, <1>6, <1>7, <1>8, <1>9, <1>10, <1>11, <1>12, <1>13
    DEF residual, unexplained, Terms

(* Whatever is traded, settled, liquidated, written off or left behind by a
   failed step of the unwinding, and whichever venue answers, the lines of
   PositionManager.pnl add up to the change of the net asset value, to the
   last unit; but not while the feed is down and funding has eaten more than
   the margin. *)
THEOREM ReconcilesAlways == Spec => []Reconciles
  <1>1. Inv => Reconciles
    BY ReportExplains DEF Reconciles
  <1> QED BY InvHolds, <1>1, PTL

-----------------------------------------------------------------------------
(* The invariant of the signs: between two calls every unsigned amount is   *)
(* one, nothing is in the float, and WETH outside the lending venue is what *)
(* an emergency could not sell.                                             *)

SignsInv ==
    /\ Inv
    /\ book.ok /\ Natural(book)
    /\ book.float = 0
    /\ book.weth > 0 => env.paused
    /\ calls \in 0..MaxCalls /\ moves \in 0..MaxMoves

LEMMA NaturalTypes ==
    ASSUME SignsInv
    PROVE  /\ Balanced(book) /\ Env(env) /\ book \in Book
           /\ book.vault \in Nat /\ book.weth \in Nat /\ book.usdc.bal \in Nat /\ book.lent.bal \in Nat
           /\ book.usdc \in Loan /\ book.lent \in Loan /\ NaturalLoan(book.usdc) /\ NaturalLoan(book.lent)
  BY EnvHolds, BalancedTypes DEF SignsInv, Inv, Natural, NaturalLoan

\* What keeps the book in order, whoever changes it.
LEMMA TidyKeeps ==
    ASSUME SignsInv, NEW c, book' = c, c.ok, Tidy(book, c), c.float = 0,
           env.paused => env'.paused
    PROVE  (book.ok /\ Natural(book) /\ book.float = 0 /\ (book.weth > 0 => env.paused))'
  <1>1. book.weth \in Nat /\ (book.weth > 0 => env.paused)
    BY NaturalTypes DEF SignsInv
  <1>2. Natural(c)
    BY DEF Tidy, Signed, SignsInv
  <1>3. c.weth > 0 => env'.paused
    <2>1. CASE book.weth = 0
      BY <2>1 DEF Tidy
    <2>2. CASE book.weth > 0
      BY <1>1, <2>2
    <2> QED BY <1>1, <2>1, <2>2
  <1> QED BY <1>2, <1>3

LEMMA CallKeeps ==
    ASSUME SignsInv, Inv', NEW c, Call(c), Tidy(book, c), c.float = 0
    PROVE  SignsInv'
  <1>1. book' = c /\ c.ok /\ env' = env /\ moves' = moves /\ calls < MaxCalls /\ calls' = calls + 1
    BY DEF Call
  <1>2. calls' \in 0..MaxCalls /\ moves' \in 0..MaxMoves
    BY <1>1, StrategyAssumption DEF SignsInv
  <1>3. (book.ok /\ Natural(book) /\ book.float = 0 /\ (book.weth > 0 => env.paused))'
    BY <1>1, TidyKeeps
  <1> QED BY <1>2, <1>3 DEF SignsInv

LEMMA MoveKeeps ==
    ASSUME SignsInv, Inv', NEW c, NEW e, Move(c, e), c.ok, Tidy(book, c), c.float = 0, env.paused => e.paused
    PROVE  SignsInv'
  <1>1. book' = c /\ env' = e /\ calls' = calls /\ moves < MaxMoves /\ moves' = moves + 1
    BY DEF Move
  <1>2. calls' \in 0..MaxCalls /\ moves' \in 0..MaxMoves
    BY <1>1, StrategyAssumption DEF SignsInv
  <1>3. (book.ok /\ Natural(book) /\ book.float = 0 /\ (book.weth > 0 => env.paused))'
    BY <1>1, TidyKeeps
  <1> QED BY <1>2, <1>3 DEF SignsInv

\* A step that leaves the book alone.
LEMMA BookUntouched ==
    ASSUME SignsInv, Inv', book' = book, env.paused => env'.paused,
           calls' \in 0..MaxCalls, moves' \in 0..MaxMoves
    PROVE  SignsInv'
  <1>1. Tidy(book, book)
    BY TidyTrans
  <1>2. (book.ok /\ Natural(book) /\ book.float = 0 /\ (book.weth > 0 => env.paused))'
    BY <1>1, TidyKeeps DEF SignsInv
  <1> QED BY <1>2 DEF SignsInv

-----------------------------------------------------------------------------
LEMMA SweptTidy == ASSUME SignsInv PROVE Tidy(book, swept) /\ swept.float = 0
  <1>1. Balanced(book) /\ book.vault \in Nat
    BY NaturalTypes
  <1> QED BY <1>1, ReceivedTidy, TidyTrans DEF swept, SignsInv

LEMMA PaidOutTidy ==
    ASSUME NEW b, Balanced(b), NEW x \in Int, x <= b.vault
    PROVE  Tidy(b, PaidOut(b, x)) /\ PaidOut(b, x).float = b.float
  <1> DEFINE c == PaidOut(b, x)
             v == b.vault - x
  <1>1. b \in Book /\ b.vault \in Int
    BY BalancedTypes
  <1>2. v >= 0
    BY <1>1
  <1>3. c = [b EXCEPT !.vault = v]
    BY DEF PaidOut
  <1> HIDE DEF c, v
  <1>4. /\ c.usdc = b.usdc /\ c.lent = b.lent /\ c.vault = v /\ c.float = b.float /\ c.weth = b.weth
        /\ c.basis = b.basis /\ c.swapFees = b.swapFees /\ c.entry = b.entry /\ c.markEntry = b.markEntry
        /\ c.feesPaid = b.feesPaid /\ c.penalties = b.penalties /\ c.badDebt = b.badDebt
        /\ c.ok = b.ok
    BY <1>1, <1>3 DEF Book
  <1> QED BY <1>2, <1>4 DEF Tidy, Signed, Natural, c

LEMMA AfterUnwindTidy ==
    ASSUME NEW b, Balanced(b), b.float = 0, NEW e, Env(e), NEW gross \in Nat
    PROVE  Tidy(b, afterUnwind(b, e, gross)) /\ afterUnwind(b, e, gross).float = 0
  <1> DEFINE need == gross - b.vault
             l == IF need > 0 THEN withdrawLiquid(b, e, need) ELSE b
             rest == gross - l.vault
             u == unwindFor(l, e, rest, MaxSlippage)
             o == u.ok /\ l.ok
  <1>1. need \in Int
    BY BalancedTypes
  <1>2. Balanced(l) /\ Tidy(b, l) /\ l.float = 0
    <2>1. CASE need > 0
      <3>1. need \in Nat
        BY <1>1, <2>1
      <3> HIDE DEF need
      <3> QED BY <2>1, <3>1, WithdrawLiquidCall, WithdrawLiquidTidy
    <2>2. CASE ~(need > 0)
      BY <2>2, TidyTrans
    <2> QED BY <2>1, <2>2
  <1>3. afterUnwind(b, e, gross)
        = IF need > 0 /\ l.vault < gross THEN [u EXCEPT !.ok = o] ELSE l
    BY DEF afterUnwind
  <1> HIDE DEF l, need
  <1>4. ASSUME l.vault < gross
        PROVE  Tidy(b, [u EXCEPT !.ok = o]) /\ [u EXCEPT !.ok = o].float = 0
    <2>1. rest \in Nat
      BY <1>2, <1>4, BalancedTypes
    <2> HIDE DEF rest
    <2>2. Balanced(u) /\ Tidy(l, u) /\ u.float = 0
      BY <1>2, <2>1, ConstantTypes, UnwindForCall, UnwindForTidy
    <2>3. o \in BOOLEAN /\ (o => u.ok) /\ u \in Book
      BY <1>2, <2>2, BalancedTypes
    <2> HIDE DEF u, o
    <2>4. Tidy(u, [u EXCEPT !.ok = o])
      BY <2>3, OkTidy
    <2>5. [u EXCEPT !.ok = o].float = u.float
      BY <2>3 DEF Book
    <2> QED BY <1>2, <2>2, <2>4, <2>5, TidyTrans
  <1> HIDE DEF u, o
  <1> QED BY <1>2, <1>3, <1>4

LEMMA UnwoundFit ==
    ASSUME SignsInv PROVE Fit(Unwound(book, env)) /\ Unwound(book, env).float = 0
  <1>1. BPS - Tolerance \in Int /\ BPS + Tolerance \in Int /\ env.mark \in Int /\ Env(env)
    BY NaturalTypes, Ratios, ConstantTypes, EnvTypes
  <1>2. (env.mark * (BPS - Tolerance)) \div BPS \in Int /\ (env.mark * (BPS + Tolerance)) \div BPS \in Int
    BY <1>1, Ratios, MulDivInt
  <1>3. Fit(book)
    BY NaturalTypes DEF SignsInv, Fit
  <1> QED BY <1>1, <1>2, <1>3, EmergencyFit DEF Unwound

LEMMA SignsInit == Init => SignsInv
  <1> SUFFICES ASSUME Init PROVE SignsInv
    OBVIOUS
  <1>1. book = EmptyBook(Capital) /\ calls = 0 /\ moves = 0
    BY DEF Init
  <1>2. Natural(book) /\ book.ok /\ book.float = 0 /\ ~(book.weth > 0)
    BY <1>1, StrategyAssumption DEF EmptyBook, NoLoan, Natural, NaturalLoan
  <1>3. calls \in 0..MaxCalls /\ moves \in 0..MaxMoves
    BY <1>1, StrategyAssumption
  <1> QED BY <1>2, <1>3, InitHolds DEF SignsInv

LEMMA SignsNext == SignsInv /\ [Next]_vars => SignsInv'
  <1> SUFFICES ASSUME SignsInv, [Next]_vars PROVE SignsInv'
    OBVIOUS
  <1>0. /\ Inv' /\ Balanced(book) /\ Env(env) /\ env \in EnvType /\ book \in Book
        /\ book.ok /\ book.float = 0 /\ calls \in 0..MaxCalls /\ moves \in 0..MaxMoves
    BY NextHolds, NaturalTypes DEF SignsInv, Inv
  <1>1. CASE SweepIdle
    BY <1>1, <1>0, SweptTidy, CallKeeps DEF SweepIdle
  <1>2. CASE Rebalance
    <2>1. PICK plan \in Plans : Call(executeRebalance(swept, env, plan))
      BY <1>2 DEF Rebalance
    <2>2. /\ Tidy(swept, executeRebalance(swept, env, plan))
          /\ executeRebalance(swept, env, plan).float = 0
      BY <1>0, ConstantTypes, SweptBalanced, RebalanceTidy DEF SignsInv
    <2>3. Tidy(book, executeRebalance(swept, env, plan))
      BY <2>2, SweptTidy, TidyTrans
    <2> QED BY <1>0, <2>1, <2>2, <2>3, CallKeeps
  <1>3. CASE Withdraw
    <2> DEFINE b(x) == IF book.vault < x THEN withdrawLiquid(book, env, x - book.vault) ELSE book
    <2>1. PICK x \in Exits : b(x).vault >= x /\ Call(PaidOut(b(x), x))
      BY <1>3 DEF Withdraw
    <2>2. x \in Int /\ x - book.vault \in Int /\ (book.vault < x => x - book.vault \in Nat)
      BY <1>0, ConstantTypes, BalancedTypes
    <2>3. Balanced(b(x)) /\ Tidy(book, b(x)) /\ b(x).float = 0
      BY <1>0, <2>2, WithdrawLiquidCall, WithdrawLiquidTidy, TidyTrans
    <2> HIDE DEF b
    <2>4. x <= b(x).vault
      BY <2>1, <2>2, <2>3, BalancedTypes
    <2>5. Tidy(b(x), PaidOut(b(x), x)) /\ PaidOut(b(x), x).float = 0
      BY <2>2, <2>3, <2>4, PaidOutTidy
    <2>6. Tidy(book, PaidOut(b(x), x))
      BY <2>3, <2>5, TidyTrans
    <2> QED BY <1>0, <2>1, <2>5, <2>6, CallKeeps
  <1>4. CASE RedeemWithUnwind
    <2>1. PICK x \in Exits : LET b == afterUnwind(book, env, x) IN Call(PaidOut(b, Min2(x, b.vault)))
      BY <1>4 DEF RedeemWithUnwind
    <2> DEFINE b == afterUnwind(book, env, x)
               y == Min2(x, b.vault)
    <2>2. x \in Nat /\ x \in Int
      BY StrategyAssumption
    <2>3. Balanced(b) /\ Tidy(book, b) /\ b.float = 0
      BY <1>0, <2>2, AfterUnwindBalanced, AfterUnwindTidy
    <2>4. Call(PaidOut(b, y))
      BY <2>1
    <2> HIDE DEF b
    <2>5. y \in Int /\ y <= b.vault
      BY <2>2, <2>3, BalancedTypes DEF Min2
    <2> HIDE DEF y
    <2>6. Tidy(b, PaidOut(b, y)) /\ PaidOut(b, y).float = 0
      BY <2>3, <2>5, PaidOutTidy
    <2>7. Tidy(book, PaidOut(b, y))
      BY <2>3, <2>6, TidyTrans
    <2> QED BY <1>0, <2>4, <2>6, <2>7, CallKeeps
  <1>5. CASE EmergencyUnwind
    <2>1. book' = Unwound(book, env) /\ env' = [env EXCEPT !.paused = TRUE] /\ moves' = moves
          /\ calls < MaxCalls /\ calls' = calls + 1
      BY <1>5 DEF EmergencyUnwind
    <2>2. env'.paused
      BY <1>0, <2>1 DEF EnvType
    <2>3. calls' \in 0..MaxCalls
      BY <1>0, <2>1, StrategyAssumption
    <2> QED BY <1>0, <2>1, <2>2, <2>3, UnwoundFit DEF SignsInv, Fit
  <1>6. CASE GuardianRepeats
    <2>1. book' = Unwound(book, env) /\ env' = env /\ env.paused /\ moves' = moves /\ calls' = calls
      BY <1>6 DEF GuardianRepeats
    <2> QED BY <1>0, <2>1, UnwoundFit DEF SignsInv, Fit
  <1>7. CASE PriceMoves \/ LiquidityMoves \/ FeedFails \/ OracleFails \/ LendingFails \/ DexFails
    <2>1. book' = book /\ env'.paused = env.paused /\ calls' = calls /\ moves < MaxMoves /\ moves' = moves + 1
      BY <1>7, <1>0
      DEF PriceMoves, LiquidityMoves, FeedFails, OracleFails, LendingFails, DexFails, Move, EnvType
    <2>2. moves' \in 0..MaxMoves
      BY <1>0, <2>1, StrategyAssumption
    <2> QED BY <1>0, <2>1, <2>2, BookUntouched
  <1>8. CASE FeedReturns \/ OracleReturns \/ LendingReturns \/ DexReturns \/ LiquidityReturns
    <2>1. book' = book /\ env'.paused = env.paused /\ calls' = calls /\ moves' = moves
      BY <1>8, <1>0
      DEF FeedReturns, OracleReturns, LendingReturns, DexReturns, LiquidityReturns, EnvType
    <2> QED BY <1>0, <2>1, BookUntouched
  <1>9. CASE Interest
    <2>1. PICK i \in Interests :
            Move([book EXCEPT !.usdc.bal = @ + (IF @ > 0 THEN i ELSE 0),
                              !.lent.bal = @ + (IF @ > 0 THEN i ELSE 0)], env)
      BY <1>9 DEF Interest
    <2> DEFINE x == book.usdc.bal + (IF book.usdc.bal > 0 THEN i ELSE 0)
               y == book.lent.bal + (IF book.lent.bal > 0 THEN i ELSE 0)
               l == [book.usdc EXCEPT !.bal = x]
               m == [book.lent EXCEPT !.bal = y]
               c == [book EXCEPT !.usdc = l, !.lent = m]
    <2>2. x >= 0 /\ y >= 0
      <3>1. i \in Nat /\ book.usdc.bal \in Nat /\ book.lent.bal \in Nat
        BY ConstantTypes, NaturalTypes
      <3> QED BY <3>1
    <2>3. Move(c, env)
      BY <2>1
    <2> HIDE DEF x, y
    <2>4. NaturalLoan(l) /\ NaturalLoan(m)
      BY <2>2, NaturalTypes DEF NaturalLoan, Loan
    <2> HIDE DEF l, m, c
    <2>5. /\ c.usdc = l /\ c.lent = m /\ c.vault = book.vault /\ c.float = book.float /\ c.weth = book.weth
          /\ c.basis = book.basis /\ c.swapFees = book.swapFees /\ c.entry = book.entry
          /\ c.markEntry = book.markEntry /\ c.feesPaid = book.feesPaid
          /\ c.penalties = book.penalties /\ c.badDebt = book.badDebt /\ c.ok = book.ok
      BY <1>0 DEF c, Book
    <2>6. Tidy(book, c)
      BY <2>4, <2>5 DEF Tidy, Signed, Natural
    <2> QED BY <1>0, <2>3, <2>5, <2>6, MoveKeeps
  <1>10. CASE Funding \/ IndexMoves
    <2>1. PICK x, a : Move([book EXCEPT !.pending = x, !.accruing = a], env)
      <3>1. CASE Funding
        BY <3>1 DEF Funding
      <3>2. CASE IndexMoves
        <4>1. [book EXCEPT !.accruing = FALSE] = [book EXCEPT !.pending = book.pending, !.accruing = FALSE]
          BY <1>0 DEF Book
        <4> QED BY <3>2, <4>1 DEF IndexMoves
      <3> QED BY <1>10, <3>1, <3>2
    <2> DEFINE c == [book EXCEPT !.pending = x, !.accruing = a]
    <2>2. /\ c.usdc = book.usdc /\ c.lent = book.lent /\ c.vault = book.vault /\ c.float = book.float
          /\ c.weth = book.weth /\ c.basis = book.basis /\ c.swapFees = book.swapFees
          /\ c.entry = book.entry /\ c.markEntry = book.markEntry /\ c.feesPaid = book.feesPaid
          /\ c.penalties = book.penalties /\ c.badDebt = book.badDebt /\ c.ok = book.ok
      BY <1>0 DEF Book
    <2>3. Move(c, env)
      BY <2>1
    <2> HIDE DEF c
    <2>4. Tidy(book, c)
      BY <2>2 DEF Tidy, Signed, Natural
    <2> QED BY <1>0, <2>2, <2>3, <2>4, MoveKeeps
  <1>11. CASE Liquidation
    BY <1>11, <1>0, LiquidatedTidy, MoveKeeps DEF Liquidation
  <1>12. CASE Deleveraging
    BY <1>12, <1>0, ConstantTypes, DeleveragedTidy, MoveKeeps DEF Deleveraging
  <1>13. CASE UNCHANGED vars
    BY <1>13, <1>0, BookUntouched DEF vars
  <1> QED
    BY <1>1, <1>2, <1>3, <1>4, <1>5, <1>6, <1>7, <1>8, <1>9, <1>10, <1>11, <1>12, <1>13 DEF Next

LEMMA SignsHold == Spec => []SignsInv
  BY SignsInit, SignsNext, PTL DEF Spec

(* Whatever is called and whatever fails, no amount that is unsigned in the
   contracts would be taken below zero by a call that does not revert, and
   nothing is left lying in StrategyManager: no USDC at all, and WETH only
   where a sale of its emergencyUnwind failed. *)
THEOREM TypeCorrect == Spec => []TypeOK
  <1>1. SignsInv => TypeOK
    <2> SUFFICES ASSUME SignsInv PROVE TypeOK
      OBVIOUS
    <2>1. book \in Book /\ book.ok /\ calls \in 0..MaxCalls /\ moves \in 0..MaxMoves
      BY NaturalTypes DEF SignsInv
    <2>2. env.price \in Prices /\ env.mark \in Prices /\ env.liquid \in Liquidity
      BY DEF SignsInv, Inv, EnvType
    <2>3. Unsigned
      BY DEF SignsInv, Natural, NaturalLoan, Unsigned
    <2> QED BY <2>1, <2>2, <2>3 DEF TypeOK
  <1> QED BY SignsHold, <1>1, PTL

(* What StrategyManager.availableLiquidity tells the vault, in whatever state
   the venues are, is what a withdrawLiquid of that amount delivers, to the
   last unit and without reverting. *)
THEOREM QuotedIsDeliveredHolds == Spec => []QuotedIsDelivered
  <1>1. SignsInv => QuotedIsDelivered
    BY NaturalTypes, QuoteDelivered DEF SignsInv, QuotedIsDelivered
  <1> QED BY SignsHold, <1>1, PTL

-----------------------------------------------------------------------------
(* Sums as the pages form them. *)

Summed(g, T, w, pick) ==
    [u \in SUBSET T |-> IF u = {} THEN 0 ELSE g[u \ {pick[u]}] + w[pick[u]]]
Picks(pick, T) == \A u \in SUBSET T : u # {} => pick[u] \in u
Weights(w, T) == \A x \in T : w[x] \in Int
Among(T, a, b, c, d) == T \subseteq {a, b, c, d}
Distinct(a, b, c, d) == a # b /\ a # c /\ a # d /\ b # c /\ b # d /\ c # d
Part(x, u, w) == IF x \in u THEN w ELSE 0

(* A recursive sum over a set of at most four, whichever element it takes
   next: it is the sum of the parts. *)
LEMMA SumOfFour ==
    ASSUME NEW a, NEW b, NEW c, NEW d, Distinct(a, b, c, d), NEW T, Among(T, a, b, c, d),
           NEW w, Weights(w, T), NEW pick, Picks(pick, T)
    PROVE  /\ \E g : g = Summed(g, T, w, pick)
           /\ \A g : g = Summed(g, T, w, pick)
                => g[T] = Part(a, T, w[a]) + Part(b, T, w[b]) + Part(c, T, w[c]) + Part(d, T, w[d])
  <1> USE DEF Distinct, Among, Weights, Picks, Summed
  <1> DEFINE p(x, u) == IF x \in u THEN w[x] ELSE 0
             W == [u \in SUBSET T |-> p(a, u) + p(b, u) + p(c, u) + p(d, u)]
  <1>1. \A u \in SUBSET T : u # {} => W[u] = W[u \ {pick[u]}] + w[pick[u]]
    <2> SUFFICES ASSUME NEW u \in SUBSET T, u # {}
                 PROVE  W[u] = W[u \ {pick[u]}] + w[pick[u]]
      OBVIOUS
    <2> DEFINE y == pick[u]
               v == u \ {y}
    <2>1. y \in u /\ y \in T /\ v \in SUBSET T
      OBVIOUS
    <2>2. /\ W[u] = p(a, u) + p(b, u) + p(c, u) + p(d, u)
          /\ W[v] = p(a, v) + p(b, v) + p(c, v) + p(d, v)
      BY <2>1
    <2>3. \A x \in {a, b, c, d} : p(x, u) \in Int /\ p(x, v) \in Int
      OBVIOUS
    <2>4. \A x \in {a, b, c, d} : x # y => p(x, u) = p(x, v)
      OBVIOUS
    <2>5. p(y, u) = w[y] /\ p(y, v) = 0 /\ w[y] \in Int
      BY <2>1
    <2>6. y \in {a, b, c, d}
      BY <2>1
    <2> HIDE DEF p, W, v, y
    <2>7. W[u] = W[v] + w[y]
      <3>1. CASE y = a
        BY <3>1, <2>2, <2>3, <2>4, <2>5
      <3>2. CASE y = b
        BY <3>2, <2>2, <2>3, <2>4, <2>5
      <3>3. CASE y = c
        BY <3>3, <2>2, <2>3, <2>4, <2>5
      <3>4. CASE y = d
        BY <3>4, <2>2, <2>3, <2>4, <2>5
      <3> QED BY <3>1, <3>2, <3>3, <3>4, <2>6
    <2> QED BY <2>7 DEF y, v
  <1>2. W = [u \in SUBSET T |-> IF u = {} THEN 0 ELSE W[u \ {pick[u]}] + w[pick[u]]]
    <2>1. W[{}] = 0
      OBVIOUS
    <2> HIDE DEF p
    <2>2. \A u \in SUBSET T : W[u] = IF u = {} THEN 0 ELSE W[u \ {pick[u]}] + w[pick[u]]
      <3> HIDE DEF W
      <3> QED BY <2>1, <1>1
    <2> QED BY <2>2
  <1> HIDE DEF W
  <1>3. ASSUME NEW it, it = [u \in SUBSET T |-> IF u = {} THEN 0 ELSE it[u \ {pick[u]}] + w[pick[u]]]
        PROVE  it[T] = W[T]
    <2>1. it[{}] = 0 /\ W[{}] = 0
      BY <1>3 DEF W
    <2>2. \A u \in SUBSET T : it[u] = IF u = {} THEN 0 ELSE it[u \ {pick[u]}] + w[pick[u]]
      BY <1>3
    <2>3. \A u \in SUBSET T : /\ u \ {pick[u]} \in SUBSET T
                             /\ u # {} /\ it[u \ {pick[u]}] = W[u \ {pick[u]}] => it[u] = W[u]
      BY <1>1, <2>2
    <2> DEFINE Same(s) == \A u \in SUBSET T : u \subseteq s => it[u] = W[u]
    <2>4. \A x \in {a, b, c, d} : Same({x})
      <3> SUFFICES ASSUME NEW x \in {a, b, c, d}, NEW u \in SUBSET T, u \subseteq {x}
                   PROVE  it[u] = W[u]
        OBVIOUS
      <3>1. u = {} \/ u \ {pick[u]} = {}
        OBVIOUS
      <3> QED BY <3>1, <2>1, <2>3
    <2>5. \A x, y \in {a, b, c, d} : Same({x, y})
      <3> SUFFICES ASSUME NEW x \in {a, b, c, d}, NEW y \in {a, b, c, d},
                          NEW u \in SUBSET T, u \subseteq {x, y}
                   PROVE  it[u] = W[u]
        OBVIOUS
      <3>1. u = {} \/ u \ {pick[u]} \subseteq {x} \/ u \ {pick[u]} \subseteq {y}
        OBVIOUS
      <3> QED BY <3>1, <2>1, <2>3, <2>4
    <2>6. \A x, y, z \in {a, b, c, d} : Same({x, y, z})
      <3> SUFFICES ASSUME NEW x \in {a, b, c, d}, NEW y \in {a, b, c, d}, NEW z \in {a, b, c, d},
                          NEW u \in SUBSET T, u \subseteq {x, y, z}
                   PROVE  it[u] = W[u]
        OBVIOUS
      <3>1. u = {} \/ u \ {pick[u]} \subseteq {x, y} \/ u \ {pick[u]} \subseteq {x, z}
            \/ u \ {pick[u]} \subseteq {y, z}
        OBVIOUS
      <3>2. Same({x, y}) /\ Same({x, z}) /\ Same({y, z})
        BY <2>5
      <3> QED BY <3>1, <3>2, <2>1, <2>3
    <2>7. Same({a, b, c}) /\ Same({a, b, d}) /\ Same({a, c, d}) /\ Same({b, c, d})
      <3> HIDE DEF Same
      <3> QED BY <2>6
    <2>8. T = {} \/ T \ {pick[T]} \subseteq {a, b, c} \/ T \ {pick[T]} \subseteq {a, b, d}
          \/ T \ {pick[T]} \subseteq {a, c, d} \/ T \ {pick[T]} \subseteq {b, c, d}
      OBVIOUS
    <2> QED BY <2>1, <2>3, <2>7, <2>8
  <1>4. W[T] = Part(a, T, w[a]) + Part(b, T, w[b]) + Part(c, T, w[c]) + Part(d, T, w[d])
    BY DEF W, Part
  <1> HIDE DEF Part
  <1>5. \E g : g = Summed(g, T, w, pick)
    BY <1>2
  <1> QED BY <1>3, <1>4, <1>5

LEMMA SumOfSlices ==
    ASSUME NEW a, NEW b, NEW c, NEW d, Distinct(a, b, c, d), NEW T \in SUBSET {a, b, c, d}, \A x \in {a, b, c, d} : x.pct \in Int
    PROVE  SumOver(T) = Part(a, T, a.pct) + Part(b, T, b.pct) + Part(c, T, c.pct) + Part(d, T, d.pct)
  <1> DEFINE w == [x \in {a, b, c, d} |-> x.pct]
             pick == [u \in SUBSET T |-> CHOOSE x \in u : TRUE]
             Step(g) == [u \in SUBSET T |-> IF u = {} THEN 0
                            ELSE g[u \ {CHOOSE x \in u : TRUE}] + (CHOOSE x \in u : TRUE).pct]
             it == CHOOSE g : g = Step(g)
  <1>1. Picks(pick, T)
    BY DEF Picks
  <1>2. \A g : Step(g) = Summed(g, T, w, pick)
    <2> SUFFICES ASSUME NEW g
                 PROVE  Step(g) = Summed(g, T, w, pick)
      OBVIOUS
    <2>1. \A u \in SUBSET T : u # {} => pick[u] = (CHOOSE x \in u : TRUE) /\ w[pick[u]] = pick[u].pct
      OBVIOUS
    <2> DEFINE F(u) == IF u = {} THEN 0 ELSE g[u \ {pick[u]}] + w[pick[u]]
               G(u) == IF u = {} THEN 0
                       ELSE g[u \ {CHOOSE x \in u : TRUE}] + (CHOOSE x \in u : TRUE).pct
    <2>2. \A u \in SUBSET T : F(u) = G(u)
      <3> HIDE DEF pick, w
      <3> QED BY <2>1
    <2>3. [u \in SUBSET T |-> F(u)] = [u \in SUBSET T |-> G(u)]
      <3> HIDE DEF F, G
      <3> QED BY <2>2
    <2> QED BY <2>3 DEF Summed
  <1>3. SumOver(T) = it[T]
    BY DEF SumOver, FoldSet, MapThenFoldSet
  <1>4. Weights(w, T)
    BY DEF Weights
  <1>5. w[a] = a.pct /\ w[b] = b.pct /\ w[c] = c.pct /\ w[d] = d.pct
    OBVIOUS
  <1> HIDE DEF w, pick, Step
  <1>6. /\ \E g : g = Summed(g, T, w, pick)
        /\ \A g : g = Summed(g, T, w, pick)
              => g[T] = Part(a, T, w[a]) + Part(b, T, w[b]) + Part(c, T, w[c]) + Part(d, T, w[d])
    BY <1>1, <1>4, SumOfFour DEF Among
  <1>7. \E g : g = Step(g)
    BY <1>2, <1>6
  <1>8. it = Step(it)
    BY <1>7
  <1> HIDE DEF it
  <1>9. it[T] = Part(a, T, w[a]) + Part(b, T, w[b]) + Part(c, T, w[c]) + Part(d, T, w[d])
    BY <1>2, <1>6, <1>8
  <1> QED BY <1>3, <1>5, <1>9

LEMMA SumOfUpToFour ==
    ASSUME NEW T \in SUBSET {1, 2, 3, 4}, NEW w, Weights(w, T), NEW pick, Picks(pick, T)
    PROVE  /\ \E g : g = Summed(g, T, w, pick)
           /\ \A g : g = Summed(g, T, w, pick)
                => g[T] = Part(1, T, w[1]) + Part(2, T, w[2]) + Part(3, T, w[3]) + Part(4, T, w[4])
  <1>1. \A a, b, c, d : Distinct(a, b, c, d) /\ Among(T, a, b, c, d) =>
           /\ \E g : g = Summed(g, T, w, pick)
           /\ \A g : g = Summed(g, T, w, pick)
                => g[T] = Part(a, T, w[a]) + Part(b, T, w[b]) + Part(c, T, w[c]) + Part(d, T, w[d])
    BY SumOfFour
  <1>2. Distinct(1, 2, 3, 4) /\ Among(T, 1, 2, 3, 4)
    BY DEF Distinct, Among
  <1> QED BY <1>1, <1>2

LEMMA SumOfLines ==
    ASSUME NEW s, DOMAIN s \subseteq {1, 2, 3, 4}, \A i \in DOMAIN s : s[i].value \in Int
    PROVE  groupTotal(s) = Part(1, DOMAIN s, s[1].value) + Part(2, DOMAIN s, s[2].value)
                           + Part(3, DOMAIN s, s[3].value) + Part(4, DOMAIN s, s[4].value)
  <1> DEFINE T == DOMAIN s
             w == [i \in {1, 2, 3, 4} |-> s[i].value]
             pick == [u \in SUBSET T |-> CHOOSE i \in u : \A j \in u : i >= j]
             Step(g) == [u \in SUBSET T |-> IF u = {} THEN 0
                            ELSE g[u \ {CHOOSE i \in u : \A j \in u : i >= j}]
                                 + s[CHOOSE i \in u : \A j \in u : i >= j].value]
             it == CHOOSE g : g = Step(g)
  <1>1. \A u \in SUBSET T : u # {} => \E i \in u : \A j \in u : i >= j
    <2> SUFFICES ASSUME NEW u \in SUBSET T, u # {} PROVE \E i \in u : \A j \in u : i >= j
      OBVIOUS
    <2>1. u \subseteq {1, 2, 3, 4}
      OBVIOUS
    <2> HIDE DEF T
    <2>2. CASE 4 \in u
      <3>1. \A j \in u : 4 >= j
        BY <2>1
      <3> QED BY <2>2, <3>1
    <2>3. CASE 4 \notin u /\ 3 \in u
      BY <2>1, <2>3
    <2>4. CASE 4 \notin u /\ 3 \notin u /\ 2 \in u
      BY <2>1, <2>4
    <2>5. CASE 4 \notin u /\ 3 \notin u /\ 2 \notin u
      <3>1. u = {1}
        BY <2>1, <2>5
      <3> QED BY <3>1
    <2> QED BY <2>2, <2>3, <2>4, <2>5
  <1>2. Picks(pick, T)
    <2> SUFFICES ASSUME NEW u \in SUBSET T, u # {} PROVE pick[u] \in u
      BY DEF Picks
    <2>1. (CHOOSE i \in u : \A j \in u : i >= j) \in u
      BY <1>1
    <2> QED BY <2>1
  <1>3. \A g : Step(g) = Summed(g, T, w, pick)
    <2> SUFFICES ASSUME NEW g PROVE Step(g) = Summed(g, T, w, pick)
      OBVIOUS
    <2> DEFINE F(u) == IF u = {} THEN 0 ELSE g[u \ {pick[u]}] + w[pick[u]]
               G(u) == IF u = {} THEN 0
                       ELSE g[u \ {CHOOSE i \in u : \A j \in u : i >= j}]
                            + s[CHOOSE i \in u : \A j \in u : i >= j].value
    <2>1. \A u \in SUBSET T : u # {} => /\ pick[u] = (CHOOSE i \in u : \A j \in u : i >= j)
                                        /\ w[pick[u]] = s[pick[u]].value
      BY <1>2 DEF Picks
    <2>2. \A u \in SUBSET T : F(u) = G(u)
      <3> HIDE DEF pick, w
      <3> QED BY <2>1
    <2>3. [u \in SUBSET T |-> F(u)] = [u \in SUBSET T |-> G(u)]
      <3> HIDE DEF F, G
      <3> QED BY <2>2
    <2> QED BY <2>3 DEF Summed
  <1>4. groupTotal(s) = it[T]
    BY DEF groupTotal, FoldLeft, MapThenFoldSet, Max
  <1>5. Weights(w, T) /\ T \in SUBSET {1, 2, 3, 4}
    BY DEF Weights
  <1>6. w[1] = s[1].value /\ w[2] = s[2].value /\ w[3] = s[3].value /\ w[4] = s[4].value
    OBVIOUS
  <1> HIDE DEF w, pick, Step
  <1>7. /\ \E g : g = Summed(g, T, w, pick)
        /\ \A g : g = Summed(g, T, w, pick)
              => g[T] = Part(1, T, w[1]) + Part(2, T, w[2]) + Part(3, T, w[3]) + Part(4, T, w[4])
    <2> HIDE DEF T
    <2> QED BY <1>2, <1>5, SumOfUpToFour
  <1>8. \E g : g = Step(g)
    BY <1>3, <1>7
  <1>9. it = Step(it)
    BY <1>8
  <1> HIDE DEF it
  <1>10. it[T] = Part(1, T, w[1]) + Part(2, T, w[2]) + Part(3, T, w[3]) + Part(4, T, w[4])
    BY <1>3, <1>7, <1>9
  <1> QED BY <1>4, <1>6, <1>10

(* The running total of a waterfall of fourteen steps. *)
LEMMA RunningExists ==
    ASSUME NEW v, \A i \in 1..14 : v[i] \in Int
    PROVE  \E g : g = [i \in 0..14 |-> IF i = 0 THEN 0 ELSE g[i - 1] + v[i]]
  <1> DEFINE w1 == v[1]
             w2 == w1 + v[2]
             w3 == w2 + v[3]
             w4 == w3 + v[4]
             w5 == w4 + v[5]
             w6 == w5 + v[6]
             w7 == w6 + v[7]
             w8 == w7 + v[8]
             w9 == w8 + v[9]
             w10 == w9 + v[10]
             w11 == w10 + v[11]
             w12 == w11 + v[12]
             w13 == w12 + v[13]
             w14 == w13 + v[14]
             W == [i \in 0..14 |->
                     CASE i = 0 -> 0 [] i = 1 -> w1 [] i = 2 -> w2 [] i = 3 -> w3 [] i = 4 -> w4
                       [] i = 5 -> w5 [] i = 6 -> w6 [] i = 7 -> w7 [] i = 8 -> w8 [] i = 9 -> w9
                       [] i = 10 -> w10 [] i = 11 -> w11 [] i = 12 -> w12 [] i = 13 -> w13
                       [] i = 14 -> w14]
  <1>1. /\ W[0] = 0 /\ W[1] = w1 /\ W[2] = w2 /\ W[3] = w3 /\ W[4] = w4 /\ W[5] = w5 /\ W[6] = w6
        /\ W[7] = w7 /\ W[8] = w8 /\ W[9] = w9 /\ W[10] = w10 /\ W[11] = w11 /\ W[12] = w12
        /\ W[13] = w13 /\ W[14] = w14
    <2> HIDE DEF w1, w2, w3, w4, w5, w6, w7, w8, w9, w10, w11, w12, w13, w14
    <2> QED OBVIOUS
  <1>2. W = [i \in 0..14 |-> W[i]]
    OBVIOUS
  <1> HIDE DEF W
  <1>3. \A i \in 1..14 : i \in {1, 2, 3, 4, 5, 6, 7, 8, 9, 10, 11, 12, 13, 14}
    OBVIOUS
  <1>4. \A i \in 0..14 : W[i] = IF i = 0 THEN 0 ELSE W[i - 1] + v[i]
    BY <1>1, <1>3
  <1> QED BY <1>2, <1>4

LEMMA RunningTotal ==
    ASSUME NEW v, \A i \in 1..14 : v[i] \in Int,
           NEW r, r = [i \in 0..14 |-> IF i = 0 THEN 0 ELSE r[i - 1] + v[i]]
    PROVE  /\ r[11] = v[1] + v[2] + v[3] + v[4] + v[5] + v[6] + v[7] + v[8] + v[9] + v[10] + v[11]
           /\ r[14] = r[11] + v[12] + v[13] + v[14]
  <1>1. /\ r[0] = 0 /\ r[1] = r[0] + v[1] /\ r[2] = r[1] + v[2] /\ r[3] = r[2] + v[3]
        /\ r[4] = r[3] + v[4] /\ r[5] = r[4] + v[5] /\ r[6] = r[5] + v[6] /\ r[7] = r[6] + v[7]
        /\ r[8] = r[7] + v[8] /\ r[9] = r[8] + v[9] /\ r[10] = r[9] + v[10]
        /\ r[11] = r[10] + v[11] /\ r[12] = r[11] + v[12] /\ r[13] = r[12] + v[13]
        /\ r[14] = r[13] + v[14]
    <2>1. \A i \in 0..14 : r[i] = IF i = 0 THEN 0 ELSE r[i - 1] + v[i]
      OBVIOUS
    <2>2. \A i \in 1..14 : r[i] = r[i - 1] + v[i]
      BY <2>1
    <2>3. r[0] = 0
      BY <2>1
    <2>4. r[1] = r[0] + v[1] /\ r[2] = r[1] + v[2] /\ r[3] = r[2] + v[3] /\ r[4] = r[3] + v[4]
      BY <2>2
    <2>5. r[5] = r[4] + v[5] /\ r[6] = r[5] + v[6] /\ r[7] = r[6] + v[7] /\ r[8] = r[7] + v[8]
      BY <2>2
    <2>6. r[9] = r[8] + v[9] /\ r[10] = r[9] + v[10] /\ r[11] = r[10] + v[11]
      BY <2>2
    <2>7. r[12] = r[11] + v[12] /\ r[13] = r[12] + v[13] /\ r[14] = r[13] + v[14]
      BY <2>2
    <2> QED BY <2>3, <2>4, <2>5, <2>6, <2>7
  <1>2. /\ v[1] \in Int /\ v[2] \in Int /\ v[3] \in Int /\ v[4] \in Int /\ v[5] \in Int
        /\ v[6] \in Int /\ v[7] \in Int /\ v[8] \in Int /\ v[9] \in Int /\ v[10] \in Int
        /\ v[11] \in Int /\ v[12] \in Int /\ v[13] \in Int /\ v[14] \in Int
    OBVIOUS
  <1>3. r[4] = v[1] + v[2] + v[3] + v[4] /\ r[4] \in Int
    BY <1>1, <1>2
  <1>4. r[8] = r[4] + v[5] + v[6] + v[7] + v[8] /\ r[8] \in Int
    BY <1>1, <1>2, <1>3
  <1>5. r[11] = r[8] + v[9] + v[10] + v[11] /\ r[11] \in Int
    BY <1>1, <1>2, <1>4
  <1>6. r[14] = r[11] + v[12] + v[13] + v[14]
    BY <1>1, <1>2, <1>5
  <1> QED BY <1>2, <1>3, <1>4, <1>5, <1>6

-----------------------------------------------------------------------------
(* What the pages are drawn from. *)

LEMMA ReportTypes ==
    ASSUME SignsInv
    PROVE  /\ longValue(book, env) \in Nat /\ readBalance(book.usdc, env) \in Nat
           /\ perpEquityShown \in Nat /\ book.vault \in Nat /\ book.float = 0
           /\ book.netCapital \in Int /\ strategyNav(book, env) \in Int
           /\ strategyNav(book, env) = book.float + readBalance(book.usdc, env)
                                       + longValue(book, env) + perpEquityShown
           /\ nav = book.vault + readBalance(book.usdc, env) + longValue(book, env) + perpEquityShown
  <1>1. /\ Balanced(book) /\ Env(env) /\ NaturalLoan(book.usdc) /\ NaturalLoan(book.lent)
        /\ book.vault \in Nat /\ book.weth \in Nat /\ book.float = 0 /\ env.price \in Nat
    BY NaturalTypes, EnvTypes DEF SignsInv, Env
  <1>2. readBalance(book.usdc, env) \in Nat /\ readBalance(book.lent, env) \in Nat
    BY <1>1, NaturalTypes, LoanTypes DEF readBalance, NaturalLoan
  <1>3. longValue(book, env) \in Nat
    <2>1. wethHeld(book, env) \in Nat
      BY <1>1, <1>2 DEF wethHeld
    <2> QED BY <1>1, <2>1, QType, MulNat, DivNat DEF longValue
  <1>4. perpEquityShown \in Nat
    <2>1. /\ book.margin \in Int /\ book.pending \in Int /\ book.size \in Int /\ book.entry \in Int
          /\ env.mark \in Int /\ env.price \in Int
      BY <1>1, NaturalTypes, BookTypes, EnvTypes
    <2>2. pnl(book.size, book.entry, env.mark) \in Int /\ pnl(book.size, book.entry, env.price) \in Int
      BY <2>1, PnlInt
    <2>3. rawEquity(book, env) \in Int
      BY <2>1, <2>2, PosInt DEF rawEquity, equity, readPending
    <2> QED BY <2>3, PosInt DEF perpEquityShown
  <1>5. book.netCapital \in Int
    BY NaturalTypes, BookTypes
  <1>6. strategyNav(book, env) = book.float + readBalance(book.usdc, env)
                                 + longValue(book, env) + perpEquityShown
    BY DEF strategyNav, perpEquityShown
  <1> QED BY <1>1, <1>2, <1>3, <1>4, <1>5, <1>6 DEF nav

LEMMA AttributionTypes ==
    ASSUME SignsInv, NEW a, a = attribution(book, env)
    PROVE  /\ a.lendingIncomeUsdc \in Int /\ a.lendingIncomeWeth \in Int /\ a.fundingIncome \in Int
           /\ a.spotRealizedPnl \in Int /\ a.spotUnrealizedPnl \in Int
           /\ a.perpRealizedPnl \in Int /\ a.perpUnrealizedPnl \in Int
           /\ a.tradingFees \in Int /\ a.slippage \in Int /\ a.badDebtAbsorbed \in Int
  <1>1. /\ book \in Book /\ Terms(book) /\ book.usdc \in Loan /\ book.lent \in Loan
        /\ book.slippage \in Int /\ book.size \in Int /\ book.entry \in Int /\ book.markEntry \in Int
        /\ book.pending \in Int /\ env.price \in Int /\ readMark(env) \in Int
    BY NaturalTypes, TermTypes, BookTypes, EnvTypes DEF readMark
  <1>2. /\ readInterest(book.usdc, env) \in Int
        /\ (readInterest(book.lent, env) * env.price) \div Q \in Int
    <2>1. readInterest(book.usdc, env) \in Int /\ readInterest(book.lent, env) \in Int
      BY <1>1, LoanTypes, PosInt DEF readInterest, interest
    <2> QED BY <1>1, <2>1, QType, MulDivInt
  <1>3. longValue(book, env) \in Int
    BY ReportTypes
  <1>4. /\ pnl(book.size, book.entry, readMark(env)) \in Int
        /\ pnl(book.size, IF book.size = 0 THEN 0 ELSE book.markEntry, readMark(env)) \in Int
    BY <1>1, PnlInt
  <1>5. readPending(book, env) \in Int
    BY <1>1 DEF readPending
  <1>6. Pos(-rawEquity(book, env)) \in Int
    <2>1. book.margin \in Int /\ env.mark \in Int
      BY <1>1, NaturalTypes, EnvTypes DEF Terms
    <2>2. pnl(book.size, book.entry, env.mark) \in Int /\ pnl(book.size, book.entry, env.price) \in Int
      BY <1>1, <2>1, PnlInt
    <2>3. rawEquity(book, env) \in Int
      BY <1>1, <1>5, <2>1, <2>2, PosInt DEF rawEquity, equity
    <2> QED BY <2>3, PosInt
  <1> DEFINE iw == (readInterest(book.lent, env) * env.price) \div Q
             un == pnl(book.size, IF book.size = 0 THEN 0 ELSE book.markEntry, readMark(env))
             pr == pnl(book.size, book.entry, readMark(env))
             bd == Pos(-rawEquity(book, env))
  <1>7. a = [lendingIncomeUsdc |-> readInterest(book.usdc, env),
             lendingIncomeWeth |-> iw,
             fundingIncome     |-> book.funding + readPending(book, env),
             spotRealizedPnl   |-> book.spotRealized,
             spotUnrealizedPnl |-> longValue(book, env) - book.basis - iw,
             perpUnrealizedPnl |-> un,
             perpRealizedPnl   |-> book.realized + pr + book.slippage - un,
             tradingFees       |-> book.swapFees + book.feesPaid + book.penalties,
             slippage          |-> book.swapSlippage + book.slippage,
             badDebtAbsorbed   |-> book.badDebt + bd]
    BY DEF attribution
  <1>8. iw \in Int /\ un \in Int /\ pr \in Int /\ bd \in Int
    BY <1>2, <1>4, <1>6
  <1> HIDE DEF iw, un, pr, bd
  <1> QED BY <1>1, <1>2, <1>3, <1>5, <1>7, <1>8 DEF Terms

LEMMA PagesDoAgree == ASSUME SignsInv PROVE PagesAgree
  <1> DEFINE p == positionsView
             a == pnlView.attribution
  <1>1. a = attribution(book, env)
    BY DEF pnlView
  <1>2. fundingView.cumulativeFundingUsd = a.fundingIncome
    BY <1>1 DEF fundingView, attribution
  <1>3. spotUnrealized(p) = longValue(book, env) - book.basis
    BY DEF spotUnrealized, positionsView
  <1>4. a.spotUnrealizedPnl = longValue(book, env) - book.basis - a.lendingIncomeWeth
    BY <1>1 DEF attribution
  <1>5. longValue(book, env) \in Int /\ book.basis \in Int /\ a.lendingIncomeWeth \in Int
    BY <1>1, ReportTypes, AttributionTypes, NaturalTypes, BookTypes
  <1>6. spotUnrealized(p) = a.spotUnrealizedPnl + a.lendingIncomeWeth
    BY <1>3, <1>4, <1>5
  <1>7. p.reserve.suppliedUsd + p.long.valueUsd + p.perp.equityUsd + p.idle.strategyFloatUsd
        = readBalance(book.usdc, env) + longValue(book, env) + perpEquityShown + book.float
    BY DEF positionsView
  <1>8. pnlView.strategyNav = strategyNav(book, env)
    BY DEF pnlView
  <1>9. p.reserve.suppliedUsd + p.long.valueUsd + p.perp.equityUsd + p.idle.strategyFloatUsd
        = pnlView.strategyNav
    BY <1>7, <1>8, ReportTypes
  <1> HIDE DEF p, a
  <1> QED BY <1>2, <1>6, <1>9 DEF PagesAgree, p, a

LEMMA AllocationIsOne == ASSUME SignsInv PROVE AllocationIsWhole
  <1> DEFINE p == positionsView
             al == allocation(positionsView)
             r == readBalance(book.usdc, env)
             l == longValue(book, env)
             q == perpEquityShown
             i == book.vault + book.float
             x1 == Slice("USDC reserve", r, al.reserve)
             x2 == Slice("WETH long", l, al.long)
             x3 == Slice("Perp margin (equity)", q, al.perp)
             x4 == Slice("Idle", i, al.idle)
             s == slices(positionsView, al)
  <1>1. /\ r \in Nat /\ l \in Nat /\ q \in Nat /\ i \in Nat /\ nav = i + r + l + q
    BY ReportTypes
  <1>2. s = {x1, x2, x3, x4}
    BY DEF slices, positionsView
  <1>3. al = IF nav <= 0 THEN [reserve |-> 0, long |-> 0, perp |-> 0, idle |-> 0]
             ELSE [reserve |-> r, long |-> l, perp |-> q, idle |-> i]
    BY DEF allocation, positionsView
  <1>4. Distinct(x1, x2, x3, x4)
    <2>1. /\ x1.label = "USDC reserve" /\ x2.label = "WETH long"
          /\ x3.label = "Perp margin (equity)" /\ x4.label = "Idle"
      BY DEF Slice
    <2> HIDE DEF x1, x2, x3, x4
    <2> QED BY <2>1 DEF Distinct
  <1>5. /\ x1.pct = al.reserve /\ x2.pct = al.long /\ x3.pct = al.perp /\ x4.pct = al.idle
        /\ x1.value = r /\ x2.value = l /\ x3.value = q /\ x4.value = i
    BY DEF Slice
  <1>6. nav > 0 => al.reserve = r /\ al.long = l /\ al.perp = q /\ al.idle = i
    BY <1>1, <1>3
  <1>7. ~(nav > 0) => nav = 0 /\ al.reserve = 0 /\ al.long = 0 /\ al.perp = 0 /\ al.idle = 0
    BY <1>1, <1>3
  <1>8. /\ nav \in Nat
        /\ al.reserve \in Nat /\ al.long \in Nat /\ al.perp \in Nat /\ al.idle \in Nat
        /\ al.reserve + al.long + al.perp + al.idle = nav
    BY <1>1, <1>6, <1>7
  <1> HIDE DEF p, al, r, l, q, i, x1, x2, x3, x4, s
  <1>9. \A x \in s : x.pct >= 0 /\ (nav > 0 => x.pct = x.value)
    BY <1>2, <1>5, <1>6, <1>8
  <1>10. \A x \in {x1, x2, x3, x4} : x.pct \in Int
    BY <1>5, <1>8
  <1>11. SumOver(s) = nav
    <2>1. SumOver(s) = Part(x1, s, x1.pct) + Part(x2, s, x2.pct) + Part(x3, s, x3.pct) + Part(x4, s, x4.pct)
      BY <1>2, <1>4, <1>10, SumOfSlices
    <2>2. /\ Part(x1, s, x1.pct) = al.reserve /\ Part(x2, s, x2.pct) = al.long
          /\ Part(x3, s, x3.pct) = al.perp /\ Part(x4, s, x4.pct) = al.idle
      BY <1>2, <1>5 DEF Part
    <2> QED BY <1>8, <2>1, <2>2
  <1>12. 500 * (nav - SumOver(visible(s))) <= nav
    <2> DEFINE v == visible(s)
               y1 == Part(x1, v, x1.pct)
               y2 == Part(x2, v, x2.pct)
               y3 == Part(x3, v, x3.pct)
               y4 == Part(x4, v, x4.pct)
    <2>1. v \in SUBSET {x1, x2, x3, x4}
      BY <1>2 DEF visible
    <2>2. SumOver(v) = y1 + y2 + y3 + y4
      <3> HIDE DEF v
      <3> QED BY <2>1, <1>4, <1>10, SumOfSlices
    <2>3. /\ y1 = al.reserve \/ (y1 = 0 /\ 2000 * al.reserve <= nav)
          /\ y2 = al.long \/ (y2 = 0 /\ 2000 * al.long <= nav)
          /\ y3 = al.perp \/ (y3 = 0 /\ 2000 * al.perp <= nav)
          /\ y4 = al.idle \/ (y4 = 0 /\ 2000 * al.idle <= nav)
      <3>1. \A x \in s : x \notin v => 2000 * x.pct <= nav
        <4>1. \A x \in s : x \notin v => ~(2000 * x.pct > nav)
          BY DEF visible
        <4> QED BY <4>1, <1>2, <1>5, <1>8
      <3>2. x1 \in s /\ x2 \in s /\ x3 \in s /\ x4 \in s
        BY <1>2
      <3> HIDE DEF v
      <3> QED BY <3>1, <3>2, <1>5 DEF Part
    <2> HIDE DEF v, y1, y2, y3, y4
    <2>4. 2000 * (nav - (y1 + y2 + y3 + y4)) <= 4 * nav
      BY <1>8, <2>3
    <2>5. y1 \in Int /\ y2 \in Int /\ y3 \in Int /\ y4 \in Int
      BY <1>8, <2>3
    <2> QED BY <1>8, <2>2, <2>4, <2>5 DEF v
  <1> QED BY <1>9, <1>11, <1>12 DEF AllocationIsWhole, s, al

-----------------------------------------------------------------------------
(* The waterfall: two groups of lines and a subtotal each. *)

LEMMA Joined ==
    ASSUME NEW a, NEW b, NEW c, NEW d, NEW e, NEW f, NEW g, NEW h, NEW i, NEW j, NEW k, NEW m, NEW n, NEW w,
           w = <<a, b, c>> \o <<d, e, f, g>> \o <<h, i, j>> \o <<k>> \o <<m, n>> \o <<k>>
    PROVE  /\ Len(w) = 14
           /\ w[1] = a /\ w[2] = b /\ w[3] = c /\ w[4] = d /\ w[5] = e /\ w[6] = f /\ w[7] = g
           /\ w[8] = h /\ w[9] = i /\ w[10] = j /\ w[11] = k /\ w[12] = m /\ w[13] = n /\ w[14] = k
  OBVIOUS

LEMMA BarsEnd ==
    ASSUME NEW w, Len(w) = 14, \A i \in 1..14 : w[i].value \in Int,
           w[11].total, w[14].total, w[11].value = 0, w[14].value = 0
    PROVE  LET first == w[1].value + w[2].value + w[3].value + w[4].value + w[5].value
                        + w[6].value + w[7].value + w[8].value + w[9].value + w[10].value
               rows == buildRows(w)
           IN  rows[11].to = first /\ rows[14].to = first + w[12].value + w[13].value
  <1> DEFINE v == [i \in 1..14 |-> w[i].value]
             Step(g) == [i \in 0..14 |-> IF i = 0 THEN 0 ELSE g[i - 1] + w[i].value]
             r == CHOOSE g : g = Step(g)
  <1>1. \A i \in 1..14 : v[i] = w[i].value /\ v[i] \in Int
    OBVIOUS
  <1>2. \A g : Step(g) = [i \in 0..14 |-> IF i = 0 THEN 0 ELSE g[i - 1] + v[i]]
    <2> SUFFICES ASSUME NEW g
                 PROVE  Step(g) = [i \in 0..14 |-> IF i = 0 THEN 0 ELSE g[i - 1] + v[i]]
      OBVIOUS
    <2> DEFINE F(i) == IF i = 0 THEN 0 ELSE g[i - 1] + w[i].value
               G(i) == IF i = 0 THEN 0 ELSE g[i - 1] + v[i]
    <2>1. \A i \in 0..14 : F(i) = G(i)
      <3> HIDE DEF v
      <3>1. \A i \in 0..14 : i # 0 => i \in 1..14
        OBVIOUS
      <3> QED BY <1>1, <3>1
    <2>2. [i \in 0..14 |-> F(i)] = [i \in 0..14 |-> G(i)]
      <3> HIDE DEF F, G
      <3> QED BY <2>1
    <2> QED BY <2>2
  <1>3. buildRows(w) = [i \in 1..14 |-> IF w[i].total THEN [from |-> 0, to |-> r[i]]
                                         ELSE [from |-> r[i - 1], to |-> r[i]]]
    BY DEF buildRows
  <1>4. buildRows(w)[11].to = r[11] /\ buildRows(w)[14].to = r[14]
    <2> HIDE DEF r
    <2> QED BY <1>3
  <1> HIDE DEF v, Step
  <1>5. r = Step(r)
    <2>1. \E g : g = [i \in 0..14 |-> IF i = 0 THEN 0 ELSE g[i - 1] + v[i]]
      BY <1>1, RunningExists
    <2>2. \E g : g = Step(g)
      BY <1>2, <2>1
    <2> QED BY <2>2
  <1> HIDE DEF r
  <1>6. /\ r[11] = v[1] + v[2] + v[3] + v[4] + v[5] + v[6] + v[7] + v[8] + v[9] + v[10] + v[11]
        /\ r[14] = r[11] + v[12] + v[13] + v[14]
    BY <1>1, <1>2, <1>5, RunningTotal
  <1>7. /\ v[1] = w[1].value /\ v[2] = w[2].value /\ v[3] = w[3].value /\ v[4] = w[4].value
        /\ v[5] = w[5].value /\ v[6] = w[6].value /\ v[7] = w[7].value /\ v[8] = w[8].value
        /\ v[9] = w[9].value /\ v[10] = w[10].value /\ v[11] = 0 /\ v[12] = w[12].value
        /\ v[13] = w[13].value /\ v[14] = 0
    BY <1>1
  <1>8. /\ v[1] \in Int /\ v[2] \in Int /\ v[3] \in Int /\ v[4] \in Int /\ v[5] \in Int
        /\ v[6] \in Int /\ v[7] \in Int /\ v[8] \in Int /\ v[9] \in Int /\ v[10] \in Int
        /\ v[12] \in Int /\ v[13] \in Int
    BY <1>1
  <1> QED BY <1>4, <1>6, <1>7, <1>8

LEMMA WaterfallIsDrawn == ASSUME SignsInv PROVE WaterfallIsThePage
  <1> DEFINE a == attribution(book, env)
             net == netPnl(a)
             p == pnlView
             l == lines(p)
             w == waterfallSteps(l)
             mf == FeesTaken.mgmt
             pf == FeesTaken.perf
             gain == strategyNav(book, env) - book.netCapital
             x1 == Line("Lending USDC", a.lendingIncomeUsdc)
             x2 == Line("Lending WETH", a.lendingIncomeWeth)
             x3 == Line("Funding", a.fundingIncome)
             x4 == Line("Spot realised", a.spotRealizedPnl)
             x5 == Line("Spot unrealised", a.spotUnrealizedPnl)
             x6 == Line("Perp realised", a.perpRealizedPnl)
             x7 == Line("Perp unrealised", a.perpUnrealizedPnl)
             x8 == Line("Trading fees", -a.tradingFees)
             x9 == Line("Slippage", -a.slippage)
             x10 == Line("Bad debt absorbed", -a.badDebtAbsorbed)
             x11 == Line("Management fee", -mf)
             x12 == Line("Performance fee", -pf)
  <1>1. /\ p.attribution = a /\ p.strategyNetPnl = net /\ p.managementFees = mf /\ p.performanceFees = pf
        /\ p.netPnlAfterFees = net - mf - pf /\ p.strategyNav - p.netCapital = gain
        /\ p.reconciliationResidualUsd = gain - net
    BY DEF pnlView
  <1>2. /\ l.carry = <<x1, x2, x3>> /\ l.hedge = <<x4, x5, x6, x7>>
        /\ l.costs = <<x8, x9, x10>> /\ l.fees = <<x11, x12>>
    <2> HIDE DEF a, p
    <2> QED BY <1>1 DEF lines
  <1>3. /\ a.lendingIncomeUsdc \in Int /\ a.lendingIncomeWeth \in Int /\ a.fundingIncome \in Int
        /\ a.spotRealizedPnl \in Int /\ a.spotUnrealizedPnl \in Int
        /\ a.perpRealizedPnl \in Int /\ a.perpUnrealizedPnl \in Int
        /\ a.tradingFees \in Int /\ a.slippage \in Int /\ a.badDebtAbsorbed \in Int
    BY AttributionTypes
  <1>4. mf \in Int /\ pf \in Int /\ gain \in Int
    <2>1. FeesTaken.mgmt \in Nat /\ FeesTaken.perf \in Nat
      BY ReportsAssumption
    <2> QED BY <2>1, ReportTypes
  <1>5. net = a.lendingIncomeUsdc + a.lendingIncomeWeth + a.fundingIncome
              + a.spotRealizedPnl + a.spotUnrealizedPnl + a.perpRealizedPnl + a.perpUnrealizedPnl
              - a.tradingFees - a.slippage + a.badDebtAbsorbed
    BY DEF netPnl
  <1>6. subtotals(l) = <<buildRows(w)[11].to, buildRows(w)[14].to>>
    BY DEF subtotals
  <1> HIDE DEF a, net, p, mf, pf, gain
  <1>7. /\ x1.value = a.lendingIncomeUsdc /\ x2.value = a.lendingIncomeWeth
        /\ x3.value = a.fundingIncome /\ x4.value = a.spotRealizedPnl
        /\ x5.value = a.spotUnrealizedPnl /\ x6.value = a.perpRealizedPnl
        /\ x7.value = a.perpUnrealizedPnl /\ x8.value = -a.tradingFees
        /\ x9.value = -a.slippage /\ x10.value = -a.badDebtAbsorbed
        /\ x11.value = -mf /\ x12.value = -pf /\ Total.value = 0 /\ Total.total
    BY DEF Line, Total
  <1> HIDE DEF x1, x2, x3, x4, x5, x6, x7, x8, x9, x10, x11, x12
  <1>8. /\ Len(w) = 14
        /\ w[1] = x1 /\ w[2] = x2 /\ w[3] = x3 /\ w[4] = x4 /\ w[5] = x5 /\ w[6] = x6 /\ w[7] = x7
        /\ w[8] = x8 /\ w[9] = x9 /\ w[10] = x10 /\ w[11] = Total /\ w[12] = x11 /\ w[13] = x12
        /\ w[14] = Total
    <2> HIDE DEF l
    <2>1. w = l.carry \o l.hedge \o l.costs \o <<Total>> \o l.fees \o <<Total>>
      BY DEF waterfallSteps
    <2> HIDE DEF w
    <2>2. w = <<x1, x2, x3>> \o <<x4, x5, x6, x7>> \o <<x8, x9, x10>> \o <<Total>>
              \o <<x11, x12>> \o <<Total>>
      BY <1>2, <2>1
    <2> QED BY <2>2, Joined
  <1> HIDE DEF w
  <1>9. \A i \in 1..14 : w[i].value \in Int
    <2>1. \A i \in 1..14 : i \in {1, 2, 3, 4, 5, 6, 7, 8, 9, 10, 11, 12, 13, 14}
      OBVIOUS
    <2>2. \A i \in {1, 2, 3, 4, 5, 6, 7, 8, 9, 10, 11, 12, 13, 14} : w[i].value \in Int
      BY <1>3, <1>4, <1>7, <1>8
    <2> QED BY <2>1, <2>2
  <1>10. /\ buildRows(w)[11].to = net - 2 * a.badDebtAbsorbed
         /\ buildRows(w)[14].to = net - 2 * a.badDebtAbsorbed - mf - pf
    <2>1. /\ buildRows(w)[11].to = w[1].value + w[2].value + w[3].value + w[4].value + w[5].value
                        + w[6].value + w[7].value + w[8].value + w[9].value + w[10].value
          /\ buildRows(w)[14].to = w[1].value + w[2].value + w[3].value + w[4].value + w[5].value
                        + w[6].value + w[7].value + w[8].value + w[9].value + w[10].value
                        + w[12].value + w[13].value
      BY <1>7, <1>8, <1>9, BarsEnd
    <2> DEFINE total == a.lendingIncomeUsdc + a.lendingIncomeWeth + a.fundingIncome
                        + a.spotRealizedPnl + a.spotUnrealizedPnl + a.perpRealizedPnl + a.perpUnrealizedPnl
                        + (-a.tradingFees) + (-a.slippage) + (-a.badDebtAbsorbed)
    <2>2. buildRows(w)[11].to = total /\ buildRows(w)[14].to = total + (-mf) + (-pf)
      <3> HIDE DEF l
      <3> QED BY <2>1, <1>7, <1>8
    <2>3. total = net - 2 * a.badDebtAbsorbed /\ total \in Int
      BY <1>3, <1>5
    <2> HIDE DEF total
    <2> QED BY <2>2, <2>3, <1>4
  <1>11. groupTotal(l.carry) + groupTotal(l.hedge) + groupTotal(l.costs) = net - 2 * a.badDebtAbsorbed
    <2> DEFINE c == l.carry
               h == l.hedge
               k == l.costs
    <2>1. /\ DOMAIN c = {1, 2, 3} /\ DOMAIN h = {1, 2, 3, 4} /\ DOMAIN k = {1, 2, 3}
          /\ c[1].value = a.lendingIncomeUsdc /\ c[2].value = a.lendingIncomeWeth
          /\ c[3].value = a.fundingIncome
          /\ h[1].value = a.spotRealizedPnl /\ h[2].value = a.spotUnrealizedPnl
          /\ h[3].value = a.perpRealizedPnl /\ h[4].value = a.perpUnrealizedPnl
          /\ k[1].value = -a.tradingFees /\ k[2].value = -a.slippage /\ k[3].value = -a.badDebtAbsorbed
      <3> HIDE DEF l
      <3>1. c = <<x1, x2, x3>> /\ h = <<x4, x5, x6, x7>> /\ k = <<x8, x9, x10>>
        BY <1>2
      <3> HIDE DEF c, h, k
      <3> QED BY <1>7, <3>1
    <2> HIDE DEF c, h, k
    <2>2. groupTotal(c) = a.lendingIncomeUsdc + a.lendingIncomeWeth + a.fundingIncome
      <3>1. groupTotal(c) = Part(1, DOMAIN c, c[1].value) + Part(2, DOMAIN c, c[2].value)
                            + Part(3, DOMAIN c, c[3].value) + Part(4, DOMAIN c, c[4].value)
        BY <2>1, <1>3, SumOfLines
      <3> QED BY <3>1, <2>1, <1>3 DEF Part
    <2>3. groupTotal(h) = a.spotRealizedPnl + a.spotUnrealizedPnl + a.perpRealizedPnl + a.perpUnrealizedPnl
      <3>1. groupTotal(h) = Part(1, DOMAIN h, h[1].value) + Part(2, DOMAIN h, h[2].value)
                            + Part(3, DOMAIN h, h[3].value) + Part(4, DOMAIN h, h[4].value)
        BY <2>1, <1>3, SumOfLines
      <3> QED BY <3>1, <2>1, <1>3 DEF Part
    <2>4. groupTotal(k) = -a.tradingFees - a.slippage - a.badDebtAbsorbed
      <3>1. groupTotal(k) = Part(1, DOMAIN k, k[1].value) + Part(2, DOMAIN k, k[2].value)
                            + Part(3, DOMAIN k, k[3].value) + Part(4, DOMAIN k, k[4].value)
        BY <2>1, <1>3, SumOfLines
      <3> QED BY <3>1, <2>1, <1>3 DEF Part
    <2>5. groupTotal(c) + groupTotal(h) + groupTotal(k) = net - 2 * a.badDebtAbsorbed
      BY <2>2, <2>3, <2>4, <1>3, <1>5
    <2> QED BY <2>5 DEF c, h, k
  <1>12. net \in Int
    BY <1>3, <1>5
  <1>13. ASSUME p.reconciliationResidualUsd = 0
         PROVE  /\ subtotals(l) = <<p.strategyNav - p.netCapital - 2 * a.badDebtAbsorbed,
                                    p.netPnlAfterFees - 2 * a.badDebtAbsorbed>>
                /\ groupTotal(l.carry) + groupTotal(l.hedge) + groupTotal(l.costs)
                   = p.strategyNetPnl - 2 * a.badDebtAbsorbed
    <2>1. gain = net
      BY <1>1, <1>4, <1>12, <1>13
    <2> DEFINE astray == 2 * a.badDebtAbsorbed
    <2>2. astray \in Int
      BY <1>3
    <2>3. /\ buildRows(w)[11].to = net - astray /\ buildRows(w)[14].to = net - astray - mf - pf
          /\ groupTotal(l.carry) + groupTotal(l.hedge) + groupTotal(l.costs) = net - astray
      BY <1>10, <1>11
    <2> HIDE DEF astray
    <2>4. buildRows(w)[11].to = gain - astray /\ buildRows(w)[14].to = net - mf - pf - astray
      BY <1>4, <1>12, <2>1, <2>2, <2>3
    <2> HIDE DEF l
    <2>5. /\ subtotals(l) = <<p.strategyNav - p.netCapital - astray, p.netPnlAfterFees - astray>>
          /\ groupTotal(l.carry) + groupTotal(l.hedge) + groupTotal(l.costs) = p.strategyNetPnl - astray
      BY <1>1, <1>6, <2>3, <2>4 DEF w
    <2> QED BY <2>5 DEF astray
  <1> HIDE DEF l
  <1> QED BY <1>1, <1>13 DEF WaterfallIsThePage, reconciled, p, l

(* What a depositor reads is one account of one state of the books, whatever
   was traded, lent, liquidated or left half done before it was read: when the
   badge of the profit page says Reconciled, its blue bars end at the change of
   the net asset value and at the profit after fees, each short of exactly
   twice the bad debt absorbed; the slices of the allocation are the whole of
   the net asset value; and the cards of different pages show the same figure
   of the same thing (views.ts, PnlView, PositionsView and their charts). *)
THEOREM ReportsAgreeAlways == Spec => []ReportsAgree
  <1>1. SignsInv => ReportsAgree
    BY WaterfallIsDrawn, AllocationIsOne, PagesDoAgree DEF ReportsAgree
  <1> QED BY SignsHold, <1>1, PTL

-----------------------------------------------------------------------------
(* The legs through a rebalance: the hedging trade sets the size, and what  *)
(* comes after it leaves both legs as they are.                             *)

Legs(b, c, delta) == c.size = b.size + delta /\ c.lent = b.lent /\ c.weth = b.weth

LEMMA LegsTrans ==
    ASSUME NEW b \in Book, NEW c, NEW d, NEW x \in Int, NEW y \in Int, Legs(b, c, x), Legs(c, d, y)
    PROVE  Legs(b, d, x + y)
  BY BookTypes DEF Legs

LEMMA PerpTradeLegs ==
    ASSUME NEW b, Balanced(b), NEW e, Env(e), NEW delta \in Int, NEW slip \in Int
    PROVE  Legs(b, PerpTrade(b, e, delta, slip), delta)
  <1> DEFINE p == execPrice(delta, e.mark)
             s == Settled(b, e)
             f == Filled(s, delta, p)
             t == Charged(s, delta, p)
  <1>1. s \in Book /\ s.size = b.size /\ s.lent = b.lent /\ s.weth = b.weth
    <2>1. b \in Book /\ Balanced(s)
      BY BalancedTypes, SettledBalanced
    <2> QED BY <2>1, BalancedTypes DEF Settled, Book
  <1>2. p \in Int /\ Balanced(s)
    BY EnvTypes, ExecPriceInt, SettledBalanced
  <1>3. f \in Book /\ f.size = s.size + delta /\ f.lent = s.lent /\ f.weth = s.weth
    <2> HIDE DEF s, p
    <2>1. Balanced(f)
      BY <1>2, FilledBalanced
    <2> QED BY <1>1, <2>1, BalancedTypes DEF Filled, Book
  <1>4. t \in Book /\ t.size = f.size /\ t.lent = f.lent /\ t.weth = f.weth
    <2> HIDE DEF s, p
    <2>1. Balanced(t)
      BY <1>2, ChargedBalanced
    <2> QED BY <1>3, <2>1, BalancedTypes DEF Charged, Book
  <1>5. \A bound : LET c == Traded(b, t, e, delta, p, bound)
                   IN  c.size = t.size /\ c.lent = t.lent /\ c.weth = t.weth
    <2> HIDE DEF s, p, t
    <2> QED BY <1>4 DEF Traded, Book
  <1>6. \E bound : PerpTrade(b, e, delta, slip) = Traded(b, t, e, delta, p, bound)
    BY DEF PerpTrade, Trade, TradeAt
  <1> HIDE DEF s, p, f, t
  <1> QED BY <1>1, <1>3, <1>4, <1>5, <1>6 DEF Legs

LEMMA CrystallizedLegs ==
    ASSUME NEW b, Balanced(b), NEW e, Env(e), NEW needed \in Int, NEW slip \in Int
    PROVE  Legs(b, Crystallized(b, e, needed, slip), 0)
  <1>0. Legs(b, b, 0)
    BY BalancedTypes DEF Legs
  <1>1. ASSUME NEW q \in Int PROVE Legs(b, CrystallizedSlice(b, e, q, slip), 0)
    <2> DEFINE close == IF b.size < 0 THEN q ELSE -q
               c == PerpTrade(b, e, close, slip)
    <2>1. close \in Int /\ -close \in Int /\ close + (-close) = 0
      OBVIOUS
    <2> HIDE DEF close
    <2>2. Balanced(c) /\ Legs(b, c, close)
      BY <2>1, PerpTradeBalanced, PerpTradeLegs
    <2>3. Legs(c, PerpTrade(c, e, -close, slip), -close)
      BY <2>1, <2>2, PerpTradeLegs
    <2> HIDE DEF c
    <2>4. Legs(b, PerpTrade(c, e, -close, slip), 0)
      BY <2>1, <2>2, <2>3, BalancedTypes, LegsTrans
    <2> QED BY <1>0, <2>4 DEF CrystallizedSlice, Reopened, c, close
  <1> DEFINE u == pnl(b.size, b.entry, e.mark)
             profit == Min2((needed * 102) \div 100, u)
             q == CeilDiv(abs(b.size) * profit, u)
  <1>2. u \in Int
    BY EquityInt
  <1>3. CASE b.size = 0 \/ u <= 0
    BY <1>0, <1>3 DEF Crystallized, CrystallizedFrom
  <1>4. CASE ~(b.size = 0 \/ u <= 0)
    <2>1. u \in Nat \ {0} /\ abs(b.size) \in Int
      BY <1>2, <1>4, BalancedTypes, AbsInt
    <2>2. profit \in Int
      BY <1>2, MulDivInt, MinInt
    <2> HIDE DEF profit, u
    <2>3. q \in Int
      BY <2>1, <2>2, MulDivInt
    <2>4. Legs(b, CrystallizedSlice(b, e, q, slip), 0)
      BY <1>1, <2>3
    <2>5. Crystallized(b, e, needed, slip) = CrystallizedSlice(b, e, q, slip)
      BY <1>4 DEF Crystallized, CrystallizedFrom, u, profit
    <2> QED BY <2>4, <2>5
  <1> QED BY <1>3, <1>4

LEMMA WithdrawUpToLegs ==
    ASSUME NEW b, Balanced(b), NEW e, NEW x \in Int
    PROVE  Legs(b, WithdrawUpTo(b, e, x), 0)
  <1>1. b \in Book /\ b.size \in Int
    BY BalancedTypes
  <1>2. Settled(b, e) \in Book /\ Settled(b, e).size = b.size /\ Settled(b, e).lent = b.lent
        /\ Settled(b, e).weth = b.weth
    <2>1. Settled(b, e) \in Book
      BY SettledBalanced, BalancedTypes
    <2> QED BY <1>1, <2>1 DEF Settled, Book
  <1>3. LET c == WithdrawMargin(b, e, x)
        IN  c.size = b.size /\ c.lent = b.lent /\ c.weth = b.weth
    BY <1>2 DEF WithdrawMargin, Book
  <1> QED BY <1>1, <1>3 DEF WithdrawUpTo, Legs

LEMMA WithdrawFreeMarginLegs ==
    ASSUME NEW b, Balanced(b), NEW e, Env(e), NEW wanted \in Int, NEW slip \in Int
    PROVE  Legs(b, WithdrawFreeMargin(b, e, wanted, slip), 0)
  <1> DEFINE o == b.ok /\ (b.size # 0 => e.feed)
             s == [b EXCEPT !.ok = o]
             free == freeMargin(b, e)
             excess == excessMargin(b, e)
             needed == Min2(wanted, excess) - free
             m == MadeFree(s, e, wanted, free, excess, slip)
  <1>1. o \in BOOLEAN
    OBVIOUS
  <1>2. Balanced(s)
    BY <1>1, OkBalanced
  <1>3. Legs(b, s, 0)
    BY BalancedTypes DEF Legs, Book
  <1>4. needed \in Int
    BY FreeMarginInt, MinInt
  <1> HIDE DEF o, s, free, excess
  <1>5. Balanced(Crystallized(s, e, needed, slip)) /\ Legs(s, Crystallized(s, e, needed, slip), 0)
    BY <1>2, <1>4, CrystallizedBalanced, CrystallizedLegs
  <1>6. Legs(s, s, 0)
    BY <1>2, BalancedTypes DEF Legs
  <1>7. Balanced(m) /\ Legs(s, m, 0)
    BY <1>2, <1>5, <1>6 DEF MadeFree
  <1>8. WithdrawFreeMargin(b, e, wanted, slip) = WithdrawFree(m, e, wanted)
    BY DEF WithdrawFreeMargin, s, o, free, excess
  <1> HIDE DEF m
  <1>9. Min2(wanted, freeMargin(m, e)) \in Int
    BY <1>7, FreeMarginInt, MinInt
  <1>10. Legs(m, WithdrawFree(m, e, wanted), 0)
    BY <1>7, <1>9, WithdrawUpToLegs DEF WithdrawFree
  <1> QED BY <1>2, <1>3, <1>7, <1>8, <1>10, BalancedTypes DEF Legs

LEMMA ParkFloatLegs ==
    ASSUME NEW b, Balanced(b), NEW e PROVE Legs(b, ParkFloat(b, e), 0)
  BY BalancedTypes DEF ParkFloat, SupplyUsdc, Legs, Book

(* What is still to be traded after the hedging trade. *)
LEMMA RebalanceHedges ==
    ASSUME NEW b, Balanced(b), NEW e, Env(e), NEW plan \in Plan
    PROVE  abs(hedgeDiff(executeRebalance(b, e, plan), e, plan)) < MIN_HEDGE_TRADE_QTY
  <1> DEFINE o == b.ok /\ e.healthy /\ ~e.paused
             s == [b EXCEPT !.ok = o]
             b1 == ShrinkLong(s, e, plan)
             b2 == MoveMargin(b1, e, plan)
             b3 == GrowLong(b2, e, plan)
             b4 == Rehedge(b3, e, plan)
             left == marginLeft(b1, b2, plan)
             b5 == ReleaseLeft(b4, e, plan, left)
             b6 == ParkFloat(b5, e)
  <1>1. executeRebalance(b, e, plan) = b6
    BY DEF executeRebalance, AfterSale, AfterMargin
  <1>2. Balanced(s)
    BY OkBalanced
  <1> HIDE DEF o, s
  <1>3. Balanced(b1)
    BY <1>2, ShrinkLongBalanced
  <1> HIDE DEF b1
  <1>4. Balanced(b2)
    BY <1>3, MoveMarginBalanced
  <1> HIDE DEF b2
  <1>5. left \in Int
    BY <1>3, <1>4, BalancedTypes, PlanTypes DEF marginLeft
  <1>6. Balanced(b3)
    BY <1>4, GrowLongBalanced
  <1> HIDE DEF b3, left
  <1>7. Balanced(b4)
    BY <1>6, RehedgeBalanced
  <1> DEFINE diff == hedgeDiff(b3, e, plan)
             target == (wethHeld(b3, e) * plan.hedgeRatioBps) \div BPS
  <1>8. target \in Int /\ diff = -target - b3.size /\ diff \in Int
    <2>1. target \in Int
      BY <1>6, HeldInt, PlanTypes, Ratios, MulDivInt
    <2> QED BY <1>6, <2>1, BalancedTypes DEF hedgeDiff
  <1>9. \/ abs(diff) < MIN_HEDGE_TRADE_QTY /\ Legs(b3, b4, 0)
        \/ Legs(b3, b4, diff)
    <2> HIDE DEF diff
    <2>1. b4 = Rehedged(b3, e, diff, plan.slip)
      BY DEF Rehedge, diff
    <2>2. Legs(b3, b3, 0)
      BY <1>6, BalancedTypes DEF Legs
    <2>3. Legs(b3, PerpTrade(b3, e, diff, plan.slip), diff)
      BY <1>6, <1>8, PlanTypes, PerpTradeLegs
    <2>4. abs(diff) \in Int /\ MIN_HEDGE_TRADE_QTY \in Int
      BY <1>8, AbsInt, Ratios
    <2> HIDE DEF b4
    <2> QED BY <2>1, <2>2, <2>3, <2>4 DEF Rehedged
  <1> HIDE DEF b4
  <1>10. Balanced(b5) /\ Legs(b4, b5, 0)
    <2>1. Balanced(b5)
      BY <1>5, <1>7, ReleaseLeftBalanced
    <2>2. Legs(b4, b4, 0)
      BY <1>7, BalancedTypes DEF Legs
    <2> QED BY <1>5, <1>7, <2>1, <2>2, PlanTypes, WithdrawFreeMarginLegs DEF ReleaseLeft
  <1> HIDE DEF b5
  <1>11. Legs(b5, b6, 0)
    BY <1>10, ParkFloatLegs
  <1> HIDE DEF b6
  <1>12. /\ b6.lent = b3.lent /\ b6.weth = b3.weth
         /\ b6.size = b3.size + diff \/ (b6.size = b3.size /\ abs(diff) < MIN_HEDGE_TRADE_QTY)
    <2>1. b3.size \in Int
      BY <1>6, BalancedTypes
    <2> HIDE DEF diff
    <2> QED BY <1>8, <1>9, <1>10, <1>11, <2>1 DEF Legs
  <1>13. wethHeld(b6, e) = wethHeld(b3, e)
    BY <1>12 DEF wethHeld, readBalance
  <1>14. hedgeDiff(b6, e, plan) = -target - b6.size
    BY <1>13 DEF hedgeDiff
  <1>15. b3.size \in Int /\ MIN_HEDGE_TRADE_QTY \in Nat \ {0}
    BY <1>6, BalancedTypes, BookAssumption
  <1> HIDE DEF target, diff
  <1>16. CASE b6.size = b3.size + diff
    <2>1. hedgeDiff(b6, e, plan) = 0
      BY <1>8, <1>14, <1>15, <1>16
    <2> QED BY <1>1, <1>15, <2>1 DEF abs
  <1>17. CASE b6.size = b3.size /\ abs(diff) < MIN_HEDGE_TRADE_QTY
    BY <1>1, <1>8, <1>14, <1>17
  <1> QED BY <1>12, <1>16, <1>17

(* A rebalance delivers the hedge the delta card asks for: when the call
   returns, what is missing of it is less than the smallest trade
   (StrategyManager.executeRebalance and _rehedge, PositionManager.deltaReport),
   whatever sale, deposit of margin, crystallisation or release came before or
   after the hedging trade and whichever venue answers. *)
THEOREM HedgedAfterRebalanceHolds == Spec => [][HedgedAfterRebalance]_vars
  <1>1. SignsInv => HedgedAfterRebalance
    <2> SUFFICES ASSUME SignsInv, NEW plan \in Plans, Rebalance, book' = executeRebalance(swept, env, plan)
                 PROVE  abs(deltaView(plan.hedgeRatioBps).requiredPerpSizeChange)' < MIN_HEDGE_TRADE_QTY
      BY DEF HedgedAfterRebalance
    <2>1. env' = env
      BY DEF Rebalance, Call
    <2>2. plan \in Plan /\ Env(env)
      BY StrategyAssumption, NaturalTypes DEF Plan
    <2>3. Balanced(swept)
      BY SweptBalanced DEF SignsInv
    <2>4. abs(hedgeDiff(book', env, plan)) < MIN_HEDGE_TRADE_QTY
      BY <2>2, <2>3, RebalanceHedges
    <2>5. deltaView(plan.hedgeRatioBps).requiredPerpSizeChange' = hedgeDiff(book', env', plan)
      BY DEF deltaView, hedgeDiff
    <2>6. (abs(deltaView(plan.hedgeRatioBps).requiredPerpSizeChange))' = abs(hedgeDiff(book', env', plan))
      BY <2>5 DEF abs
    <2> QED BY <2>1, <2>4, <2>6
  <1> QED BY SignsHold, <1>1, PTL
=============================================================================
