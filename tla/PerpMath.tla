------------------------------ MODULE PerpMath ------------------------------
(***************************************************************************)
(* The fixed-point arithmetic of contracts/libraries/PerpMath.sol.  The    *)
(* source works in three units: quantities in 1e-18 ETH, prices in 1e-18   *)
(* USD per ETH and money in 1e-6 USD ("usd6").  Here WAD is the number of  *)
(* quantity units in one ETH (also the unit of rates), USD6_TO_USD18 the   *)
(* number of price units in one money unit, and BPS the unit of ratios.    *)
(* All roundings are those of the source.                                  *)
(***************************************************************************)
EXTENDS FixedPoint

CONSTANT USD6_TO_USD18  \* 1e12 in the source

ASSUME ScaleAssumption == USD6_TO_USD18 \in Nat \ {0}

QTY_PRICE_TO_USD6 == WAD * USD6_TO_USD18

\* sign(a) * floor(|a| * b / d)
mulDivSigned(a, b, d) ==
    IF a >= 0 THEN (a * b) \div d ELSE -((abs(a) * b) \div d)

\* Money value of a position of this size at this price.
notional(size, price) == (abs(size) * price) \div QTY_PRICE_TO_USD6

\* Profit of a signed position opened at entry and marked at price.
pnl(size, entry, price) ==
    LET mag == (abs(size) * abs(price - entry)) \div QTY_PRICE_TO_USD6
    IN  IF size = 0 \/ price = entry THEN 0
        ELSE IF (size > 0) = (price > entry) THEN mag ELSE -mag

-----------------------------------------------------------------------------
(***************************************************************************)
(* Applying a trade with average-entry accounting.                         *)
(***************************************************************************)

Increases(size, delta) == size = 0 \/ (size > 0) = (delta > 0)

\* Entry price after a trade: volume-weighted when the position grows, kept
\* when it shrinks, the trade price for the part that was flipped.
tradeEntry(size, entry, delta, price) ==
    LET newSize == size + delta
    IN  IF newSize = 0 THEN 0
        ELSE IF Increases(size, delta)
        THEN (abs(size) * entry + abs(delta) * price) \div (abs(size) + abs(delta))
        ELSE IF (newSize > 0) = (size > 0) THEN entry ELSE price

\* Profit realised by the reducing part of a trade.
tradeRealized(size, entry, delta, price) ==
    LET closeQty == Min2(abs(delta), abs(size))
    IN  IF Increases(size, delta) THEN 0
        ELSE pnl(IF size > 0 THEN closeQty ELSE -closeQty, entry, price)

-----------------------------------------------------------------------------
(***************************************************************************)
(* Liquidation price and the distance to it.  NoDistance stands for the    *)
(* source's type(uint256).max.                                             *)
(***************************************************************************)

NoDistance == 1000 * BPS

\* Mutant: the short's threshold uses the long's (1 - mm) factor.
liquidationPriceLongFactor(size, entry, effectiveMargin, mmBps) ==
    LET s == abs(size)
        entryNotional18 == (s * entry) \div WAD
        margin18 == effectiveMargin * USD6_TO_USD18
        num == IF size > 0 THEN entryNotional18 - margin18 ELSE entryNotional18 + margin18
        den == (s * (BPS - mmBps)) \div BPS
    IN  IF size = 0 \/ num <= 0 THEN 0 ELSE (num * WAD) \div den

liquidationPrice(size, entry, effectiveMargin, mmBps) ==
    LET s == abs(size)
        entryNotional18 == (s * entry) \div WAD
        margin18 == effectiveMargin * USD6_TO_USD18
        num == IF size > 0 THEN entryNotional18 - margin18 ELSE entryNotional18 + margin18
        den == (s * (IF size > 0 THEN BPS - mmBps ELSE BPS + mmBps)) \div BPS
    IN  IF size = 0 \/ num <= 0 THEN 0 ELSE (num * WAD) \div den

distanceBps(mark, liq, size) ==
    IF size = 0 \/ mark = 0 THEN NoDistance
    ELSE IF liq = 0 THEN (IF size > 0 THEN NoDistance ELSE 0)
    ELSE IF size > 0 THEN (Pos(mark - liq) * BPS) \div mark
    ELSE (Pos(liq - mark) * BPS) \div mark
=============================================================================
