---------------------------- MODULE PerpPosition ----------------------------
(***************************************************************************)
(* A position filled through PerpMath.applyTrade, beside the reference it  *)
(* is checked against: the cash every fill really moves.  Any order of     *)
(* opening, increasing, reducing, closing and flipping is a behaviour.     *)
(***************************************************************************)
EXTENDS PerpMath

CONSTANTS
    PositionDeltas,     \* sizes of the fills
    FillPrices,     \* prices of the fills
    MarkPrices,     \* prices at which the position is valued
    Margins,        \* effective margins for the liquidation price
    MM_BPS,         \* maintenance margin ratio
    MaxSize,        \* bound on |size|
    MaxFills        \* bound on the number of fills

\* A fill and a mark have a price (ZeroPrice reverts), a size is within its bound,
\* and the requirement is not more than the notional (InvalidParams).
ASSUME PositionAssumption ==
    /\ PositionDeltas \subseteq Int /\ FillPrices \subseteq Nat \ {0} /\ MarkPrices \subseteq Nat \ {0}
    /\ Margins \subseteq Int /\ MM_BPS \in 0..BPS /\ MaxSize \in Nat /\ MaxFills \in Nat

VARIABLES
    size, entry, realized,  \* what the source stores
    cash,                   \* reference: -(sum of delta * price), in quantity * price units
    fills                   \* number of fills so far

positionVars == <<size, entry, realized, cash, fills>>

PositionInit == size = 0 /\ entry = 0 /\ realized = 0 /\ cash = 0 /\ fills = 0

\* Mutant: a flip keeps the entry of the side it closed.
FillKeepsEntryOnFlip(delta, p) ==
    /\ fills < MaxFills
    /\ abs(size + delta) <= MaxSize
    /\ size' = size + delta
    /\ entry' = IF Increases(size, delta) \/ size + delta = 0
                THEN tradeEntry(size, entry, delta, p) ELSE entry
    /\ realized' = realized + tradeRealized(size, entry, delta, p)
    /\ cash' = cash - delta * p
    /\ fills' = fills + 1

\* MockPerpetualMarket._applyFill on the position's own fields.
Fill(delta, p) ==
    /\ fills < MaxFills
    /\ abs(size + delta) <= MaxSize
    /\ size' = size + delta
    /\ entry' = tradeEntry(size, entry, delta, p)
    /\ realized' = realized + tradeRealized(size, entry, delta, p)
    /\ cash' = cash - delta * p
    /\ fills' = fills + 1

PositionNext == \E d \in PositionDeltas, p \in FillPrices : Fill(d, p)

PositionSpec == PositionInit /\ [][PositionNext]_positionVars

-----------------------------------------------------------------------------
\* Average-entry accounting neither creates nor destroys money: at every mark
\* the realised plus the unrealised PnL of PerpMath is the cash flow of the
\* fills plus the value of what is held, up to the source's roundings (one
\* price unit per quantity unit for each averaging, one money unit for each
\* PnL division).
AccountingMatchesCashFlow ==
    \A mark \in MarkPrices :
        LET booked == (realized + pnl(size, entry, mark)) * QTY_PRICE_TO_USD6
            moved == cash + size * mark
        IN  abs(booked - moved) <= fills * MaxSize + (fills + 1) * QTY_PRICE_TO_USD6

\* Reference for the liquidation price: the account is below maintenance.
BelowMaintenance(margin, p) ==
    margin + pnl(size, entry, p) < CeilDiv(notional(size, p) * MM_BPS, BPS)

\* What a price unit moves the distance to maintenance by: the source's divisor,
\* whose division reverts for dust of which nothing is left.
Slope == (abs(size) * (IF size > 0 THEN BPS - MM_BPS ELSE BPS + MM_BPS)) \div BPS

\* The price band within which roundings can move the threshold: those of PnL and
\* requirement (a money unit each), of the entry notional, and of the divisor.
Band(liq) == CeilDiv(2 * QTY_PRICE_TO_USD6 + (IF liq > WAD THEN liq ELSE WAD), Slope)

\* liquidationPrice, which the risk limits and the planner rely on, is the price
\* where isLiquidatable changes its answer, and distanceBps is zero only on the
\* liquidatable side, or within a basis point of the price.
LiquidationPriceIsThreshold ==
    Slope > 0 =>
        \A margin \in Margins, p \in MarkPrices :
            LET liq == liquidationPrice(size, entry, margin, MM_BPS)
                beyond == IF size > 0 THEN p < liq - Band(liq) ELSE p > liq + Band(liq)
                short == IF size > 0 THEN p > liq + Band(liq) ELSE p < liq - Band(liq)
            IN  /\ beyond => BelowMaintenance(margin, p) /\ distanceBps(p, liq, size) = 0
                /\ short => /\ ~BelowMaintenance(margin, p)
                            /\ distanceBps(p, liq, size) > 0 \/ BPS * abs(p - liq) < p

=============================================================================
