\* The oracle alone: up to four rounds, outages and other changes of two feeds; a
\* rise from 1000 to 1450 is more than the deviation that is allowed, 10 is nobody's
\* price.  The risk manager: two transactions, one change outside, an hour, and two
\* rounds, outages or shutdowns; a rise from 1000 to 1450, after which the venue may
\* liquidate, and the fall back are rejected until the next round confirms them.
SPECIFICATION EitherSpec
CONSTANTS
    WAD = 100
    BPS = 10000
    USD6_TO_USD18 = 100
    MIN_HEDGE_TRADE_QTY = 10
    FEE = 5
    IMR = 1000
    MMR = 500
    PENALTY = 100
    DEX_FEE = 5
    SPREAD = 2
    DEPTH = 4000000
    CAP = 200
    LeverageFloor = 10000
    UsdcRate = 4500
    WethRate = 2000
    Params <- MCParams
    Limits <- MCLimits
    Config <- MCConfig
    Bounds <- MCBounds
    TargetSets <- MCTargetSets
    OpenPlan <- MCOpenPlan
    Capital = 10000
    Deposits = {2000}
    Prices = {1000, 1450}
    Gaps = {0}
    Fundings <- MCFundings
    Liquidity <- MCLiquidity
    Delev = 3000
    MaxCalls = 2
    MaxMoves = 1
    Hours = 4
    MarketPrices = {1000, 1450}
    BadPrices = {10}
    Heartbeat = 1
    MaxDeviation = 2000
    OracleMoves = 4
    RiskRounds = 2
INVARIANTS
    OracleServesTheMarket
    CheckpointsHold
    DangerIsAssessed
