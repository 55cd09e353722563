\* The instance of Rebalance.cfg with the highest leverage the bounds admit as
\* the target.
SPECIFICATION DashboardSpec
CONSTANTS
    WAD = 100
    BPS = 10000
    USD6_TO_USD18 = 100
    MIN_HEDGE_TRADE_QTY = 10
    FEE = 5
    IMR = 1000
    MMR = 500
    PENALTY = 100
    DEX_FEE = 5
    SPREAD = 2
    DEPTH = 4000000
    CAP = 200
    LeverageFloor = 10000
    UsdcRate = 4500
    WethRate = 2000
    Params <- MCParams
    Limits <- MCLimits
    Bounds <- MCBounds
    TargetSets <- MCHighTarget
    HistoryLimit = 2
    Capital = 10000
    Deposits = {2000}
    Prices = {800, 1000, 1070, 1600}
    Gaps = {0, 24}
    Fundings <- MCFundings
    Liquidity <- MCLiquidity
    MaxCalls = 3
    MaxMoves = 2
\* The bounds on calls and changes end every behaviour.
CHECK_DEADLOCK FALSE
INVARIANT TargetCanBeHeld
