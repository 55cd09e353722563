\* The instance of Strategy.cfg, asked what the profit page says of its bars.
SPECIFICATION Spec
CONSTANTS
    WAD = 100
    BPS = 100
    USD6_TO_USD18 = 1
    MIN_HEDGE_TRADE_QTY = 2
    FEE = 1
    IMR = 10
    MMR = 5
    PENALTY = 2
    DEX_FEE = 1
    SPREAD = 1
    DEPTH = 100000
    CAP = 5
    Capital = 4000
    Prices = {60, 160}
    Exits = {500, 1700}
    Plans <- MCPlans
    Interests = {30}
    Fundings <- MCFundings
    Liquidity <- MCLiquidity
    Tolerance = 20
    MaxSlippage = 10
    AdlShare = 40
    MaxCalls = 4
    MaxMoves = 2
    FeesTaken <- MCFeesTaken
\* The bounds on calls and changes end every behaviour.
CHECK_DEADLOCK FALSE
INVARIANT SignedAsTheyHitNav
