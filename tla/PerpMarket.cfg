CONSTANTS
    WAD = 100
    USD6_TO_USD18 = 2
    BPS = 100
    FUNDING_PERIOD = 1
    MAX_FUNDING_RATE = 1
    ParamChoices <- MCParamChoices
    Prices = {0, 180, 260}
    Rates <- MCRates
    SizeDeltas <- MCSizeDeltas
    AcceptablePrices = {0, 200, 300}
    Amounts = {20}
    AdlBps = {50}
    InitialWallet = 40
    InitialPool = 40
    MaxBalance = 120
    MaxTime = 2
    MaxTxs = 5
    PositionDeltas <- MCPositionDeltas
    FillPrices = {163, 200, 251}
    MarkPrices <- MCMarkPrices
    Margins <- MCMargins
    MM_BPS = 5
    MaxSize = 200
    MaxFills = 4
SPECIFICATION EitherSpec
INVARIANTS
    Conservation
    MarginAttribution
    MarkEntryFromThisPosition
    PositionMathsHolds
PROPERTIES
    NoRetroactiveFunding
    NoSelfInflictedLiquidation
CHECK_DEADLOCK FALSE
