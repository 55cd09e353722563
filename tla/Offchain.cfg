SPECIFICATION EitherSpec
CONSTANTS
    alice = alice
    bob = bob
    reader = a
    Reqs = {a, b}
    Kinds = {"scenarios", "history"}
    Ttl = 1
    Configs = {1, 2, 3}
    Rounded <- MCRounded
    MaxTime = 2
    MaxApiBlock = 2
    Demo = {alice, bob}
    Browser = browser
    Gone = {carol}
    None = none
    MaxTries = 2
    MaxReloads = 2
    Users = {alice, bob}
    Nobody = nobody
    Buttons = {"deposit", "withdraw", "redeem", "unwind"}
    Amounts = {2}
    Prices = {1, 2}
    Caps = {4}
    FaucetLimit = 2
    Holdings = 3
    Kept = 50
    MaxClicks = 2
    MaxTxs = 3
    MaxMoves = 1
    MaxSwitches = 1
    Blank = blank
    Junk = junk
    Fraction = fraction
    Undefined = undefined
    Typed <- MCTyped
    Defaults <- MCDefaults
    LookedUp = {1}
    ChainTargets = {2, 3}
    MaxRuns = 2
    MaxFormsFaults = 1
    Live = {"health", "vault"}
    Ranges = {"7d", "30d"}
    Missing = missing
    StateTtl = 1
    Late = 2
    MaxPanelsTime = 2
    MaxBlock = 2
    MaxPanelsFaults = 1
    tvl = 50000
    keeperEvery = 2
    feeEvery = 24
    cfg <- MCcfg
    Starts <- MCStarts
    Markets <- MCMarkets
    Gaps = {1, 720}
    MaxSteps = 3
    Base <- MCBase
    StepHours = 4
    Days = 30
    CustomInputs <- MCCustom
    Shallow <- MCShallow
    Inputs <- MCInputs
    deposits = 100000
    strategyCfg <- MCcfg
    venues <- MCVenues
    Leverages <- MCLeverages
    Reserves <- MCReserves
    minMove = 3000
    maxRebalances = 150
    minScore = 389
INVARIANTS PagesHold SimulationHolds
PROPERTIES PagesRemember PagesSettle KeeperActsRightly
\* The user may leave it at that; clocks and chains end at their bounds.
CHECK_DEADLOCK FALSE
