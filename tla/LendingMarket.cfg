CONSTANTS
    WAD = 100
    BPS = 10
    Suppliers = {adapter, other}
    Adapter = adapter
    YEAR = 1
    Models <- MCModels
    InitialModel <- MCInitialModel
    Utilizations = {50, 100}
    Amounts = {23, 70}
    MaxCash = 300
    MaxTime = 3
    MaxTxs = 5
    Accounts = {admin, guardian, riskManager}
    RiskManager = riskManager
    Deployer = admin
    VolInterval = 1
    FeeInterval = 1
    MaxSkew = 1
    MaxKeeperFaults = 1
    Refusable = {"observeVolatility", "performUpkeep", "accrueFees"}
    GasEstimate = 100
    GasNeeded = {100, 114}
SPECIFICATION EitherSpec
CHECK_DEADLOCK FALSE
INVARIANTS
    Solvency
    WithdrawableIsPayable
    InterestExplainsBalance
    KeeperTellsTheTruth
PROPERTIES
    OnlySafer
    WorkGetsDone
