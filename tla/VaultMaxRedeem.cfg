CONSTANTS
    Holders = {alice, bob}
    Recipients = {alice, bob}
    WAD = 100
    BPS = 10
    YEAR = 1
    MAX_MANAGEMENT_FEE_BPS = 1
    MAX_PERFORMANCE_FEE_BPS = 2
    MAX_WITHDRAWAL_FEE_BPS = 1
    VIRTUAL_SHARES = 2
    InitialFees <- MCInitialFees
    FeeChoices <- MCFeeChoices
    Caps = {1000}
    InitialCap = 1000
    Amounts = {120, 300}
    NavMoves <- MCNavMoves
    Ticks = {1}
    MaxTxs = 4
SPECIFICATION Spec
SYMMETRY MCSymmetry
CHECK_DEADLOCK FALSE
INVARIANT MaxRedeemIsPayable
