SPECIFICATION EitherSpec
CONSTANTS
    a = a
    b = b
    builder = builder
    k1 = k1
    k2 = k2
    Syncers = {a, b}
    Keys = {k1, k2}
    MaxChanges = 2
    MaxAlertFaults = 1
    Indexers = {a, b, builder}
    Builders = {builder}
    Chunk = 2
    Batches <- MCBatches
    MaxChain = 3
    MaxIndexerFaults = 1
    Snapshotters = {a, b}
    MaxHeight = 3
    MaxSnapshotFaults = 1
    SharePrices = {8, 10, 11}
    Gaps = {1, 3}
    MaxRows = 5
    Window = 4
    MaxPoints = {2, 3}
    DaysAsked = {0, 2, 5}
    Thresholds <- MCThresholds
    Params <- MCParams
    Calm <- MCCalm
    Values <- MCValues
    MaxMoved = 2
INVARIANTS AlertsAreFounded IndexerIsSound SnapshotsAreSound ReportsHold
PROPERTIES StoreSpec LoopsKeepUp
\* Chains, changes, histories and clocks end at their bounds.
CHECK_DEADLOCK FALSE
