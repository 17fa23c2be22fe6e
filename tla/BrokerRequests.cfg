CONSTANTS
    None = None
    Batch = 1
    QueueMax = 2
    MaxLeases = 1
    MaxEvents = 2
    MaxRecipes = 2
    Scenarios <- MCScenarios
SPECIFICATION FairSpec
INVARIANT RequestsStand
PROPERTY CancellationDelivered
CHECK_DEADLOCK FALSE
