SPECIFICATION Spec
CONSTANTS
    Order = {o1, o2}
    OnHand = 3
    Others = 1
    MaxJobs = 2
INVARIANTS
    TypeOK
    StockMatches
    RiderFindsAll
    GroupGoesOut
CHECK_DEADLOCK FALSE
