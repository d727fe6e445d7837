SPECIFICATION FairSpec
CONSTANTS
    Jobs = {j1}
    Withdrawals = {w1}
    Callers = {c1, c2}
    Executors = {x1, x2}
    Net <- MCNet
    Commission <- MCCommission
    CashJobs = {j1}
    Amounts = {3}
    DailyCap = 3
    MaxClawbacks = 1
    MaxRefunds = 2
    MaxPayouts = 1
    None = None
    j1 = j1
    w1 = w1
    c1 = c1
    c2 = c2
    x1 = x1
    x2 = x2
CHECK_DEADLOCK FALSE
INVARIANT RefundsCovered
INVARIANT InFlightIsDebited
INVARIANT MoneyFollowsPayouts
INVARIANT CreditedOncePerReader
PROPERTY CreditLifecycle
PROPERTY HoldsEnd
