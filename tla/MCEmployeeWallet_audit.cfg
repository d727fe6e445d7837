SPECIFICATION Spec
CONSTANTS
    Payments = {p1, p2}
    Withdrawals = {w1, w2}
    Handlers = {h1, h2}
    Pay = 2
    Amounts = {2}
    Adjustments = {1}
    MaxAvailable = 2
    None = None
    p1 = p1
    p2 = p2
    w1 = w1
    w2 = w2
    h1 = h1
    h2 = h2
SYMMETRY MCSymmetry
INVARIANT TypeOK
INVARIANT OverIsReturned
INVARIANT PendingIsBacked
PROPERTY AvailableIsAudited
