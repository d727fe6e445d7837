SPECIFICATION Spec
CONSTANTS
    Jobs = {j1}
    Emps = {e1, e2}
    Workers = {w1, w2}
    Handlers = {h1}
    WaveSize = 1
    ProgressStatuses = {"confirmed"}
    LogisticsJobs = {}
    Requests = {"customer", "sync", "superuser"}
    MaxCrashes = 0
    None = None
    j1 = j1
    e1 = e1
    e2 = e2
    w1 = w1
    w2 = w2
    h1 = h1
SYMMETRY Symmetry
CONSTRAINT SameDay
INVARIANT TakenJobHasNoOffer
INVARIANT OneWave
PROPERTY CancelledGetsNoOffer
PROPERTY StatusByTable
