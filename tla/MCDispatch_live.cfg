SPECIFICATION FairSpec
CONSTANTS
    Jobs = {j1}
    Emps = {e1, e2}
    Workers = {w1}
    Handlers = {h1}
    WaveSize = 2
    ProgressStatuses = {}
    LogisticsJobs = {}
    Requests = {"admin", "noshow"}
    MaxCrashes = 1
    None = None
    j1 = j1
    e1 = e1
    e2 = e2
    w1 = w1
    h1 = h1
PROPERTY OffersEnd
PROPERTY ClaimsEnd
PROPERTY RetriesHappen
