SPECIFICATION Spec
CONSTANTS
    Jobs = {j1, j2}
    Emps = {e1}
    Workers = {w1}
    Handlers = {h1}
    WaveSize = 1
    ProgressStatuses = {"in_progress", "on_hold"}
    LogisticsJobs = {j1, j2}
    Requests = {"move", "sync", "presence", "admin"}
    MaxCrashes = 0
    None = None
    j1 = j1
    j2 = j2
    e1 = e1
    w1 = w1
    h1 = h1
SYMMETRY Symmetry
CONSTRAINT InHours
INVARIANT OneActiveJob
INVARIANT ActiveReadsBusy
