SPECIFICATION QuickSpec
CONSTANTS
    Jobs = {j1, j2}
    MaxInFlight = 2
    MaxMoves = 1
    MaxActs = 2
    MaxFaults = 1
PROPERTY ToldStands
PROPERTY EventuallyCurrent
CHECK_DEADLOCK FALSE
