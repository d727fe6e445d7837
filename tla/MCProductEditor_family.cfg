SPECIFICATION Spec
CONSTANTS
    Label = {g50, g100, g200}
    Spare = other
    Taken = {g50}
    MaxSaves = 2
    MaxUploads = 1
    MaxFaults = 1
    MaxEdits = 1
INVARIANT ToldFamily
INVARIANT NoOptionLost
INVARIANT OneFamily
CHECK_DEADLOCK FALSE
