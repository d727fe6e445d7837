SPECIFICATION Spec
CONSTANTS
    MaxEvents = 2
    Sweepers = {s1}
    MaxTries = 2
    MaxCrashes = 1
INVARIANT TypeOK
INVARIANT GivenUpLate
PROPERTY DeliversAtLeastOnce
CHECK_DEADLOCK FALSE
