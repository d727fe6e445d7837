SPECIFICATION Spec
CONSTANTS
    MaxJob = 2
    MaxCalls = 2
    MaxFaults = 1
    MaxTries = 3
INVARIANT TypeOK
 
PROPERTY StartsWhenPassed
CHECK_DEADLOCK FALSE
