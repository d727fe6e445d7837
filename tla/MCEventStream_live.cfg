SPECIFICATION Spec
CONSTANTS
    MaxEvents = 3
    MaxFaults = 2
    MaxExpiries = 1
    MaxToggles = 3
INVARIANT OneSource
INVARIANT Hushed
PROPERTY Reconnects
PROPERTY NothingMissed
CHECK_DEADLOCK FALSE
