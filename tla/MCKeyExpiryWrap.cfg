CONSTANTS
    Width = 7
    Nano = 4
    Default = 3
    MaxClock = 20
SPECIFICATION Spec
CHECK_DEADLOCK FALSE
INVARIANT
    NeverBornExpired
