SPECIFICATION Spec
CONSTANTS
    MaxChannels = 3
    MaxMsat = 5
INVARIANTS AllocationIsExact
CHECK_DEADLOCK FALSE
