SPECIFICATION Spec
CONSTANTS
    MaxChannels = 4
    MaxMsat = 5
INVARIANTS TypeOK AscendingIsExact PartsFitChannels EasyAmountsAreFound
CHECK_DEADLOCK FALSE
