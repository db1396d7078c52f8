CONSTANTS
    Live <- AllLines
    Confirm = 3
    Protect = 10
    Saturated = 20
SPECIFICATION FairSpec
INVARIANTS TypeOK DebounceExact CutIffReported NoEarlyCut
INVARIANTS ProtectionStaysArmed PowerLossCurrent
PROPERTIES SmokeCutsPower PowerComesBack
