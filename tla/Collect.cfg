CONSTANTS
    Live <- TwoLines
    Confirm = 3
    Protect = 8
    Saturated = 20
    Half = 1
    FreezeLimit = 8
    Temps = {0, 512}
    Faulty = 512
SPECIFICATION LoopSpec
INVARIANTS FreshHalves CutNeedsMovingSensor
PROPERTIES ImplementsAlarm RestartOnlyWhenFrozen FrozenRestarts SmokeCutsOrRestarts
