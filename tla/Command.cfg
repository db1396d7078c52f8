CONSTANTS
    NumFields = 2
    MaxPacks = 3
    AMC_DAC_NUM = 2
    Volts = {1}
    KbWords = 2
    MaxCmds = 2
    Commands <- SomeCommands
SPECIFICATION FairSpec
INVARIANTS ValvesAsCommanded LampsAsCommanded CalibrationKept AnsweredOnce
PROPERTY ImplementsPacketStore
CHECK_DEADLOCK FALSE
