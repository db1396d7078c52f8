CONSTANTS
    NUM_SOCKETS = 2
    MAX_REC_COMSIZE = 3
    Radix = 5
    RECV_DATA = 4
    SetLimit = 2
    CloseLimit = 1
    Messages <- Commands
    Garbage <- Zeroed
    Clients <- OneAndTwo
    MaxCmds = 2
    MaxFail = 6
SPECIFICATION FairSpec
INVARIANTS DescriptorsAccounted SessionDescriptors TakenAreCommands CommandsTaken
PROPERTY ClientServed
CHECK_DEADLOCK FALSE
