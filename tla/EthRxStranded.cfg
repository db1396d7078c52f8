CONSTANTS
    ENET_RXBUF_NUM = 3
    PoolSize = 1
    MboxSize = 1
    MaxFrames = 3
    Policies <- AsBuilt
SPECIFICATION FairSpec
PROPERTY ReadyPacketProcessed
CHECK_DEADLOCK FALSE
