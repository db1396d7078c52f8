CONSTANTS
    ENET_RXBUF_NUM = 2
    PoolSize = 3
    MboxSize = 3
    MaxFrames = 2
    Policies <- AsBuilt
SPECIFICATION Spec
INVARIANT NullOnlyOnMemoryError
CHECK_DEADLOCK FALSE
