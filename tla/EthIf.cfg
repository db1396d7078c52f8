CONSTANTS
    ENET_RXBUF_NUM = 2
    PoolSize = 3
    MboxSize = 2
    MaxFrames = 4
    ENET_TXBUF_NUM = 2
    MaxOut = 3
    Policies <- AnyPolicy
SPECIFICATION IfFairSpec
INVARIANTS RingWindow FramesAccounted ReceptionNeverStalls
INVARIANTS OutputNeverHangs TxWindow
PROPERTIES DeliveredInOrder FramesLeaveRing OutputsSent
CHECK_DEADLOCK FALSE
