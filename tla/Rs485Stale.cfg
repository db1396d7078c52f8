\* Offsets shortened: the address, the two value bytes and one byte of CRC.
CONSTANTS
    Half = 2
    AnswerLen = 4
    HighByte = 1
    LowByte = 2
    DmaLen = 5
    AgeCap = 3
SPECIFICATION Spec
INVARIANT CompletePacket
CHECK_DEADLOCK FALSE
