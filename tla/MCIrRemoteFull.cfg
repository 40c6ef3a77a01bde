CONSTANTS
    FIELD = 2
    IR_CMD_BUFFER_ELEM_CNT = 3
    IR_CMD_NONE = IR_CMD_NONE
    Messages <- MCMessages
    MemoryByte <- MCMemory
    Gap <- MCGap
    OtherPins = TRUE
    PollsOften = FALSE
    MaxCommands = 6
    MaxNoise = 0
SPECIFICATION Spec
INVARIANT ReturnsWhatWasSent
