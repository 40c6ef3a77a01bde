CONSTANTS
    FIELD = 2
    IR_CMD_BUFFER_ELEM_CNT = 3
    IR_CMD_NONE = IR_CMD_NONE
    Messages <- MCMessages
    MemoryByte <- MCMemory
    Gap <- MCGap
    OtherPins = TRUE
    PollsOften = TRUE
    MaxCommands = 5
    MaxNoise = 2
SPECIFICATION FairSpec
INVARIANTS
    TypeOK
    CommandsKept
PROPERTY CommandsArrive
