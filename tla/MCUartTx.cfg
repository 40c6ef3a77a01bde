CONSTANTS
    UART_BUFFER_SIZE = 3
    MaxPuts = 8
    X = X
    NL = NL
    CR = CR
    Free = Free
    Char <- MCChar
    MemoryByte <- MCMemory
    AssertString <- MCText
SPECIFICATION FairSpec
INVARIANTS
    TypeOK
    IsrFindsByte
    TransmitterArmed
    NothingLost
    AssertTextWhole
PROPERTIES
    NoOverwrite
    OutputEnds
    StreamSpec
