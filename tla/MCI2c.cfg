CONSTANTS
    a = a
    b = b
    x = x
    y = y
    Nothing = Nothing
    Byte <- MCByte
    Calls <- MCCalls
    RETRY_COUNT = 2
    MaxHolds = 1
SPECIFICATION FairSpec
INVARIANTS
    TypeOK
    OkIsTrue
    ErrorHasCause
PROPERTY
    CallsReturn
