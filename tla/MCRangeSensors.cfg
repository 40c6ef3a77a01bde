CONSTANTS
    mid_sensor = mid_sensor
    left_sensor = left_sensor
    right_sensor = right_sensor
    Left = left_sensor
    Right = right_sensor
    Distance <- MCDistance
    Order <- JrOrder
    Range <- MCRange
    Programs <- OneOfEach
    Singly <- MCSingly
    PinHasVector = TRUE
    MaxFaults = 2
    Rounds = 4
SPECIFICATION FairSpec
INVARIANTS
    TypeOK
    PromisesUntilFault
    FreshIsOneRound
    DecisionSound
    EnemyFromOneRound
PROPERTIES
    EachResultOnce
    KeepsMeasuring
    CallsReturn
