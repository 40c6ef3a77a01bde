CONSTANTS
    mid_sensor = mid_sensor
    left_sensor = left_sensor
    right_sensor = right_sensor
    Left = left_sensor
    Right = right_sensor
    Distance <- MCDistance
    Order <- JrOrder
    Range <- MCRange
    Programs <- MultipleOnly
    Singly <- MCSingly
    PinHasVector = FALSE
    MaxFaults = 0
    Rounds = 3
SPECIFICATION FairSpec
PROPERTY CallsReturn
CHECK_DEADLOCK FALSE
