CONSTANTS
    mid_sensor = mid_sensor
    left_sensor = left_sensor
    right_sensor = right_sensor
    Left = left_sensor
    Right = right_sensor
    Distance <- MCDistance
    Order <- LaunchpadOrder
    Range <- MCRange
    Programs <- MultipleOnly
    Singly <- MCSingly
    PinHasVector = TRUE
    MaxFaults = 1
    Rounds = 3
SPECIFICATION Spec
INVARIANT MeasurementOngoing
