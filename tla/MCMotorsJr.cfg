CONSTANTS
    Boards = {"JR"}
    Commands <- AllCommands
    Duties <- TestDuties
SPECIFICATION Spec
INVARIANT
    WheelsTurn
