CONSTANTS
    Boards = {"LAUNCHPAD", "JR"}
    Commands <- AllCommands
    Duties <- TestDuties
SPECIFICATION Spec
INVARIANTS
    TypeOK
    CommandObeyed
    DutyScaled
    AssertStopsMotors
