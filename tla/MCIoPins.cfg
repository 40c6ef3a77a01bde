CONSTANTS
    Boards = {"LAUNCHPAD", "JR"}
    PowerUpOuts <- Outs
    MaxResets = 2
SPECIFICATION Spec
INVARIANTS
    TypeOK
    DriversAccept
    OneDriver
