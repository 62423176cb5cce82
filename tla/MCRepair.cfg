SPECIFICATION FairSpec
CONSTANTS
    Clients = {c1}
    Slow = TRUE
    Drifts = "always"
INVARIANTS
    TypeOK
    SafeToFixIsFixable
    NobodyIsStuck
    PrintedIsRecorded
PROPERTIES
    ShutdownIsConfirmed
    SuccessIsVerified
    RepairEnds
