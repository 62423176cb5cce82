SPECIFICATION EndingSpec
CONSTANTS
    Daemons = {d1, d2}
    Commands = {c1}
    Unary = {u1}
    Streams = {e1}
    Unix = TRUE
    SlowBoot = TRUE
    None = None
INVARIANTS
    LeavesNoTrace
PROPERTIES
    ReachableWhenApart
    RefusedOnlyByTheLiving
    StopCompletes
