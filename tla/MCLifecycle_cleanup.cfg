SPECIFICATION Spec
CONSTANTS
    Daemons = {d1, d2}
    Commands = {c1}
    Unary = {u1}
    Streams = {e1}
    Unix = TRUE
    SlowBoot = FALSE
    None = None
INVARIANT ServingIsReachable
