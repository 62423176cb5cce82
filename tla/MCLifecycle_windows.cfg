SPECIFICATION Spec
CONSTANTS
    Daemons = {d1, d2}
    Commands = {c1, c2}
    Unary = {u1}
    Streams = {e1}
    Unix = FALSE
    SlowBoot = TRUE
    None = None
SYMMETRY ProcessSymmetry
INVARIANT TypeOK
INVARIANT NoCallOnClosedState
PROPERTY ImplementsAuthority
