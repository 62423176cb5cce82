SPECIFICATION Spec
CONSTANTS
    Daemons = {d1, d2}
    Handlers = {k1, k2}
    MaxVersion = 2
    Keep = 2
    DefaultLimit = 2
    MaxLimit = 3
    Limits = {0, 1, 4}
    MaxRows = 5
SYMMETRY ProcessSymmetry
INVARIANTS
    TypeOK
    MigratedInOrder
    SomeoneMigrates
    NewestKept
    OverflowIsOwed
PROPERTIES
    ReadsAreNewest
    ImplementsDatabase
