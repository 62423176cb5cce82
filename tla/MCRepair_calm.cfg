SPECIFICATION Spec
CONSTANTS
    Clients = {c1}
    Slow = FALSE
    Drifts = "between calls"
PROPERTY HealthyIsNotRestarted
