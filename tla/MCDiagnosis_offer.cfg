SPECIFICATION Spec
CONSTANTS
    Budget <- RegistryBudget
    Patience <- CliPatience
    Delays = {0}
    Faulty = FALSE
INVARIANT OfferIsReachable
