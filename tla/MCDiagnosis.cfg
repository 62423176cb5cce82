SPECIFICATION FairSpec
CONSTANTS
    Budget <- RegistryBudget
    Patience <- CliPatience
    Delays = {0, 3}
    Faulty = TRUE
INVARIANTS
    TypeOK
    OverallIsWorst
    HealthIsEarned
    BlameIsEarned
    ToldIsWhole
    NobodyIsStuck
PROPERTY DiagnosisEnds
