SPECIFICATION Spec
CONSTANTS
    Events = {e1, e2}
    Handlers = {t1}
    TrainedLimit = 2
    CandidateLimit = 1
    EventLimit = 2
    MaxRuns = 3
    MaxVersion = 2
SYMMETRY EventSymmetry
INVARIANTS
    ViewInv
    ProductionShownWasNamed
    RegistrationShownTruthfully
    DenominatorIsHonest
    RetrainingJoinsItsCheck
CHECK_DEADLOCK FALSE
