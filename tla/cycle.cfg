SPECIFICATION Spec
CONSTANTS
    Register <- MCRegister
    Year = 4
    Configs <- MCConfigs
    Setting <- MCSetting
    Lines = {9}
    Jobs = {j1}
    LogCalls = 2
    MaxRuns = 2
    Features = {f1}
    Readings <- MCReadings
    MaxEvents = 1
    MaxVersion = 2
    Budget = 2
INVARIANTS
    CInv
    TrainedOnMatureUnseenRows
    RegisteredIsComplete
    LineageIsTrue
    TrialsShownTruthfully
    JudgedOnSameRows
PROPERTIES
    ImplementsStore
CHECK_DEADLOCK FALSE
