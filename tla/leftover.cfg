\* The same run; what it leaves behind.
CONSTANTS
    InitialScales <- Scales
    Allocations = {0, 10}
    DrillPercent = 40
    Versions = {1, 2}
    MaxScenarios = 2
SPECIFICATION Spec
INVARIANT InjectedIsRestored
CHECK_DEADLOCK FALSE
