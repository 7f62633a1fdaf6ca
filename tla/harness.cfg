\* Two scenarios of any kind, in any order, with every call that can fail failing.
CONSTANTS
    InitialScales <- Scales
    Allocations = {0, 10}
    DrillPercent = 40
    Versions = {1, 2}
    MaxScenarios = 2
SPECIFICATION FairSpec
INVARIANT HInv
INVARIANT LeftDownIsRefused
INVARIANT PassEarned
PROPERTY PassIsSound
PROPERTY RunRecovers
CHECK_DEADLOCK FALSE
