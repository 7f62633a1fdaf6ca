\* One shell, the two replicas and their surge pod, a rollout besides its own.
CONSTANTS
    o1 = o1
    Operators = {o1}
    s1 = s1
    s2 = s2
    s3 = s3
    Slots = {s1, s2, s3}
    Replicas = 2
    Allocations <- OpenAllocations
    LocalPercents <- ConfiguredPercents
    MaxVersion = 2
    MaxGeneration = 2
    MaxCrashes = 1
SPECIFICATION FairSpec
INVARIANT RInv
PROPERTY RollbackTakesEffect
CHECK_DEADLOCK FALSE
