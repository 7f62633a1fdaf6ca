\* The same cluster; what `decide` makes production.
CONSTANTS
    o1 = o1
    Operators = {o1}
    s1 = s1
    s2 = s2
    s3 = s3
    Slots = {s1, s2, s3}
    Replicas = 2
    Allocations <- OpenAllocations
    LocalPercents <- ConfiguredPercents
    MaxVersion = 3
    MaxGeneration = 2
    MaxCrashes = 0
SPECIFICATION Spec
PROPERTY CompletesRunningCanary
CHECK_DEADLOCK FALSE
