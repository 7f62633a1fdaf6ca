\* One process, from startup through routing, stopping and restarting.
CONSTANTS
    w1 = w1
    Threads = {w1}
    Keys <- TwoKeys
    Allocations <- OffAndOn
    Versions <- TwoVersions
    Tagged <- FirstTagged
SPECIFICATION FairSpec
INVARIANT SInv
INVARIANT StopIsImmediate
INVARIANT CanaryNeverMasked
PROPERTY ReadinessFollowsTier
