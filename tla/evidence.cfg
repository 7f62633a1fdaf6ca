\* Two handler threads counting while the evaluator reads.
CONSTANTS
    w1 = w1
    w2 = w2
    Threads = {w1, w2}
    Traffic <- MixedTraffic
    MaxServed <- Served
    MinRequests = 2
    MaxErrorPercent = 25
    MaxFailurePercent = 25
    MaxLatency = 1
    MaxErrorRatio = 200
    MaxLatencyRatio = 150
SPECIFICATION Spec
SYMMETRY ThreadSymmetry
INVARIANT EInv
INVARIANT CountersCoherent
INVARIANT FailuresNotMissed
INVARIANT SlowTailNotMissed
INVARIANT PromoteIsMeasured
CHECK_DEADLOCK FALSE
