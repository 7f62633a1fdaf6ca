\* The same process; whose threshold an answer was flagged by.
CONSTANTS
    w1 = w1
    Threads = {w1}
    Keys <- TwoKeys
    Allocations <- OffAndOn
    Versions <- TwoVersions
    Tagged <- FirstTagged
SPECIFICATION Spec
INVARIANT AnswerOwnThreshold
