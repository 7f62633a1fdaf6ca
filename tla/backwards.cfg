\* The same host beside a direct promotion.
CONSTANTS
    h1 = h1
    p1 = p1
    Hosts = {h1}
    Promoters = {p1}
    MaxVersion = 2
    MaxDecisions = 1
    Allocations = {10}
SPECIFICATION Spec
PROPERTY ProductionMovesForward
CHECK_DEADLOCK FALSE
