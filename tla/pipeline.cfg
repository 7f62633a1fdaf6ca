\* Two hosts and a direct promoter on one registry.
CONSTANTS
    h1 = h1
    h2 = h2
    p1 = p1
    Hosts = {h1, h2}
    Promoters = {p1}
    MaxVersion = 3
    MaxDecisions = 1
    Allocations = {0, 10, 100}
SPECIFICATION Spec
SYMMETRY HostSymmetry
VIEW WhatMatters
INVARIANT IInv
INVARIANT RollbackReportIsTrue
PROPERTY RolledBackNeverInstalled
PROPERTY ImplementsGatedRelease
CHECK_DEADLOCK FALSE
