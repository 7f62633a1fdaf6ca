\* Two promotions side by side, direct or by way of a canary.
CONSTANTS
    p1 = p1
    p2 = p2
    Promoters = {p1, p2}
    Candidates <- Pool
    Bootstrap <- BaselineModel
    MaxVersion = 3
    MinDelta = 1
    Floor = 25
    MaxRocDecline = 0
    MaxBrierRise = 0
    MinSkill = 0
    MaxRecallDecline = 0
    MaxPredictionTime = 1
SPECIFICATION Spec
SYMMETRY PromoterSymmetry
INVARIANT PInv
PROPERTY ReplacementImproves
PROPERTY ImplementsGatedRelease
CHECK_DEADLOCK FALSE
