\* Three points; every formula up to the names of the points.
SPECIFICATION SingleFairSpec
CONSTANTS
    p1 = p1
    p2 = p2
    p3 = p3
    None = None
    Points = {p1, p2, p3}
    Inputs <- Checked
INVARIANT SingleAnswerExplained
PROPERTY SingleReturns
