\* Three points, one recursion.
SPECIFICATION RecurringFairSpec
CONSTANTS
    p1 = p1
    p2 = p2
    p3 = p3
    None = None
    Points = {p1, p2, p3}
    Inputs <- Checked
    MaxDepth = 1
    MaxEvents = 1
INVARIANTS RecurringAnswerExplained NothingForgotten
PROPERTIES RecurringReturns
