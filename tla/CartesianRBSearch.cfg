\* Two algorithms, two calls, an interrupt.
SPECIFICATION FairSpec
CONSTANTS
    Algs = {a1, a2}
    Values = {v1, v2}
    MaxCalls = 2
    MaxInterrupts = 1
INVARIANTS ResultExplained
PROPERTIES FindRbReturns
