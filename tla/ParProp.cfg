\* Two threads, two callers.
SPECIFICATION FairSpec
CONSTANTS
    None = None
    c1 = c1
    c2 = c2
    Workers = {w1, w2}
    Callers = {c1, c2}
    Requests <- Small
    SeqSplit = 1
    TreeSplit = 1
    MaxUnpropagated = 3
    MaxCartesianSize = 7
    WordBits = 3
INVARIANTS CountedOnce
PROPERTIES NobodyWaitsForever
