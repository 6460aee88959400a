\* Two solvers, two tasks (one limited, one satisfiable), two calls of interrupt().
SPECIFICATION TerminatingSpec
CONSTANTS
    t1 = t1
    t2 = t2
    t3 = t3
    None = None
    Workers = {w1, w2}
    Tasks = {t1, t2}
    Limited = {t2}
    Verdict <- OneSat
    MaxInterrupts = 2
INVARIANTS OneOwner UnknownExplained WorkConserving
PROPERTIES ImplementsContract FuturesSettle DestructorReturns
