\* Two threads of each role, three clauses, and an address to spare.
SPECIFICATION Spec
CONSTANTS
    Adders = {a1, a2}
    Poppers = {p1, p2}
    Nodes = {n0, n1, n2, n3}
    Dummy = n0
    Clauses = {c1, c2, c3}
    Null = Null
SYMMETRY Symmetry
INVARIANT SafeForOneOfEach
PROPERTY LinearizesToFifo
CHECK_DEADLOCK FALSE
