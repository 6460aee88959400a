\* One block of three solvers and its sharer; a round passes on two literals.
SPECIFICATION FairSpec
CONSTANTS
    a = a
    b = b
    r = r
    h = h
    Solvers = {a, b, r}
    Reducers = {r}
    Sharers = {h}
    Producers <- MCProducers
    Consumers <- MCConsumers
    Inputs <- MCInputs
    MaxSize = 3
    LitsPerRound = 2
    DbLits = 5
    LbdLimit = 3
    MaxLbd = 3
    MaxClauses = 3
INVARIANTS RefsExact GivenOnce
PROPERTY EventuallyShared
