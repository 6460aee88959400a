\* A MapleCOMSPS worker and a Reducer, two calls of solve(), one interrupt.
SPECIFICATION FairSpec
CONSTANTS
    Nobody = Nobody
    Workers = {a, b}
    Reducers = {b}
    Truth <- UnsatThenSat
    MaxInterrupts = 1
INVARIANTS AnswersExplained
PROPERTIES FirstResultStays CallsReturn
