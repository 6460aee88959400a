CONSTANTS
    NumVars = 6
    Inputs <- MCInputs
    Assumptions <- MCAssumptions
    Heads = {0, 1, 2}
    RestartFirst = 1
    MaxRestarts = 6
SPECIFICATION Spec
INVARIANTS StructureHolds AnswerSound PropagationExact ModelsKept EliminationExact ModelsExtend ClausesDescribeFormula
PROPERTY CallsReturn
