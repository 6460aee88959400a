\* Two variables; samples of one and two assignments; a cache of three masks or four.
SPECIFICATION FairSpec
CONSTANTS
    None = None
    x = x
    y = y
    Vars = {x, y}
    Formulas <- MCFormulas
    Configs <- MCConfigs
    MaxVarsFs = 1
    BaseSamples = 1
    Scale = 2
    MaxScaleSteps = 1
    SampleBits = 3
    OmegaX = 3
    MaxPoints = 3
    StallSteps = 2
INVARIANTS SbsSound WildIndexOnlyIfOdd
PROPERTY SearchEnds
