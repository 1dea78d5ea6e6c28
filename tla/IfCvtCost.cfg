SPECIFICATION SpecCosts
CONSTANTS
    WordSize = 256
    DefaultWeight = 16
    Weights <- MCWeights
    Cycles <- MCCycles
    Extra = {0, 1}
INVARIANTS
    ProbabilitySound
    NeverALoss
