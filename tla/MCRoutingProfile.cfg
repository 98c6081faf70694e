SPECIFICATION Spec
SYMMETRY LayerSymmetry
CONSTANTS
    Layers = {l1, l2}
    Ranks = 2
    PerRank = 3
    Pad = 4
    Selections <- MCSelections
    MaxSteps = 2
    MaxGeneration = 2
    MaxRuns = 2
INVARIANTS
    FileIsItsGeneration
    CountersAreThisGeneration
CHECK_DEADLOCK FALSE
