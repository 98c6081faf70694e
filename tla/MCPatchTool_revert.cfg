SPECIFICATION Spec
CONSTANTS
    swap = swap
    other = other
    cut = cut
    twin = twin
    NumFiles = 2
    Kind <- MCKind
    Scripts <- FlashInferScript
    NoText = NoText
    MaxRuns = 2
    MaxCrashes = 2
    MaxUpgrades = 1
CHECK_DEADLOCK FALSE
INVARIANTS
    RevertIdempotent
