SPECIFICATION Spec
CONSTANTS
    swap = swap
    other = other
    cut = cut
    twin = twin
    NumFiles = 2
    Kind <- MCKind
    Scripts <- BothScripts
    NoText = NoText
    MaxRuns = 4
    MaxCrashes = 2
    MaxUpgrades = 1
CHECK_DEADLOCK FALSE
INVARIANTS
    ZeroExitMeansDone
    RevertIdempotent
    ApplyIdempotent
    OneCrashIsRecoverable
