SPECIFICATION LaunchSpec
CONSTANTS
    Engine <- MCEngine
    Window = 128
    IndexTopk = 512
INVARIANTS
    LargestAdmissible
    FailsOnlyWhenNone
    NeverAsserts
    LintedKernelsDispatch
    OnlyBlindfoldsUnblock
    PassedComesUp
