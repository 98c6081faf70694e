SPECIFICATION GateSpec
CONSTANTS
    Cells = {1, 2, 3, 4}
    Views <- MCViews
    Block0 <- MCBlock0
    Row0 <- MCRow0
    Writers = {"ring", "compressed"}
    Readers = {"swa", "compressed"}
    Requests = {probe, other}
    Probe = probe
    Tile = 2
    MaxValid = 4
    MaxDummy = 2
INVARIANTS
    EitherIsEnough
    NullBlockIsScrubbed
    GatePassesNoNaN
