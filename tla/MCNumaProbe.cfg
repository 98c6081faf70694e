SPECIFICATION NumaSpec
CONSTANTS
    NumGpus = 3
INVARIANTS
    MeasuresAlone
    ReportIsComplete
PROPERTIES
    NobodyIsLeft
