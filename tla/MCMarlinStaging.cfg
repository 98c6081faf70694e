SPECIFICATION StagingSpec
CONSTANTS
    main = main
    aux = aux
    w13 = w13
    w2 = w2
    Stream = {main, aux}
    Weight <- MCWeight
    Size <- MCSize
    Offloaded = {w13, w2}
    Tokens <- MCTokens
    MinTokens = 2
    GpuMemory = 3
    MaxQueue = 3
    MaxGraph = 1
    MaxVersion = 1
SYMMETRY Streams
INVARIANTS
    StagedGemmReadsItsWeight
    GraphKeepsOwnStorage
    OneTemporaryPerSize
