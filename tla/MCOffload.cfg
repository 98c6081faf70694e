SPECIFICATION Spec
CONSTANTS
    embed = embed
    w13 = w13
    w2 = w2
    w13b = w13b
    w2b = w2b
    norm = norm
    none = none
    unset = unset
    NoLayer = none
    NoFilter = unset
    Param <- MCParam
    Size <- MCSize
    NumModules = 5
    ModuleParams <- MCModules
    Layer <- MCLayer
    LayerOf <- MCLayerOf
    Config <- MCConfig
    MinBytes = 50
    PageBytes = 10
    Ranks = 2
    Dims <- MCDims
    Shard <- MCShard
    Tensor <- MCTensor
    BackendMargin = 15
    MaxPower = 30
    Experts <- MCExperts
    Plans <- MCPlans
    Available <- MCAvailable
INVARIANTS
    PlacementIsGreedyPrefix
    ReturnedModulesReadable
    ChargedAsMoved
    PlannerAgrees
    VerdictHolds
    AllowanceMissesOneBuffer
PROPERTIES
    ImplementsBudget
    LoadEnds
