SPECIFICATION Spec
CONSTANTS
    attention = attention
    indexer = indexer
    decode = decode
    gather = gather
    VllmEdits <- MCVllmEdits
    FlashInferEdits <- MCFlashInferEdits
    Marked = {attention}
    Refused = {decode}
    Required = {gather}
    Wide = gather
    Exported = {TRUE, FALSE}
INVARIANTS
    SetupOkMeansPatched
    ServesPatchedSources
