SPECIFICATION DownloadSpec
CONSTANTS
    config = config
    index = index
    first = first
    second = second
    NoFile = NoFile
    Small = {config, index}
    Shards = {first, second}
    Index = index
    Diverging = {first, second}
    Listed = {second}
INVARIANTS
    EndedMeansPresent
    VerifiedStaysGood
PROPERTIES
    CompleteIsSkipped
