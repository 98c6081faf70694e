SPECIFICATION Spec
CONSTANTS
    small = small
    medium = medium
    large = large
    Buf <- MCBuf
    Pages <- MCPages
INVARIANTS
    NoDangling
    RegisteredStaysMapped
    LedgerMatchesMappings
    PeakCoversLive
PROPERTIES
    AbandonedIsReleased
