CONSTANTS
    a = a
    b = b
    v1 = v1
    v2 = v2
    Peers = {a, b}
    IdOrder <- ForkOrder
    SharedHistory <- Fork
    StartStores <- MixedStarts
    VaultIds = {v1, v2}
    NoVault = NoVault
    NoHead = NoHead
    Versions = {1, 2}
    Chunks = 2
    MaxOrphans = 2
    MaxNodes = 4
    Faults = {"timeout", "close", "refuse", "ingest", "read"}
SPECIFICATION FairSpec
INVARIANTS
    HistoryKept
    AcksMeanStored
    TransfersCompletable
    OutcomeRight
PROPERTIES
    HeadsOnlyAdvance
    SessionsEnd
CHECK_DEADLOCK FALSE
