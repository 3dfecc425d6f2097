CONSTANTS
    v1 = v1
    l1 = l1
    p1 = p1
    h2 = h2
    VaultIds = {v1}
    LocalIds = {l1, l2}
    Hashes = {h1, h2}
    PeerRevisions <- PeerEdit
    Tasks = {t1, t2}
    NoHead = NoHead
    Absent = Absent
SYMMETRY TaskSymmetry
SPECIFICATION Spec
INVARIANTS
    TypeOK
    BlobsBackRevisions
    ParentsStored
    HistoryAcyclic
    HeadsNameRevisions
    HeadAgreesWithLog
PROPERTIES
    HistoryAppendOnly
    ImplementsHistory
CHECK_DEADLOCK FALSE
