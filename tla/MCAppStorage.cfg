CONSTANTS
    h1 = h1
    t1 = t1
    t2 = t2
    Hashes = {h1}
    Settings = {s1}
    Tasks = {t1, t2}
    DbWriter = DbWriter
    DbPath = DbPath
    MaxIds = 3
    Missing = Missing
    Torn = Torn
    Faults = {"kill", "write", "keystore", "race"}
SPECIFICATION Spec
INVARIANTS
    RowsHaveBytes
    IdentityStable
PROPERTIES
    DiskNeverOlder
    ChangesReachDisk
CHECK_DEADLOCK FALSE
