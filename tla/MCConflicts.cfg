CONSTANTS
    a = a
    b = b
    c = c
    Devices = {a, b, c}
    Pairs <- InARow
    Resolver = b
    MaxSaves = 2
    MaxChoices = 1
    MaxRevs = 6
SPECIFICATION Spec
INVARIANTS
    ConflictsAreForks
PROPERTIES
    HeadsKeepChanges
    Converges
CHECK_DEADLOCK FALSE
