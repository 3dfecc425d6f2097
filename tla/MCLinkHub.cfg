CONSTANTS
    a = a
    b = b
    Peers = {a, b}
    MaxSyncs = 3
    MaxSessions = 7
    MaxWaiting = 2
    Faults = {"lost", "refuse", "backlog"}
SPECIFICATION Spec
INVARIANTS
    LinkOfTheSession
    IdleHoldsNothing
    HellosHeard
PROPERTIES
    Settles
CHECK_DEADLOCK FALSE
