CONSTANTS
    a = a
    b = b
    Peers = {a, b}
    MaxSockets = 3
    MaxConns = 3
    NetworkFaults = {"drop", "restart", "hangup", "rtc"}
SYMMETRY PeerSymmetry
SPECIFICATION RoomSpec
INVARIANTS
    MembersAreServed
    SeatIsOwn
CHECK_DEADLOCK FALSE
