CONSTANTS
    a = a
    b = b
    Peers = {a, b}
    Clients = {a, b}
    Host = a
    MaxSockets = 2
    MaxConns = 4
    NetworkFaults = {"hangup"}
    MaxIds = 3
    MaxRooms = 2
    MaxCodes = 2
    RoomTTL = 4
    CodeTTL = 2
    RequestLimit = 1
SPECIFICATION MeetSpec
INVARIANTS
    CodeHasRoom
PROPERTIES
    CodeLeadsToMeeting
CHECK_DEADLOCK FALSE
