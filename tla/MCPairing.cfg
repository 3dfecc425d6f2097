CONSTANTS
    b = b
    c = c
    p1 = p1
    p2 = p2
    r1 = r1
    None = None
    Devices = {b, c}
    Conns = {p1, p2}
    Rooms = {r1}
    Faults = {"close", "fail", "restart"}
SPECIFICATION Spec
INVARIANTS
    PromptIsAwaited
    ForgottenEntirely
PROPERTIES
    PinnedByPerson
    PromptSettles
CHECK_DEADLOCK FALSE
