CONSTANTS
    c1 = c1
    c2 = c2
    c3 = c3
    Clients = {c1, c2, c3}
    Prompt = {c1}
    NoClient = NoClient
    MaxClients = 2
    MaxQueue = 2
    HeaderLen = 2
    BodyLen <- MCBodyLen
    ResponseHeaderLen = 2
    ResponseBodyLen = 1
    Window = 1
SYMMETRY StallingSymmetry
CHECK_DEADLOCK FALSE
SPECIFICATION Spec
INVARIANTS
    TypeOK
    SlotsMatchSockets
    EventsAreCurrent
    HandledWhole
    ResponseAccounted
