CONSTANTS
    c1 = c1
    c2 = c2
    c3 = c3
    Clients = {c1, c2, c3}
    Prompt = {c1}
    NoClient = NoClient
    MaxClients = 1
    MaxQueue = 1
    HeaderLen = 1
    BodyLen <- MCBodyLen
    ResponseHeaderLen = 1
    ResponseBodyLen = 1
    Window = 1
CHECK_DEADLOCK FALSE
SPECIFICATION FairSpec
PROPERTIES
    EveryCallEnds
    ShutdownEnds
