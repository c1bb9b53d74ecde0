CONSTANTS
    Streams = {s1}
    Opener <- ByClient
    WebTransport = {}
    Losable = {"client"}
    Crowded = {"backend"}
    MaxMsgs <- HeaderAndRequest
    Window = 1
SPECIFICATION FairSpec
INVARIANTS
    BridgeInv
PROPERTIES
    PipeImplemented
    ResetForwarded
    BridgeEnds
CHECK_DEADLOCK FALSE
