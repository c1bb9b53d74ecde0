CONSTANTS
    Senders = {p1}
    Receivers = {r1}
    Streams = {s1, s2}
    Resettable = {s1}
    Cancellable = {}
    MaxSends = 4
    None = None
SPECIFICATION FairSpec
INVARIANTS
    ReadableUnlessReset
    RecvReturnsNext
PROPERTIES
    SentIsReceived
CHECK_DEADLOCK FALSE
